---------------------------- MODULE Spec2Model ----------------------------
(***************************************************************************)
(* A model of baseplate/config.py: the coercers and combinators (String,   *)
(* Integer, OneOf, TupleOf, Optional, Fallback), the parser classes        *)
(* (SpecParser, CallableParser, DictOf), Parser.from_spec and parse_config.*)
(*                                                                         *)
(* Python strings are sequences of one-character strings, so that split,   *)
(* strip, the key-path formatting and the DictOf regular expression are    *)
(* computed character by character.  Python values are tagged records.     *)
(***************************************************************************)
EXTENDS Integers, Sequences, FiniteSets, TLC

VARIABLES
    spec,       \* parse_config's `spec` argument (a spec expression, then the object built from it)
    config,     \* parse_config's `config` argument: a dict, as its items in insertion order
    pc,         \* position of the run: "construct", "parse_config", "parse", "done", "idle"
    stack,      \* the active Parser.parse calls, outermost first
    result,     \* what the run produced: a returned value or a raised exception
    trace,      \* history: every constructor failure, raw key scan, raw lookup and coercer call, in order,
                \* and the end of a first call when parse_config is called again
    fn,         \* a coercer under test (coercer runs)
    text,       \* the text it is applied to
    out         \* what the call produced, with the calls it made

vars == <<spec, config, pc, stack, result, trace, fn, text, out>>

-----------------------------------------------------------------------------
(* Bounds of the model *)

\* longest text handed to a coercer in a coercer run
MaxTextLen == 3

\* most items in a raw config dict
MaxRawLen == 2

-----------------------------------------------------------------------------
(* Python values *)

PyNone == [ty |-> "None"]
PyInt(n) == [ty |-> "int", n |-> n]
PyStr(s) == [ty |-> "str", s |-> s]

\* a ConfigNamespace: a dict, kept as its items in insertion order
Namespace(kv) == [ty |-> "ConfigNamespace", kv |-> kv]

Returned(v) == [r |-> "return", val |-> v]
Raised(e) == [r |-> "raise", err |-> e]

ValueError(msg, arg) == [exc |-> "ValueError", msg |-> msg, arg |-> arg]
KeyError(arg) == [exc |-> "KeyError", msg |-> "", arg |-> arg]
AssertionError(msg) == [exc |-> "AssertionError", msg |-> msg]
TypeError(msg) == [exc |-> "TypeError", msg |-> msg]
OverflowError(msg) == [exc |-> "OverflowError", msg |-> msg]
\* SystemExit(code), a BaseException that is no Exception
SystemExit(code) == [exc |-> "SystemExit", code |-> code]
\* re.error, the failure of re.compile on a pattern that is not well formed
re_error == [exc |-> "error", msg |-> ""]

\* dict.get(key, default) on a dict kept as a sequence of [k, v] items
DictHas(d, key) == \E i \in 1..Len(d) : d[i].k = key
DictGet(d, key, default) ==
    IF DictHas(d, key)
    THEN d[CHOOSE i \in 1..Len(d) : d[i].k = key].v
    ELSE default

\* d[key] = value: replaces the value of an existing key, else appends
DictSet(d, key, value) ==
    IF DictHas(d, key)
    THEN [i \in 1..Len(d) |-> IF d[i].k = key THEN [k |-> key, v |-> value] ELSE d[i]]
    ELSE Append(d, [k |-> key, v |-> value])

DictKeys(d) == {d[i].k : i \in 1..Len(d)}

-----------------------------------------------------------------------------
(* Python string operations, on sequences of characters *)

Digits == {"0", "1", "2", "3", "4", "5", "6", "7", "8", "9"}
DigitVal(ch) ==
    CASE ch = "0" -> 0 [] ch = "1" -> 1 [] ch = "2" -> 2 [] ch = "3" -> 3
      [] ch = "4" -> 4 [] ch = "5" -> 5 [] ch = "6" -> 6 [] ch = "7" -> 7
      [] ch = "8" -> 8 [] ch = "9" -> 9

\* str.isspace() of one character, for the whitespace a string of this model
\* can hold: space, tab, line feed, carriage return and form feed
IsSpace(ch) == ch \in {" ", "\t", "\n", "\r", "\f"}

\* str.strip(): the text from its first to its last character that is not
\* whitespace
Strip(s) ==
    LET LStrip(t) ==
            IF \A i \in 1..Len(t) : IsSpace(t[i]) THEN <<>>
            ELSE SubSeq(t,
                        CHOOSE i \in 1..Len(t) :
                            ~IsSpace(t[i]) /\ \A j \in 1..(i - 1) : IsSpace(t[j]),
                        Len(t))
        RStrip(t) ==
            IF \A i \in 1..Len(t) : IsSpace(t[i]) THEN <<>>
            ELSE SubSeq(t, 1,
                        CHOOSE i \in 1..Len(t) :
                            ~IsSpace(t[i]) /\ \A j \in (i + 1)..Len(t) : IsSpace(t[j]))
    IN  RStrip(LStrip(s))

\* str.split(","): the pieces between commas, empty pieces kept
Split(s) ==
    LET RECURSIVE SplitFrom(_, _)
        SplitFrom(i, piece) ==
            IF i > Len(s) THEN <<piece>>
            ELSE IF s[i] = "," THEN <<piece>> \o SplitFrom(i + 1, <<>>)
            ELSE SplitFrom(i + 1, Append(piece, s[i]))
    IN  SplitFrom(1, <<>>)

\* the value of a run of decimal digits
RECURSIVE DecimalValue(_)
DecimalValue(s) ==
    IF s = <<>> THEN 0
    ELSE 10 * DecimalValue(SubSeq(s, 1, Len(s) - 1)) + DigitVal(s[Len(s)])

\* sys.get_int_max_str_digits(): the most digits that int() converts
MaxStrDigits == 4300

\* the digits of a run of digits and underscores: "_" is allowed between two
\* digits, so the run starts and ends with a digit and no "_" follows
\* another; <<>> otherwise
IntDigits(s) ==
    IF /\ s # <<>>
       /\ \A i \in 1..Len(s) : s[i] \in Digits \cup {"_"}
       /\ s[1] # "_" /\ s[Len(s)] # "_"
       /\ \A i \in 1..(Len(s) - 1) : ~(s[i] = "_" /\ s[i + 1] = "_")
    THEN SelectSeq(s, LAMBDA ch : ch # "_")
    ELSE <<>>

\* the text after an optional sign
Unsigned(s) == IF s # <<>> /\ Head(s) \in {"+", "-"} THEN Tail(s) ELSE s

\* int(text, base=10) of a text without surrounding whitespace.  The text is
\* an optional sign directly followed by digits with single underscores
\* between them.  The digits are counted before what follows them is looked
\* at: more than MaxStrDigits of them is a failure of its own.
ExceedsLimit(s) ==
    LET \* the digits and underscores that t starts with
        DigitRun(t) ==
            IF \A i \in 1..Len(t) : t[i] \in Digits \cup {"_"} THEN t
            ELSE SubSeq(t, 1,
                        (CHOOSE i \in 1..Len(t) :
                            /\ t[i] \notin Digits \cup {"_"}
                            /\ \A j \in 1..(i - 1) : t[j] \in Digits \cup {"_"}) - 1)
    IN  Len(IntDigits(DigitRun(Unsigned(s)))) > MaxStrDigits
IntLiteral(s) == IntDigits(Unsigned(s)) # <<>> /\ ~ExceedsLimit(s)

\* digits without their leading zeros
Canonical(digits) ==
    IF \A i \in 1..Len(digits) : digits[i] = "0" THEN <<"0">>
    ELSE SubSeq(digits,
                CHOOSE i \in 1..Len(digits) :
                    digits[i] # "0" /\ \A j \in 1..(i - 1) : digits[j] = "0",
                Len(digits))

\* The value of an int literal: a number when it has at most nine digits,
\* and else, Python's int having no bound, its decimal text (the sign, if it
\* is negative, and the digits)
IntValue(s) ==
    LET Value(negative, digits) ==
            IF Len(digits) <= 9
            THEN IF negative THEN 0 - DecimalValue(digits) ELSE DecimalValue(digits)
            ELSE IF negative THEN <<"-">> \o digits ELSE digits
    IN  Value(Head(s) = "-", Canonical(IntDigits(Unsigned(s))))

-----------------------------------------------------------------------------
(* Coercers.  A coercer is a record naming the callable and its closure:   *)
(*   [c |-> "String"], [c |-> "Integer"],                                  *)
(*   [c |-> "OneOf", options |-> dict], [c |-> "getitem", options |-> dict]*)
(*   [c |-> "TupleOf", item_parser |-> coercer],                           *)
(*   [c |-> "Optional", item_parser |-> coercer, default |-> value],       *)
(*   [c |-> "Fallback", primary_parser |-> coercer,                        *)
(*                      fallback_parser |-> coercer].                      *)
(* "getitem" is a caller-supplied callable, options.__getitem__, the one   *)
(* callable here whose failure (KeyError) is not a ValueError.             *)
(* Applying a coercer yields [r, val | err, calls]: calls lists every      *)
(* coercer invocation made, in order, as [c, text].                        *)
(***************************************************************************)

Outcome(res, calls) ==
    IF res.r = "return"
    THEN [r |-> "return", val |-> res.val, calls |-> calls]
    ELSE [r |-> "raise", err |-> res.err, calls |-> calls]

Plain(o) == IF o.r = "return" THEN Returned(o.val) ELSE Raised(o.err)

RECURSIVE Apply(_, _)

String(t) ==
    IF t = <<>> THEN Raised(ValueError("no value specified", <<>>))
    ELSE Returned(PyStr(t))

Integer(t) ==
    LET Converted(s) ==
            IF IntLiteral(s) THEN Returned(PyInt(IntValue(s)))
            ELSE IF ExceedsLimit(s)
            THEN Raised(ValueError("Exceeds the limit (4300 digits) for integer string conversion", t))
            ELSE Raised(ValueError("invalid literal for int() with base 10", t))
    IN  Converted(Strip(t))

one_of(options, t) ==
    IF DictHas(options, t) THEN Returned(DictGet(options, t, PyNone))
    ELSE Raised(ValueError("expected one of", <<>>))

getitem(options, t) ==
    IF DictHas(options, t) THEN Returned(DictGet(options, t, PyNone))
    ELSE Raised(KeyError(t))

\* [item_parser(item) for item in stripped if item]: left to right, the
\* first failure ends the comprehension
RECURSIVE ParseItems(_, _, _, _)
ParseItems(item_parser, stripped, done, calls) ==
    IF stripped = <<>> THEN Outcome(Returned([ty |-> "list", elems |-> done]), calls)
    ELSE IF Head(stripped) = <<>>
         THEN ParseItems(item_parser, Tail(stripped), done, calls)
         ELSE LET o == Apply(item_parser, Head(stripped))
              IN  IF o.r = "raise" THEN Outcome(Plain(o), calls \o o.calls)
                  ELSE ParseItems(item_parser, Tail(stripped),
                                  Append(done, o.val), calls \o o.calls)

tuple_of(item_parser, t) ==
    IF t = <<>> THEN Outcome(Raised(ValueError("no values provided", <<>>)), <<>>)
    ELSE LET split == Split(t)
             stripped == [i \in 1..Len(split) |-> Strip(split[i])]
         IN  ParseItems(item_parser, stripped, <<>>, <<>>)

\* a variant of optional without the test for an empty text
optional_always_delegates(item_parser, default, t) ==
    Apply(item_parser, t)

optional(item_parser, default, t) ==
    IF t # <<>> THEN Apply(item_parser, t)
    ELSE Outcome(Returned(default), <<>>)

\* a variant of fallback with a bare except in place of except ValueError
fallback_catches_everything(primary_parser, fallback_parser, t) ==
    LET p == Apply(primary_parser, t)
    IN  IF p.r = "raise"
        THEN LET f == Apply(fallback_parser, t)
             IN  Outcome(Plain(f), p.calls \o f.calls)
        ELSE p

fallback(primary_parser, fallback_parser, t) ==
    LET p == Apply(primary_parser, t)
    IN  IF p.r = "raise" /\ p.err.exc = "ValueError"
        THEN LET f == Apply(fallback_parser, t)
             IN  Outcome(Plain(f), p.calls \o f.calls)
        ELSE p

\* calling the coercer c with text t; a coercer is any callable that takes
\* one string, such as operator.neg and sys.exit
Apply(c, t) ==
    LET o == CASE c.c = "String" -> Outcome(String(t), <<>>)
               [] c.c = "Integer" -> Outcome(Integer(t), <<>>)
               [] c.c = "OneOf" -> Outcome(one_of(c.options, t), <<>>)
               [] c.c = "getitem" -> Outcome(getitem(c.options, t), <<>>)
               [] c.c = "TupleOf" -> tuple_of(c.item_parser, t)
               [] c.c = "Optional" -> optional(c.item_parser, c.default, t)
               [] c.c = "Fallback" -> fallback(c.primary_parser, c.fallback_parser, t)
               [] c.c = "operator.neg" ->
                    Outcome(Raised(TypeError("bad operand type for unary -: 'str'")), <<>>)
               [] c.c = "sys.exit" -> Outcome(Raised(SystemExit(t)), <<>>)
    IN  Outcome(Plain(o), <<[c |-> c, text |-> t]>> \o o.calls)

-----------------------------------------------------------------------------
(* Spec nodes and parsers.                                                 *)
(*   Callable(c)      a callable taking one string                         *)
(*   Other            an object that is no Parser, no dict, not callable   *)
(*   Dict(items)      a dict, as its items [k, v] in insertion order       *)
(*   DictOfCall(e)    the constructor call DictOf(e), not yet evaluated    *)
(* and the Parser instances                                                *)
(*   SpecParser(items), CallableParser(c), DictOf whose subparser is p.    *)
(***************************************************************************)

Callable(c) == [t |-> "callable", callable |-> c]
Other == [t |-> "other"]
Dict(items) == [t |-> "dict", items |-> items]
DictOfCall(e) == [t |-> "DictOf(...)", arg |-> e]

SpecParser(items) == [t |-> "Parser", cls |-> "SpecParser", spec |-> items]
CallableParser(c) == [t |-> "Parser", cls |-> "CallableParser", callable |-> c]
DictOf(p) == [t |-> "Parser", cls |-> "DictOf", subparser |-> p]


\* isinstance(spec, Parser), isinstance(spec, dict), callable(spec)
IsParser(s) == s.t = "Parser"
IsDict(s) == "items" \in DOMAIN s
IsCallable(s) == s.t = "callable" \/ "call" \in DOMAIN s
\* what calling the object runs
CallOf(s) == IF s.t = "callable" THEN s.callable ELSE s.call

\* a variant of from_spec that tests for a dict first, then for a callable,
\* and for a Parser last
from_spec_parser_last(s) ==
    IF IsDict(s) THEN Returned(SpecParser(s.items))
    ELSE IF IsCallable(s) THEN Returned(CallableParser(CallOf(s)))
    ELSE IF IsParser(s) THEN Returned(s)
    ELSE Raised(AssertionError("invalid specification"))

\* a variant of from_spec without the callable() test and the final raise
from_spec_wraps_anything(s) ==
    IF s.t = "Parser" THEN Returned(s)
    ELSE IF s.t = "dict" THEN Returned(SpecParser(s.items))
    ELSE Returned(CallableParser([c |-> "String"]))

\* Parser.from_spec
from_spec(s) ==
    IF IsParser(s) THEN Returned(s)
    ELSE IF IsDict(s) THEN Returned(SpecParser(s.items))
    ELSE IF IsCallable(s) THEN Returned(CallableParser(CallOf(s)))
    ELSE Raised(AssertionError("invalid specification"))

\* DictOf.__init__
DictOfInit(s) ==
    LET p == from_spec(s)
    IN  IF p.r = "raise" THEN p ELSE Returned(DictOf(p.val))

\* Evaluating the expression that builds the spec: every DictOf(...) call in
\* it runs DictOf.__init__, innermost first, dict values in order; the first
\* failure ends the evaluation.
RECURSIVE Construct(_)
RECURSIVE ConstructItems(_, _)
ConstructItems(items, built) ==
    IF items = <<>> THEN Returned(Dict(built))
    ELSE LET v == Construct(Head(items).v)
         IN  IF v.r = "raise" THEN v
             ELSE ConstructItems(Tail(items),
                                 Append(built, [k |-> Head(items).k, v |-> v.val]))
Construct(e) ==
    IF e.t = "DictOf(...)"
    THEN LET a == Construct(e.arg)
         IN  IF a.r = "raise" THEN a ELSE DictOfInit(a.val)
    ELSE IF e.t = "dict"
    THEN LET d == ConstructItems(e.items, <<>>)
         IN  IF d.r = "raise" THEN d
             ELSE Returned([e EXCEPT !.items = d.val.items])
    ELSE Returned(e)

-----------------------------------------------------------------------------
(* Key paths *)

HasDot(key) == \E i \in 1..Len(key) : key[i] = "."

\* a variant of the sub_key_path computation that forgets key_path
SubKeyPath_drops_parent(key_path, key) == key

\* SpecParser.parse: "%s.%s" % (key_path, key) if key_path else key
SubKeyPath(key_path, key) ==
    IF key_path # <<>> THEN key_path \o <<".">> \o key ELSE key

\* DictOf.parse: key_path + "." if key_path else ""
Root(key_path) == IF key_path # <<>> THEN key_path \o <<".">> ELSE <<>>

\* a variant of the lookup that takes the first raw key starting with key_path
RawValue_prefix_match(raw_config, key_path) ==
    IF \E i \in 1..Len(raw_config) :
          SubSeq(raw_config[i].k, 1, Len(key_path)) = key_path
    THEN raw_config[CHOOSE i \in 1..Len(raw_config) :
            /\ SubSeq(raw_config[i].k, 1, Len(key_path)) = key_path
            /\ \A j \in 1..(i - 1) :
                  SubSeq(raw_config[j].k, 1, Len(key_path)) # key_path].v
    ELSE <<>>

\* a variant of the lookup without the default: str(raw_config.get(key_path))
RawValue_without_default(raw_config, key_path) ==
    DictGet(raw_config, key_path, <<"N", "o", "n", "e">>)

\* CallableParser.parse: raw_config.get(key_path, "")
RawValue(raw_config, key_path) == DictGet(raw_config, key_path, <<>>)

StartsWith(s, prefix) ==
    Len(prefix) <= Len(s) /\ SubSeq(s, 1, Len(prefix)) = prefix

-----------------------------------------------------------------------------
(* Regular expressions: re.compile(pattern) and matcher.search(key), as    *)
(* DictOf.parse uses them.  The key path is put into the pattern with only *)
(* its "." escaped, so whatever else it holds is read as pattern syntax.   *)
(*                                                                         *)
(* Parsing follows re/_parser.py (_parse_sub, _parse, _parse_flags,        *)
(* _escape, _class_escape, getwidth) and gives a pattern: a sequence of    *)
(* nodes, in which the flags in force are already applied                  *)
(*   [op |-> "literal", code, ic]     one character                        *)
(*   [op |-> "any", all]              "." ; all: "\n" as well              *)
(*   [op |-> "in", neg, set, ic]      a character set                      *)
(*   [op |-> "at", at]                an anchor or a word boundary         *)
(*   [op |-> "branch", items]         alternatives, each a pattern         *)
(*   [op |-> "repeat", kind, min, max, item]                               *)
(*   [op |-> "group", n, item]        n = 0: a group that does not capture *)
(*                                    (with flags: whether it sets flags;  *)
(*                                    one that does not is unpacked)       *)
(*   [op |-> "assert", neg, behind, width, item]   a lookahead, or a       *)
(*                                    lookbehind over width characters     *)
(*   [op |-> "atomic", item]                                               *)
(*   [op |-> "groupref", n, ic]       a backreference                      *)
(*   [op |-> "groupref_exists", n, yes, else, no]                          *)
(* ic is "no", or the way case is ignored: "unicode" or "ascii".  Repeat   *)
(* counts and widths are numbers of any size (NumOf).  What the code       *)
(* generator of re/_compiler.py and _sre.compile reject is checked after   *)
(* the parse.  Matching follows the backtracking order of the sre engine   *)
(* and the way it keeps the marks of the groups: a failed attempt is not   *)
(* always undone, and the groups of a match show what it has left.         *)
(*                                                                         *)
(* re.compile ends in one of: the pattern ("ok"), re.error ("error"), or   *)
(* an exception that re lets through: "OverflowError", "ValueError".       *)
(* matcher.search ends in a match, in no match, or in SystemError for a    *)
(* match with a group that ends before it starts.                          *)
(*                                                                         *)
(* Characters are those a string of this model can hold: printable ASCII   *)
(* but the grave accent, tab, line feed, carriage return, form feed; a     *)
(* pattern can name any code point with an escape.                         *)
(***************************************************************************)

\* the printable ASCII characters, from code 32 to code 126; the grave accent
\* (code 96) cannot be written in a string here and only keeps its place
Ascii ==
    << " ", "!", "\"", "#", "$", "%", "&", "'", "(", ")", "*", "+", ",", "-",
       ".", "/", "0", "1", "2", "3", "4", "5", "6", "7", "8", "9", ":", ";",
       "<", "=", ">", "?", "@", "A", "B", "C", "D", "E", "F", "G", "H", "I",
       "J", "K", "L", "M", "N", "O", "P", "Q", "R", "S", "T", "U", "V", "W",
       "X", "Y", "Z", "[", "\\", "]", "^", "_", "grave", "a", "b", "c", "d", "e",
       "f", "g", "h", "i", "j", "k", "l", "m", "n", "o", "p", "q", "r", "s",
       "t", "u", "v", "w", "x", "y", "z", "{", "|", "}", "~" >>

\* the code of each character
Codepoints ==
    [ch \in {Ascii[n] : n \in 1..Len(Ascii)} \cup {"\t", "\n", "\f", "\r"} |->
        CASE ch = "\t" -> 9 [] ch = "\n" -> 10 [] ch = "\f" -> 12 [] ch = "\r" -> 13
          [] OTHER -> 31 + (CHOOSE n \in 1..Len(Ascii) : Ascii[n] = ch)]

\* ord(ch)
Ord(ch) == Codepoints[ch]

AsciiLetters == {Ascii[n] : n \in 34..59} \cup {Ascii[n] : n \in 66..91}
OctDigits == {"0", "1", "2", "3", "4", "5", "6", "7"}

\* int(ch, 16)
HexVal(ch) ==
    IF ch \in Digits THEN Ord(ch) - 48
    ELSE IF ch \in {"a", "b", "c", "d", "e", "f"} THEN Ord(ch) - 87
    ELSE Ord(ch) - 55

\* int(s, base) for a run of digits of that base
RECURSIVE BaseValue(_, _)
BaseValue(s, base) ==
    IF s = <<>> THEN 0
    ELSE BaseValue(SubSeq(s, 1, Len(s) - 1), base) * base + HexVal(s[Len(s)])

\* A natural number of any size, as Python's int is: its decimal digits, the
\* last one first, with no zero at the end; <<>> is 0.  NumOf is int(s) for a
\* run of decimal digits.
NumOf(s) ==
    LET Reversed(digits) ==
            IF digits = <<"0">> THEN <<>>
            ELSE [k \in 1..Len(digits) |-> DigitVal(digits[Len(digits) + 1 - k])]
    IN  Reversed(Canonical(s))

\* x < y
NumLess(x, y) ==
    \/ Len(x) < Len(y)
    \/ /\ Len(x) = Len(y)
       /\ \E k \in 1..Len(x) :
              x[k] < y[k] /\ \A j \in (k + 1)..Len(x) : x[j] = y[j]

NumMin(x, y) == IF NumLess(y, x) THEN y ELSE x

\* x + y
NumAdd(x, y) ==
    LET RECURSIVE NumSum(_, _, _)
        \* u + v + carry
        NumSum(u, v, carry) ==
            LET digit == (IF u = <<>> THEN 0 ELSE u[1]) + (IF v = <<>> THEN 0 ELSE v[1])
                            + carry
            IN  IF u = <<>> /\ v = <<>> THEN (IF carry = 0 THEN <<>> ELSE <<carry>>)
                ELSE <<digit % 10>> \o NumSum(IF u = <<>> THEN u ELSE Tail(u),
                                               IF v = <<>> THEN v ELSE Tail(v),
                                               digit \div 10)
    IN  IF y = <<>> THEN x ELSE IF x = <<>> THEN y ELSE NumSum(x, y, 0)

\* x * y
RECURSIVE NumMul(_, _)
NumMul(x, y) ==
    LET Tens(n) == IF n = <<>> THEN n ELSE <<0>> \o n
        RECURSIVE NumTimes(_, _, _)
        \* u * d + carry, for a digit d that is not 0
        NumTimes(u, d, carry) ==
            IF u = <<>> THEN (IF carry = 0 THEN <<>> ELSE <<carry>>)
            ELSE <<(u[1] * d + carry) % 10>>
                    \o NumTimes(Tail(u), d, (u[1] * d + carry) \div 10)
    IN  IF x = <<>> \/ y = <<>> THEN <<>>
        ELSE IF x = <<1>> THEN y
        ELSE IF y = <<1>> THEN x
        ELSE NumAdd(IF y[1] = 0 THEN <<>> ELSE NumTimes(x, y[1], 0),
                    Tens(NumMul(x, Tail(y))))

\* x - 1, for an x that is not 0
RECURSIVE NumPred(_)
NumPred(x) ==
    IF x = <<1>> THEN <<>>
    ELSE IF x[1] > 0 THEN <<x[1] - 1>> \o Tail(x)
    ELSE <<9>> \o NumPred(Tail(x))

\* the number x, for an x below 2^31
RECURSIVE NumValue(_)
NumValue(x) == IF x = <<>> THEN 0 ELSE x[1] + 10 * NumValue(Tail(x))

\* re/_constants.py: MAXREPEAT, the repeat count that stands for no bound,
\* and MAXGROUPS; re/_compiler.py: MAXCODE, the greatest value of a code word;
\* re/_parser.py: MAXWIDTH, 2^64, the greatest width that getwidth returns
MAXREPEAT == NumOf(<<"4", "2", "9", "4", "9", "6", "7", "2", "9", "5">>)
MAXGROUPS == NumOf(<<"1", "0", "7", "3", "7", "4", "1", "8", "2", "3">>)
MAXCODE == NumOf(<<"4", "2", "9", "4", "9", "6", "7", "2", "9", "5">>)
MAXWIDTH == NumOf(<<"1", "8", "4", "4", "6", "7", "4", "4", "0", "7",
                    "3", "7", "0", "9", "5", "5", "1", "6", "1", "6">>)

Zero == NumOf(<<"0">>)

\* how re.compile fails: with re.error, or with another exception
ReError == [st |-> "error"]
Failure(exc, msg) == [st |-> exc, msg |-> msg]

\* the character of the pattern at position i, "" past its end
CharAt(p, i) == IF i >= 1 /\ i <= Len(p) THEN p[i] ELSE ""

\* the flags that matter to a node: how it ignores case
Ic(fl) == IF "i" \notin fl THEN "no" ELSE IF "a" \in fl THEN "ascii" ELSE "unicode"

Literal(code, fl) == [op |-> "literal", code |-> code, ic |-> Ic(fl)]

\* the codes of ESCAPES: \a \b \f \n \r \t \v \\
EscapeCode(c) ==
    CASE c = "a" -> 7 [] c = "b" -> 8 [] c = "f" -> 12 [] c = "n" -> 10
      [] c = "r" -> 13 [] c = "t" -> 9 [] c = "v" -> 11 [] c = "\\" -> 92

\* source.getwhile(n, charset): the end of the run of at most n characters
\* of charset that starts at position i
RECURSIVE WhileEnd(_, _, _, _)
WhileEnd(p, i, n, charset) ==
    IF n > 0 /\ CharAt(p, i) \in charset THEN WhileEnd(p, i + 1, n - 1, charset) ELSE i

\* \xhh, \uhhhh, \Uhhhhhhhh at p[i] = "\": exactly n hexadecimal digits, and
\* a code that chr() takes.  chr() fails with OverflowError for a code from
\* 2^31 on, which _escape does not catch, and with ValueError for the codes
\* past 0x10FFFF below that.  The tokenizer has by then read the token after
\* the digits, and a "\" that ends the pattern has failed there.
HexEscape(p, i, n) ==
    LET end == WhileEnd(p, i + 2, n,
                        Digits \cup {"a", "b", "c", "d", "e", "f",
                                     "A", "B", "C", "D", "E", "F"})
        digits == SubSeq(p, i + 2, end - 1)
    IN  IF end - (i + 2) # n THEN ReError
        ELSE IF end = Len(p) /\ p[end] = "\\" THEN ReError
        ELSE IF n = 8 /\ HexVal(digits[1]) >= 8
        THEN Failure("OverflowError", "Python int too large to convert to C int")
        ELSE IF BaseValue(digits, 16) > 1114111 THEN ReError
        ELSE [st |-> "ok", i |-> end, code |-> BaseValue(digits, 16)]

\* whether a token starts at position j, the tokens being read from position
\* i on: "\" and the character after it are one token, so j comes after an
\* even number of "\" in a row
TokenAt(p, i, j) ==
    LET first == CHOOSE r \in i..j :
                     /\ \A k \in r..(j - 1) : p[k] = "\\"
                     /\ \A q \in i..(r - 1) : \E k \in q..(j - 1) : p[k] # "\\"
    IN  (j - first) % 2 = 0

\* source.getuntil(terminator): the position of the first terminator from
\* position i, 0 when there is none; -1 is for a "\" that ends the pattern
Until(p, i, terminator) ==
    IF \E j \in i..Len(p) : p[j] = terminator /\ TokenAt(p, i, j)
    THEN CHOOSE j \in i..Len(p) :
            /\ p[j] = terminator /\ TokenAt(p, i, j)
            /\ \A k \in i..(j - 1) : ~(p[k] = terminator /\ TokenAt(p, i, k))
    ELSE IF i <= Len(p) + 1 /\ ~TokenAt(p, i, Len(p) + 1) THEN -1
    ELSE 0

\* The names that the Unicode Character Database (version 14.0.0, the one of
\* unicodedata) gives to single characters, the aliases among them, and the
\* code point of each; -1 for any other text.  The Hangul syllables and the
\* CJK unified ideographs are not listed: their names are computed.
UnicodeNames(name) ==
    CASE name = "NUL" -> 0
      [] name = "NULL" -> 0
      [] name = "SOH" -> 1
      [] name = "START OF HEADING" -> 1
      [] name = "START OF TEXT" -> 2
      [] name = "STX" -> 2
      [] name = "END OF TEXT" -> 3
      [] name = "ETX" -> 3
      [] name = "END OF TRANSMISSION" -> 4
      [] name = "EOT" -> 4
      [] name = "ENQ" -> 5
      [] name = "ENQUIRY" -> 5
      [] name = "ACK" -> 6
      [] name = "ACKNOWLEDGE" -> 6
      [] name = "ALERT" -> 7
      [] name = "BEL" -> 7
      [] name = "BACKSPACE" -> 8
      [] name = "BS" -> 8
      [] name = "CHARACTER TABULATION" -> 9
      [] name = "HORIZONTAL TABULATION" -> 9
      [] name = "HT" -> 9
      [] name = "TAB" -> 9
      [] name = "END OF LINE" -> 10
      [] name = "EOL" -> 10
      [] name = "LF" -> 10
      [] name = "LINE FEED" -> 10
      [] name = "NEW LINE" -> 10
      [] name = "NL" -> 10
      [] name = "LINE TABULATION" -> 11
      [] name = "VERTICAL TABULATION" -> 11
      [] name = "VT" -> 11
      [] name = "FF" -> 12
      [] name = "FORM FEED" -> 12
      [] name = "CARRIAGE RETURN" -> 13
      [] name = "CR" -> 13
      [] name = "LOCKING-SHIFT ONE" -> 14
      [] name = "SHIFT OUT" -> 14
      [] name = "SO" -> 14
      [] name = "LOCKING-SHIFT ZERO" -> 15
      [] name = "SHIFT IN" -> 15
      [] name = "SI" -> 15
      [] name = "DATA LINK ESCAPE" -> 16
      [] name = "DLE" -> 16
      [] name = "DC1" -> 17
      [] name = "DEVICE CONTROL ONE" -> 17
      [] name = "DC2" -> 18
      [] name = "DEVICE CONTROL TWO" -> 18
      [] name = "DC3" -> 19
      [] name = "DEVICE CONTROL THREE" -> 19
      [] name = "DC4" -> 20
      [] name = "DEVICE CONTROL FOUR" -> 20
      [] name = "NAK" -> 21
      [] name = "NEGATIVE ACKNOWLEDGE" -> 21
      [] name = "SYN" -> 22
      [] name = "SYNCHRONOUS IDLE" -> 22
      [] name = "END OF TRANSMISSION BLOCK" -> 23
      [] name = "ETB" -> 23
      [] name = "CAN" -> 24
      [] name = "CANCEL" -> 24
      [] name = "END OF MEDIUM" -> 25
      [] name = "EOM" -> 25
      [] name = "SUB" -> 26
      [] name = "SUBSTITUTE" -> 26
      [] name = "ESC" -> 27
      [] name = "ESCAPE" -> 27
      [] name = "FILE SEPARATOR" -> 28
      [] name = "FS" -> 28
      [] name = "INFORMATION SEPARATOR FOUR" -> 28
      [] name = "GROUP SEPARATOR" -> 29
      [] name = "GS" -> 29
      [] name = "INFORMATION SEPARATOR THREE" -> 29
      [] name = "INFORMATION SEPARATOR TWO" -> 30
      [] name = "RECORD SEPARATOR" -> 30
      [] name = "RS" -> 30
      [] name = "INFORMATION SEPARATOR ONE" -> 31
      [] name = "UNIT SEPARATOR" -> 31
      [] name = "US" -> 31
      [] name = "SP" -> 32
      [] name = "SPACE" -> 32
      [] name = "EXCLAMATION MARK" -> 33
      [] name = "QUOTATION MARK" -> 34
      [] name = "NUMBER SIGN" -> 35
      [] name = "DOLLAR SIGN" -> 36
      [] name = "PERCENT SIGN" -> 37
      [] name = "AMPERSAND" -> 38
      [] name = "APOSTROPHE" -> 39
      [] name = "LEFT PARENTHESIS" -> 40
      [] name = "RIGHT PARENTHESIS" -> 41
      [] name = "ASTERISK" -> 42
      [] name = "PLUS SIGN" -> 43
      [] name = "COMMA" -> 44
      [] name = "HYPHEN-MINUS" -> 45
      [] name = "FULL STOP" -> 46
      [] name = "SOLIDUS" -> 47
      [] name = "DIGIT ZERO" -> 48
      [] name = "DIGIT ONE" -> 49
      [] name = "DIGIT TWO" -> 50
      [] name = "DIGIT THREE" -> 51
      [] name = "DIGIT FOUR" -> 52
      [] name = "DIGIT FIVE" -> 53
      [] name = "DIGIT SIX" -> 54
      [] name = "DIGIT SEVEN" -> 55
      [] name = "DIGIT EIGHT" -> 56
      [] name = "DIGIT NINE" -> 57
      [] name = "COLON" -> 58
      [] name = "SEMICOLON" -> 59
      [] name = "LESS-THAN SIGN" -> 60
      [] name = "EQUALS SIGN" -> 61
      [] name = "GREATER-THAN SIGN" -> 62
      [] name = "QUESTION MARK" -> 63
      [] name = "COMMERCIAL AT" -> 64
      [] name = "LATIN CAPITAL LETTER A" -> 65
      [] name = "LATIN CAPITAL LETTER B" -> 66
      [] name = "LATIN CAPITAL LETTER C" -> 67
      [] name = "LATIN CAPITAL LETTER D" -> 68
      [] name = "LATIN CAPITAL LETTER E" -> 69
      [] name = "LATIN CAPITAL LETTER F" -> 70
      [] name = "LATIN CAPITAL LETTER G" -> 71
      [] name = "LATIN CAPITAL LETTER H" -> 72
      [] name = "LATIN CAPITAL LETTER I" -> 73
      [] name = "LATIN CAPITAL LETTER J" -> 74
      [] name = "LATIN CAPITAL LETTER K" -> 75
      [] name = "LATIN CAPITAL LETTER L" -> 76
      [] name = "LATIN CAPITAL LETTER M" -> 77
      [] name = "LATIN CAPITAL LETTER N" -> 78
      [] name = "LATIN CAPITAL LETTER O" -> 79
      [] name = "LATIN CAPITAL LETTER P" -> 80
      [] name = "LATIN CAPITAL LETTER Q" -> 81
      [] name = "LATIN CAPITAL LETTER R" -> 82
      [] name = "LATIN CAPITAL LETTER S" -> 83
      [] name = "LATIN CAPITAL LETTER T" -> 84
      [] name = "LATIN CAPITAL LETTER U" -> 85
      [] name = "LATIN CAPITAL LETTER V" -> 86
      [] name = "LATIN CAPITAL LETTER W" -> 87
      [] name = "LATIN CAPITAL LETTER X" -> 88
      [] name = "LATIN CAPITAL LETTER Y" -> 89
      [] name = "LATIN CAPITAL LETTER Z" -> 90
      [] name = "LEFT SQUARE BRACKET" -> 91
      [] name = "REVERSE SOLIDUS" -> 92
      [] name = "RIGHT SQUARE BRACKET" -> 93
      [] name = "CIRCUMFLEX ACCENT" -> 94
      [] name = "LOW LINE" -> 95
      [] name = "GRAVE ACCENT" -> 96
      [] name = "LATIN SMALL LETTER A" -> 97
      [] name = "LATIN SMALL LETTER B" -> 98
      [] name = "LATIN SMALL LETTER C" -> 99
      [] name = "LATIN SMALL LETTER D" -> 100
      [] name = "LATIN SMALL LETTER E" -> 101
      [] name = "LATIN SMALL LETTER F" -> 102
      [] name = "LATIN SMALL LETTER G" -> 103
      [] name = "LATIN SMALL LETTER H" -> 104
      [] name = "LATIN SMALL LETTER I" -> 105
      [] name = "LATIN SMALL LETTER J" -> 106
      [] name = "LATIN SMALL LETTER K" -> 107
      [] name = "LATIN SMALL LETTER L" -> 108
      [] name = "LATIN SMALL LETTER M" -> 109
      [] name = "LATIN SMALL LETTER N" -> 110
      [] name = "LATIN SMALL LETTER O" -> 111
      [] name = "LATIN SMALL LETTER P" -> 112
      [] name = "LATIN SMALL LETTER Q" -> 113
      [] name = "LATIN SMALL LETTER R" -> 114
      [] name = "LATIN SMALL LETTER S" -> 115
      [] name = "LATIN SMALL LETTER T" -> 116
      [] name = "LATIN SMALL LETTER U" -> 117
      [] name = "LATIN SMALL LETTER V" -> 118
      [] name = "LATIN SMALL LETTER W" -> 119
      [] name = "LATIN SMALL LETTER X" -> 120
      [] name = "LATIN SMALL LETTER Y" -> 121
      [] name = "LATIN SMALL LETTER Z" -> 122
      [] name = "LEFT CURLY BRACKET" -> 123
      [] name = "VERTICAL LINE" -> 124
      [] name = "RIGHT CURLY BRACKET" -> 125
      [] name = "TILDE" -> 126
      [] name = "DEL" -> 127
      [] name = "DELETE" -> 127
      [] name = "PAD" -> 128
      [] name = "PADDING CHARACTER" -> 128
      [] name = "HIGH OCTET PRESET" -> 129
      [] name = "HOP" -> 129
      [] name = "BPH" -> 130
      [] name = "BREAK PERMITTED HERE" -> 130
      [] name = "NBH" -> 131
      [] name = "NO BREAK HERE" -> 131
      [] name = "IND" -> 132
      [] name = "INDEX" -> 132
      [] name = "NEL" -> 133
      [] name = "NEXT LINE" -> 133
      [] name = "SSA" -> 134
      [] name = "START OF SELECTED AREA" -> 134
      [] name = "END OF SELECTED AREA" -> 135
      [] name = "ESA" -> 135
      [] name = "CHARACTER TABULATION SET" -> 136
      [] name = "HORIZONTAL TABULATION SET" -> 136
      [] name = "HTS" -> 136
      [] name = "CHARACTER TABULATION WITH JUSTIFICATION" -> 137
      [] name = "HORIZONTAL TABULATION WITH JUSTIFICATION" -> 137
      [] name = "HTJ" -> 137
      [] name = "LINE TABULATION SET" -> 138
      [] name = "VERTICAL TABULATION SET" -> 138
      [] name = "VTS" -> 138
      [] name = "PARTIAL LINE DOWN" -> 139
      [] name = "PARTIAL LINE FORWARD" -> 139
      [] name = "PLD" -> 139
      [] name = "PARTIAL LINE BACKWARD" -> 140
      [] name = "PARTIAL LINE UP" -> 140
      [] name = "PLU" -> 140
      [] name = "REVERSE INDEX" -> 141
      [] name = "REVERSE LINE FEED" -> 141
      [] name = "RI" -> 141
      [] name = "SINGLE SHIFT TWO" -> 142
      [] name = "SINGLE-SHIFT-2" -> 142
      [] name = "SS2" -> 142
      [] name = "SINGLE SHIFT THREE" -> 143
      [] name = "SINGLE-SHIFT-3" -> 143
      [] name = "SS3" -> 143
      [] name = "DCS" -> 144
      [] name = "DEVICE CONTROL STRING" -> 144
      [] name = "PRIVATE USE ONE" -> 145
      [] name = "PRIVATE USE-1" -> 145
      [] name = "PU1" -> 145
      [] name = "PRIVATE USE TWO" -> 146
      [] name = "PRIVATE USE-2" -> 146
      [] name = "PU2" -> 146
      [] name = "SET TRANSMIT STATE" -> 147
      [] name = "STS" -> 147
      [] name = "CANCEL CHARACTER" -> 148
      [] name = "CCH" -> 148
      [] name = "MESSAGE WAITING" -> 149
      [] name = "MW" -> 149
      [] name = "SPA" -> 150
      [] name = "START OF GUARDED AREA" -> 150
      [] name = "START OF PROTECTED AREA" -> 150
      [] name = "END OF GUARDED AREA" -> 151
      [] name = "END OF PROTECTED AREA" -> 151
      [] name = "EPA" -> 151
      [] name = "SOS" -> 152
      [] name = "START OF STRING" -> 152
      [] name = "SGC" -> 153
      [] name = "SINGLE GRAPHIC CHARACTER INTRODUCER" -> 153
      [] name = "SCI" -> 154
      [] name = "SINGLE CHARACTER INTRODUCER" -> 154
      [] name = "CONTROL SEQUENCE INTRODUCER" -> 155
      [] name = "CSI" -> 155
      [] name = "ST" -> 156
      [] name = "STRING TERMINATOR" -> 156
      [] name = "OPERATING SYSTEM COMMAND" -> 157
      [] name = "OSC" -> 157
      [] name = "PM" -> 158
      [] name = "PRIVACY MESSAGE" -> 158
      [] name = "APC" -> 159
      [] name = "APPLICATION PROGRAM COMMAND" -> 159
      [] name = "NBSP" -> 160
      [] name = "NO-BREAK SPACE" -> 160
      [] name = "INVERTED EXCLAMATION MARK" -> 161
      [] name = "CENT SIGN" -> 162
      [] name = "POUND SIGN" -> 163
      [] name = "CURRENCY SIGN" -> 164
      [] name = "YEN SIGN" -> 165
      [] name = "BROKEN BAR" -> 166
      [] name = "SECTION SIGN" -> 167
      [] name = "DIAERESIS" -> 168
      [] name = "COPYRIGHT SIGN" -> 169
      [] name = "FEMININE ORDINAL INDICATOR" -> 170
      [] name = "LEFT-POINTING DOUBLE ANGLE QUOTATION MARK" -> 171
      [] name = "NOT SIGN" -> 172
      [] name = "SHY" -> 173
      [] name = "SOFT HYPHEN" -> 173
      [] name = "REGISTERED SIGN" -> 174
      [] name = "MACRON" -> 175
      [] name = "DEGREE SIGN" -> 176
      [] name = "PLUS-MINUS SIGN" -> 177
      [] name = "SUPERSCRIPT TWO" -> 178
      [] name = "SUPERSCRIPT THREE" -> 179
      [] name = "ACUTE ACCENT" -> 180
      [] name = "MICRO SIGN" -> 181
      [] name = "PILCROW SIGN" -> 182
      [] name = "MIDDLE DOT" -> 183
      [] name = "CEDILLA" -> 184
      [] name = "SUPERSCRIPT ONE" -> 185
      [] name = "MASCULINE ORDINAL INDICATOR" -> 186
      [] name = "RIGHT-POINTING DOUBLE ANGLE QUOTATION MARK" -> 187
      [] name = "VULGAR FRACTION ONE QUARTER" -> 188
      [] name = "VULGAR FRACTION ONE HALF" -> 189
      [] name = "VULGAR FRACTION THREE QUARTERS" -> 190
      [] name = "INVERTED QUESTION MARK" -> 191
      [] name = "LATIN CAPITAL LETTER A WITH GRAVE" -> 192
      [] name = "LATIN CAPITAL LETTER A WITH ACUTE" -> 193
      [] name = "LATIN CAPITAL LETTER A WITH CIRCUMFLEX" -> 194
      [] name = "LATIN CAPITAL LETTER A WITH TILDE" -> 195
      [] name = "LATIN CAPITAL LETTER A WITH DIAERESIS" -> 196
      [] name = "LATIN CAPITAL LETTER A WITH RING ABOVE" -> 197
      [] name = "LATIN CAPITAL LETTER AE" -> 198
      [] name = "LATIN CAPITAL LETTER C WITH CEDILLA" -> 199
      [] name = "LATIN CAPITAL LETTER E WITH GRAVE" -> 200
      [] name = "LATIN CAPITAL LETTER E WITH ACUTE" -> 201
      [] name = "LATIN CAPITAL LETTER E WITH CIRCUMFLEX" -> 202
      [] name = "LATIN CAPITAL LETTER E WITH DIAERESIS" -> 203
      [] name = "LATIN CAPITAL LETTER I WITH GRAVE" -> 204
      [] name = "LATIN CAPITAL LETTER I WITH ACUTE" -> 205
      [] name = "LATIN CAPITAL LETTER I WITH CIRCUMFLEX" -> 206
      [] name = "LATIN CAPITAL LETTER I WITH DIAERESIS" -> 207
      [] name = "LATIN CAPITAL LETTER ETH" -> 208
      [] name = "LATIN CAPITAL LETTER N WITH TILDE" -> 209
      [] name = "LATIN CAPITAL LETTER O WITH GRAVE" -> 210
      [] name = "LATIN CAPITAL LETTER O WITH ACUTE" -> 211
      [] name = "LATIN CAPITAL LETTER O WITH CIRCUMFLEX" -> 212
      [] name = "LATIN CAPITAL LETTER O WITH TILDE" -> 213
      [] name = "LATIN CAPITAL LETTER O WITH DIAERESIS" -> 214
      [] name = "MULTIPLICATION SIGN" -> 215
      [] name = "LATIN CAPITAL LETTER O WITH STROKE" -> 216
      [] name = "LATIN CAPITAL LETTER U WITH GRAVE" -> 217
      [] name = "LATIN CAPITAL LETTER U WITH ACUTE" -> 218
      [] name = "LATIN CAPITAL LETTER U WITH CIRCUMFLEX" -> 219
      [] name = "LATIN CAPITAL LETTER U WITH DIAERESIS" -> 220
      [] name = "LATIN CAPITAL LETTER Y WITH ACUTE" -> 221
      [] name = "LATIN CAPITAL LETTER THORN" -> 222
      [] name = "LATIN SMALL LETTER SHARP S" -> 223
      [] name = "LATIN SMALL LETTER A WITH GRAVE" -> 224
      [] name = "LATIN SMALL LETTER A WITH ACUTE" -> 225
      [] name = "LATIN SMALL LETTER A WITH CIRCUMFLEX" -> 226
      [] name = "LATIN SMALL LETTER A WITH TILDE" -> 227
      [] name = "LATIN SMALL LETTER A WITH DIAERESIS" -> 228
      [] name = "LATIN SMALL LETTER A WITH RING ABOVE" -> 229
      [] name = "LATIN SMALL LETTER AE" -> 230
      [] name = "LATIN SMALL LETTER C WITH CEDILLA" -> 231
      [] name = "LATIN SMALL LETTER E WITH GRAVE" -> 232
      [] name = "LATIN SMALL LETTER E WITH ACUTE" -> 233
      [] name = "LATIN SMALL LETTER E WITH CIRCUMFLEX" -> 234
      [] name = "LATIN SMALL LETTER E WITH DIAERESIS" -> 235
      [] name = "LATIN SMALL LETTER I WITH GRAVE" -> 236
      [] name = "LATIN SMALL LETTER I WITH ACUTE" -> 237
      [] name = "LATIN SMALL LETTER I WITH CIRCUMFLEX" -> 238
      [] name = "LATIN SMALL LETTER I WITH DIAERESIS" -> 239
      [] name = "LATIN SMALL LETTER ETH" -> 240
      [] name = "LATIN SMALL LETTER N WITH TILDE" -> 241
      [] name = "LATIN SMALL LETTER O WITH GRAVE" -> 242
      [] name = "LATIN SMALL LETTER O WITH ACUTE" -> 243
      [] name = "LATIN SMALL LETTER O WITH CIRCUMFLEX" -> 244
      [] name = "LATIN SMALL LETTER O WITH TILDE" -> 245
      [] name = "LATIN SMALL LETTER O WITH DIAERESIS" -> 246
      [] name = "DIVISION SIGN" -> 247
      [] name = "LATIN SMALL LETTER O WITH STROKE" -> 248
      [] name = "LATIN SMALL LETTER U WITH GRAVE" -> 249
      [] name = "LATIN SMALL LETTER U WITH ACUTE" -> 250
      [] name = "LATIN SMALL LETTER U WITH CIRCUMFLEX" -> 251
      [] name = "LATIN SMALL LETTER U WITH DIAERESIS" -> 252
      [] name = "LATIN SMALL LETTER Y WITH ACUTE" -> 253
      [] name = "LATIN SMALL LETTER THORN" -> 254
      [] name = "LATIN SMALL LETTER Y WITH DIAERESIS" -> 255
      [] name = "LATIN CAPITAL LETTER A WITH MACRON" -> 256
      [] name = "LATIN SMALL LETTER A WITH MACRON" -> 257
      [] name = "LATIN CAPITAL LETTER A WITH BREVE" -> 258
      [] name = "LATIN SMALL LETTER A WITH BREVE" -> 259
      [] name = "LATIN CAPITAL LETTER A WITH OGONEK" -> 260
      [] name = "LATIN SMALL LETTER A WITH OGONEK" -> 261
      [] name = "LATIN CAPITAL LETTER C WITH ACUTE" -> 262
      [] name = "LATIN SMALL LETTER C WITH ACUTE" -> 263
      [] name = "LATIN CAPITAL LETTER C WITH CIRCUMFLEX" -> 264
      [] name = "LATIN SMALL LETTER C WITH CIRCUMFLEX" -> 265
      [] name = "LATIN CAPITAL LETTER C WITH DOT ABOVE" -> 266
      [] name = "LATIN SMALL LETTER C WITH DOT ABOVE" -> 267
      [] name = "LATIN CAPITAL LETTER C WITH CARON" -> 268
      [] name = "LATIN SMALL LETTER C WITH CARON" -> 269
      [] name = "LATIN CAPITAL LETTER D WITH CARON" -> 270
      [] name = "LATIN SMALL LETTER D WITH CARON" -> 271
      [] name = "LATIN CAPITAL LETTER D WITH STROKE" -> 272
      [] name = "LATIN SMALL LETTER D WITH STROKE" -> 273
      [] name = "LATIN CAPITAL LETTER E WITH MACRON" -> 274
      [] name = "LATIN SMALL LETTER E WITH MACRON" -> 275
      [] name = "LATIN CAPITAL LETTER E WITH BREVE" -> 276
      [] name = "LATIN SMALL LETTER E WITH BREVE" -> 277
      [] name = "LATIN CAPITAL LETTER E WITH DOT ABOVE" -> 278
      [] name = "LATIN SMALL LETTER E WITH DOT ABOVE" -> 279
      [] name = "LATIN CAPITAL LETTER E WITH OGONEK" -> 280
      [] name = "LATIN SMALL LETTER E WITH OGONEK" -> 281
      [] name = "LATIN CAPITAL LETTER E WITH CARON" -> 282
      [] name = "LATIN SMALL LETTER E WITH CARON" -> 283
      [] name = "LATIN CAPITAL LETTER G WITH CIRCUMFLEX" -> 284
      [] name = "LATIN SMALL LETTER G WITH CIRCUMFLEX" -> 285
      [] name = "LATIN CAPITAL LETTER G WITH BREVE" -> 286
      [] name = "LATIN SMALL LETTER G WITH BREVE" -> 287
      [] name = "LATIN CAPITAL LETTER G WITH DOT ABOVE" -> 288
      [] name = "LATIN SMALL LETTER G WITH DOT ABOVE" -> 289
      [] name = "LATIN CAPITAL LETTER G WITH CEDILLA" -> 290
      [] name = "LATIN SMALL LETTER G WITH CEDILLA" -> 291
      [] name = "LATIN CAPITAL LETTER H WITH CIRCUMFLEX" -> 292
      [] name = "LATIN SMALL LETTER H WITH CIRCUMFLEX" -> 293
      [] name = "LATIN CAPITAL LETTER H WITH STROKE" -> 294
      [] name = "LATIN SMALL LETTER H WITH STROKE" -> 295
      [] name = "LATIN CAPITAL LETTER I WITH TILDE" -> 296
      [] name = "LATIN SMALL LETTER I WITH TILDE" -> 297
      [] name = "LATIN CAPITAL LETTER I WITH MACRON" -> 298
      [] name = "LATIN SMALL LETTER I WITH MACRON" -> 299
      [] name = "LATIN CAPITAL LETTER I WITH BREVE" -> 300
      [] name = "LATIN SMALL LETTER I WITH BREVE" -> 301
      [] name = "LATIN CAPITAL LETTER I WITH OGONEK" -> 302
      [] name = "LATIN SMALL LETTER I WITH OGONEK" -> 303
      [] name = "LATIN CAPITAL LETTER I WITH DOT ABOVE" -> 304
      [] name = "LATIN SMALL LETTER DOTLESS I" -> 305
      [] name = "LATIN CAPITAL LIGATURE IJ" -> 306
      [] name = "LATIN SMALL LIGATURE IJ" -> 307
      [] name = "LATIN CAPITAL LETTER J WITH CIRCUMFLEX" -> 308
      [] name = "LATIN SMALL LETTER J WITH CIRCUMFLEX" -> 309
      [] name = "LATIN CAPITAL LETTER K WITH CEDILLA" -> 310
      [] name = "LATIN SMALL LETTER K WITH CEDILLA" -> 311
      [] name = "LATIN SMALL LETTER KRA" -> 312
      [] name = "LATIN CAPITAL LETTER L WITH ACUTE" -> 313
      [] name = "LATIN SMALL LETTER L WITH ACUTE" -> 314
      [] name = "LATIN CAPITAL LETTER L WITH CEDILLA" -> 315
      [] name = "LATIN SMALL LETTER L WITH CEDILLA" -> 316
      [] name = "LATIN CAPITAL LETTER L WITH CARON" -> 317
      [] name = "LATIN SMALL LETTER L WITH CARON" -> 318
      [] name = "LATIN CAPITAL LETTER L WITH MIDDLE DOT" -> 319
      [] name = "LATIN SMALL LETTER L WITH MIDDLE DOT" -> 320
      [] name = "LATIN CAPITAL LETTER L WITH STROKE" -> 321
      [] name = "LATIN SMALL LETTER L WITH STROKE" -> 322
      [] name = "LATIN CAPITAL LETTER N WITH ACUTE" -> 323
      [] name = "LATIN SMALL LETTER N WITH ACUTE" -> 324
      [] name = "LATIN CAPITAL LETTER N WITH CEDILLA" -> 325
      [] name = "LATIN SMALL LETTER N WITH CEDILLA" -> 326
      [] name = "LATIN CAPITAL LETTER N WITH CARON" -> 327
      [] name = "LATIN SMALL LETTER N WITH CARON" -> 328
      [] name = "LATIN SMALL LETTER N PRECEDED BY APOSTROPHE" -> 329
      [] name = "LATIN CAPITAL LETTER ENG" -> 330
      [] name = "LATIN SMALL LETTER ENG" -> 331
      [] name = "LATIN CAPITAL LETTER O WITH MACRON" -> 332
      [] name = "LATIN SMALL LETTER O WITH MACRON" -> 333
      [] name = "LATIN CAPITAL LETTER O WITH BREVE" -> 334
      [] name = "LATIN SMALL LETTER O WITH BREVE" -> 335
      [] name = "LATIN CAPITAL LETTER O WITH DOUBLE ACUTE" -> 336
      [] name = "LATIN SMALL LETTER O WITH DOUBLE ACUTE" -> 337
      [] name = "LATIN CAPITAL LIGATURE OE" -> 338
      [] name = "LATIN SMALL LIGATURE OE" -> 339
      [] name = "LATIN CAPITAL LETTER R WITH ACUTE" -> 340
      [] name = "LATIN SMALL LETTER R WITH ACUTE" -> 341
      [] name = "LATIN CAPITAL LETTER R WITH CEDILLA" -> 342
      [] name = "LATIN SMALL LETTER R WITH CEDILLA" -> 343
      [] name = "LATIN CAPITAL LETTER R WITH CARON" -> 344
      [] name = "LATIN SMALL LETTER R WITH CARON" -> 345
      [] name = "LATIN CAPITAL LETTER S WITH ACUTE" -> 346
      [] name = "LATIN SMALL LETTER S WITH ACUTE" -> 347
      [] name = "LATIN CAPITAL LETTER S WITH CIRCUMFLEX" -> 348
      [] name = "LATIN SMALL LETTER S WITH CIRCUMFLEX" -> 349
      [] name = "LATIN CAPITAL LETTER S WITH CEDILLA" -> 350
      [] name = "LATIN SMALL LETTER S WITH CEDILLA" -> 351
      [] name = "LATIN CAPITAL LETTER S WITH CARON" -> 352
      [] name = "LATIN SMALL LETTER S WITH CARON" -> 353
      [] name = "LATIN CAPITAL LETTER T WITH CEDILLA" -> 354
      [] name = "LATIN SMALL LETTER T WITH CEDILLA" -> 355
      [] name = "LATIN CAPITAL LETTER T WITH CARON" -> 356
      [] name = "LATIN SMALL LETTER T WITH CARON" -> 357
      [] name = "LATIN CAPITAL LETTER T WITH STROKE" -> 358
      [] name = "LATIN SMALL LETTER T WITH STROKE" -> 359
      [] name = "LATIN CAPITAL LETTER U WITH TILDE" -> 360
      [] name = "LATIN SMALL LETTER U WITH TILDE" -> 361
      [] name = "LATIN CAPITAL LETTER U WITH MACRON" -> 362
      [] name = "LATIN SMALL LETTER U WITH MACRON" -> 363
      [] name = "LATIN CAPITAL LETTER U WITH BREVE" -> 364
      [] name = "LATIN SMALL LETTER U WITH BREVE" -> 365
      [] name = "LATIN CAPITAL LETTER U WITH RING ABOVE" -> 366
      [] name = "LATIN SMALL LETTER U WITH RING ABOVE" -> 367
      [] name = "LATIN CAPITAL LETTER U WITH DOUBLE ACUTE" -> 368
      [] name = "LATIN SMALL LETTER U WITH DOUBLE ACUTE" -> 369
      [] name = "LATIN CAPITAL LETTER U WITH OGONEK" -> 370
      [] name = "LATIN SMALL LETTER U WITH OGONEK" -> 371
      [] name = "LATIN CAPITAL LETTER W WITH CIRCUMFLEX" -> 372
      [] name = "LATIN SMALL LETTER W WITH CIRCUMFLEX" -> 373
      [] name = "LATIN CAPITAL LETTER Y WITH CIRCUMFLEX" -> 374
      [] name = "LATIN SMALL LETTER Y WITH CIRCUMFLEX" -> 375
      [] name = "LATIN CAPITAL LETTER Y WITH DIAERESIS" -> 376
      [] name = "LATIN CAPITAL LETTER Z WITH ACUTE" -> 377
      [] name = "LATIN SMALL LETTER Z WITH ACUTE" -> 378
      [] name = "LATIN CAPITAL LETTER Z WITH DOT ABOVE" -> 379
      [] name = "LATIN SMALL LETTER Z WITH DOT ABOVE" -> 380
      [] name = "LATIN CAPITAL LETTER Z WITH CARON" -> 381
      [] name = "LATIN SMALL LETTER Z WITH CARON" -> 382
      [] name = "LATIN SMALL LETTER LONG S" -> 383
      [] name = "LATIN SMALL LETTER B WITH STROKE" -> 384
      [] name = "LATIN CAPITAL LETTER B WITH HOOK" -> 385
      [] name = "LATIN CAPITAL LETTER B WITH TOPBAR" -> 386
      [] name = "LATIN SMALL LETTER B WITH TOPBAR" -> 387
      [] name = "LATIN CAPITAL LETTER TONE SIX" -> 388
      [] name = "LATIN SMALL LETTER TONE SIX" -> 389
      [] name = "LATIN CAPITAL LETTER OPEN O" -> 390
      [] name = "LATIN CAPITAL LETTER C WITH HOOK" -> 391
      [] name = "LATIN SMALL LETTER C WITH HOOK" -> 392
      [] name = "LATIN CAPITAL LETTER AFRICAN D" -> 393
      [] name = "LATIN CAPITAL LETTER D WITH HOOK" -> 394
      [] name = "LATIN CAPITAL LETTER D WITH TOPBAR" -> 395
      [] name = "LATIN SMALL LETTER D WITH TOPBAR" -> 396
      [] name = "LATIN SMALL LETTER TURNED DELTA" -> 397
      [] name = "LATIN CAPITAL LETTER REVERSED E" -> 398
      [] name = "LATIN CAPITAL LETTER SCHWA" -> 399
      [] name = "LATIN CAPITAL LETTER OPEN E" -> 400
      [] name = "LATIN CAPITAL LETTER F WITH HOOK" -> 401
      [] name = "LATIN SMALL LETTER F WITH HOOK" -> 402
      [] name = "LATIN CAPITAL LETTER G WITH HOOK" -> 403
      [] name = "LATIN CAPITAL LETTER GAMMA" -> 404
      [] name = "LATIN SMALL LETTER HV" -> 405
      [] name = "LATIN CAPITAL LETTER IOTA" -> 406
      [] name = "LATIN CAPITAL LETTER I WITH STROKE" -> 407
      [] name = "LATIN CAPITAL LETTER K WITH HOOK" -> 408
      [] name = "LATIN SMALL LETTER K WITH HOOK" -> 409
      [] name = "LATIN SMALL LETTER L WITH BAR" -> 410
      [] name = "LATIN SMALL LETTER LAMBDA WITH STROKE" -> 411
      [] name = "LATIN CAPITAL LETTER TURNED M" -> 412
      [] name = "LATIN CAPITAL LETTER N WITH LEFT HOOK" -> 413
      [] name = "LATIN SMALL LETTER N WITH LONG RIGHT LEG" -> 414
      [] name = "LATIN CAPITAL LETTER O WITH MIDDLE TILDE" -> 415
      [] name = "LATIN CAPITAL LETTER O WITH HORN" -> 416
      [] name = "LATIN SMALL LETTER O WITH HORN" -> 417
      [] name = "LATIN CAPITAL LETTER GHA" -> 418
      [] name = "LATIN CAPITAL LETTER OI" -> 418
      [] name = "LATIN SMALL LETTER GHA" -> 419
      [] name = "LATIN SMALL LETTER OI" -> 419
      [] name = "LATIN CAPITAL LETTER P WITH HOOK" -> 420
      [] name = "LATIN SMALL LETTER P WITH HOOK" -> 421
      [] name = "LATIN LETTER YR" -> 422
      [] name = "LATIN CAPITAL LETTER TONE TWO" -> 423
      [] name = "LATIN SMALL LETTER TONE TWO" -> 424
      [] name = "LATIN CAPITAL LETTER ESH" -> 425
      [] name = "LATIN LETTER REVERSED ESH LOOP" -> 426
      [] name = "LATIN SMALL LETTER T WITH PALATAL HOOK" -> 427
      [] name = "LATIN CAPITAL LETTER T WITH HOOK" -> 428
      [] name = "LATIN SMALL LETTER T WITH HOOK" -> 429
      [] name = "LATIN CAPITAL LETTER T WITH RETROFLEX HOOK" -> 430
      [] name = "LATIN CAPITAL LETTER U WITH HORN" -> 431
      [] name = "LATIN SMALL LETTER U WITH HORN" -> 432
      [] name = "LATIN CAPITAL LETTER UPSILON" -> 433
      [] name = "LATIN CAPITAL LETTER V WITH HOOK" -> 434
      [] name = "LATIN CAPITAL LETTER Y WITH HOOK" -> 435
      [] name = "LATIN SMALL LETTER Y WITH HOOK" -> 436
      [] name = "LATIN CAPITAL LETTER Z WITH STROKE" -> 437
      [] name = "LATIN SMALL LETTER Z WITH STROKE" -> 438
      [] name = "LATIN CAPITAL LETTER EZH" -> 439
      [] name = "LATIN CAPITAL LETTER EZH REVERSED" -> 440
      [] name = "LATIN SMALL LETTER EZH REVERSED" -> 441
      [] name = "LATIN SMALL LETTER EZH WITH TAIL" -> 442
      [] name = "LATIN LETTER TWO WITH STROKE" -> 443
      [] name = "LATIN CAPITAL LETTER TONE FIVE" -> 444
      [] name = "LATIN SMALL LETTER TONE FIVE" -> 445
      [] name = "LATIN LETTER INVERTED GLOTTAL STOP WITH STROKE" -> 446
      [] name = "LATIN LETTER WYNN" -> 447
      [] name = "LATIN LETTER DENTAL CLICK" -> 448
      [] name = "LATIN LETTER LATERAL CLICK" -> 449
      [] name = "LATIN LETTER ALVEOLAR CLICK" -> 450
      [] name = "LATIN LETTER RETROFLEX CLICK" -> 451
      [] name = "LATIN CAPITAL LETTER DZ WITH CARON" -> 452
      [] name = "LATIN CAPITAL LETTER D WITH SMALL LETTER Z WITH CARON" -> 453
      [] name = "LATIN SMALL LETTER DZ WITH CARON" -> 454
      [] name = "LATIN CAPITAL LETTER LJ" -> 455
      [] name = "LATIN CAPITAL LETTER L WITH SMALL LETTER J" -> 456
      [] name = "LATIN SMALL LETTER LJ" -> 457
      [] name = "LATIN CAPITAL LETTER NJ" -> 458
      [] name = "LATIN CAPITAL LETTER N WITH SMALL LETTER J" -> 459
      [] name = "LATIN SMALL LETTER NJ" -> 460
      [] name = "LATIN CAPITAL LETTER A WITH CARON" -> 461
      [] name = "LATIN SMALL LETTER A WITH CARON" -> 462
      [] name = "LATIN CAPITAL LETTER I WITH CARON" -> 463
      [] name = "LATIN SMALL LETTER I WITH CARON" -> 464
      [] name = "LATIN CAPITAL LETTER O WITH CARON" -> 465
      [] name = "LATIN SMALL LETTER O WITH CARON" -> 466
      [] name = "LATIN CAPITAL LETTER U WITH CARON" -> 467
      [] name = "LATIN SMALL LETTER U WITH CARON" -> 468
      [] name = "LATIN CAPITAL LETTER U WITH DIAERESIS AND MACRON" -> 469
      [] name = "LATIN SMALL LETTER U WITH DIAERESIS AND MACRON" -> 470
      [] name = "LATIN CAPITAL LETTER U WITH DIAERESIS AND ACUTE" -> 471
      [] name = "LATIN SMALL LETTER U WITH DIAERESIS AND ACUTE" -> 472
      [] name = "LATIN CAPITAL LETTER U WITH DIAERESIS AND CARON" -> 473
      [] name = "LATIN SMALL LETTER U WITH DIAERESIS AND CARON" -> 474
      [] name = "LATIN CAPITAL LETTER U WITH DIAERESIS AND GRAVE" -> 475
      [] name = "LATIN SMALL LETTER U WITH DIAERESIS AND GRAVE" -> 476
      [] name = "LATIN SMALL LETTER TURNED E" -> 477
      [] name = "LATIN CAPITAL LETTER A WITH DIAERESIS AND MACRON" -> 478
      [] name = "LATIN SMALL LETTER A WITH DIAERESIS AND MACRON" -> 479
      [] name = "LATIN CAPITAL LETTER A WITH DOT ABOVE AND MACRON" -> 480
      [] name = "LATIN SMALL LETTER A WITH DOT ABOVE AND MACRON" -> 481
      [] name = "LATIN CAPITAL LETTER AE WITH MACRON" -> 482
      [] name = "LATIN SMALL LETTER AE WITH MACRON" -> 483
      [] name = "LATIN CAPITAL LETTER G WITH STROKE" -> 484
      [] name = "LATIN SMALL LETTER G WITH STROKE" -> 485
      [] name = "LATIN CAPITAL LETTER G WITH CARON" -> 486
      [] name = "LATIN SMALL LETTER G WITH CARON" -> 487
      [] name = "LATIN CAPITAL LETTER K WITH CARON" -> 488
      [] name = "LATIN SMALL LETTER K WITH CARON" -> 489
      [] name = "LATIN CAPITAL LETTER O WITH OGONEK" -> 490
      [] name = "LATIN SMALL LETTER O WITH OGONEK" -> 491
      [] name = "LATIN CAPITAL LETTER O WITH OGONEK AND MACRON" -> 492
      [] name = "LATIN SMALL LETTER O WITH OGONEK AND MACRON" -> 493
      [] name = "LATIN CAPITAL LETTER EZH WITH CARON" -> 494
      [] name = "LATIN SMALL LETTER EZH WITH CARON" -> 495
      [] name = "LATIN SMALL LETTER J WITH CARON" -> 496
      [] name = "LATIN CAPITAL LETTER DZ" -> 497
      [] name = "LATIN CAPITAL LETTER D WITH SMALL LETTER Z" -> 498
      [] name = "LATIN SMALL LETTER DZ" -> 499
      [] name = "LATIN CAPITAL LETTER G WITH ACUTE" -> 500
      [] name = "LATIN SMALL LETTER G WITH ACUTE" -> 501
      [] name = "LATIN CAPITAL LETTER HWAIR" -> 502
      [] name = "LATIN CAPITAL LETTER WYNN" -> 503
      [] name = "LATIN CAPITAL LETTER N WITH GRAVE" -> 504
      [] name = "LATIN SMALL LETTER N WITH GRAVE" -> 505
      [] name = "LATIN CAPITAL LETTER A WITH RING ABOVE AND ACUTE" -> 506
      [] name = "LATIN SMALL LETTER A WITH RING ABOVE AND ACUTE" -> 507
      [] name = "LATIN CAPITAL LETTER AE WITH ACUTE" -> 508
      [] name = "LATIN SMALL LETTER AE WITH ACUTE" -> 509
      [] name = "LATIN CAPITAL LETTER O WITH STROKE AND ACUTE" -> 510
      [] name = "LATIN SMALL LETTER O WITH STROKE AND ACUTE" -> 511
      [] name = "LATIN CAPITAL LETTER A WITH DOUBLE GRAVE" -> 512
      [] name = "LATIN SMALL LETTER A WITH DOUBLE GRAVE" -> 513
      [] name = "LATIN CAPITAL LETTER A WITH INVERTED BREVE" -> 514
      [] name = "LATIN SMALL LETTER A WITH INVERTED BREVE" -> 515
      [] name = "LATIN CAPITAL LETTER E WITH DOUBLE GRAVE" -> 516
      [] name = "LATIN SMALL LETTER E WITH DOUBLE GRAVE" -> 517
      [] name = "LATIN CAPITAL LETTER E WITH INVERTED BREVE" -> 518
      [] name = "LATIN SMALL LETTER E WITH INVERTED BREVE" -> 519
      [] name = "LATIN CAPITAL LETTER I WITH DOUBLE GRAVE" -> 520
      [] name = "LATIN SMALL LETTER I WITH DOUBLE GRAVE" -> 521
      [] name = "LATIN CAPITAL LETTER I WITH INVERTED BREVE" -> 522
      [] name = "LATIN SMALL LETTER I WITH INVERTED BREVE" -> 523
      [] name = "LATIN CAPITAL LETTER O WITH DOUBLE GRAVE" -> 524
      [] name = "LATIN SMALL LETTER O WITH DOUBLE GRAVE" -> 525
      [] name = "LATIN CAPITAL LETTER O WITH INVERTED BREVE" -> 526
      [] name = "LATIN SMALL LETTER O WITH INVERTED BREVE" -> 527
      [] name = "LATIN CAPITAL LETTER R WITH DOUBLE GRAVE" -> 528
      [] name = "LATIN SMALL LETTER R WITH DOUBLE GRAVE" -> 529
      [] name = "LATIN CAPITAL LETTER R WITH INVERTED BREVE" -> 530
      [] name = "LATIN SMALL LETTER R WITH INVERTED BREVE" -> 531
      [] name = "LATIN CAPITAL LETTER U WITH DOUBLE GRAVE" -> 532
      [] name = "LATIN SMALL LETTER U WITH DOUBLE GRAVE" -> 533
      [] name = "LATIN CAPITAL LETTER U WITH INVERTED BREVE" -> 534
      [] name = "LATIN SMALL LETTER U WITH INVERTED BREVE" -> 535
      [] name = "LATIN CAPITAL LETTER S WITH COMMA BELOW" -> 536
      [] name = "LATIN SMALL LETTER S WITH COMMA BELOW" -> 537
      [] name = "LATIN CAPITAL LETTER T WITH COMMA BELOW" -> 538
      [] name = "LATIN SMALL LETTER T WITH COMMA BELOW" -> 539
      [] name = "LATIN CAPITAL LETTER YOGH" -> 540
      [] name = "LATIN SMALL LETTER YOGH" -> 541
      [] name = "LATIN CAPITAL LETTER H WITH CARON" -> 542
      [] name = "LATIN SMALL LETTER H WITH CARON" -> 543
      [] name = "LATIN CAPITAL LETTER N WITH LONG RIGHT LEG" -> 544
      [] name = "LATIN SMALL LETTER D WITH CURL" -> 545
      [] name = "LATIN CAPITAL LETTER OU" -> 546
      [] name = "LATIN SMALL LETTER OU" -> 547
      [] name = "LATIN CAPITAL LETTER Z WITH HOOK" -> 548
      [] name = "LATIN SMALL LETTER Z WITH HOOK" -> 549
      [] name = "LATIN CAPITAL LETTER A WITH DOT ABOVE" -> 550
      [] name = "LATIN SMALL LETTER A WITH DOT ABOVE" -> 551
      [] name = "LATIN CAPITAL LETTER E WITH CEDILLA" -> 552
      [] name = "LATIN SMALL LETTER E WITH CEDILLA" -> 553
      [] name = "LATIN CAPITAL LETTER O WITH DIAERESIS AND MACRON" -> 554
      [] name = "LATIN SMALL LETTER O WITH DIAERESIS AND MACRON" -> 555
      [] name = "LATIN CAPITAL LETTER O WITH TILDE AND MACRON" -> 556
      [] name = "LATIN SMALL LETTER O WITH TILDE AND MACRON" -> 557
      [] name = "LATIN CAPITAL LETTER O WITH DOT ABOVE" -> 558
      [] name = "LATIN SMALL LETTER O WITH DOT ABOVE" -> 559
      [] name = "LATIN CAPITAL LETTER O WITH DOT ABOVE AND MACRON" -> 560
      [] name = "LATIN SMALL LETTER O WITH DOT ABOVE AND MACRON" -> 561
      [] name = "LATIN CAPITAL LETTER Y WITH MACRON" -> 562
      [] name = "LATIN SMALL LETTER Y WITH MACRON" -> 563
      [] name = "LATIN SMALL LETTER L WITH CURL" -> 564
      [] name = "LATIN SMALL LETTER N WITH CURL" -> 565
      [] name = "LATIN SMALL LETTER T WITH CURL" -> 566
      [] name = "LATIN SMALL LETTER DOTLESS J" -> 567
      [] name = "LATIN SMALL LETTER DB DIGRAPH" -> 568
      [] name = "LATIN SMALL LETTER QP DIGRAPH" -> 569
      [] name = "LATIN CAPITAL LETTER A WITH STROKE" -> 570
      [] name = "LATIN CAPITAL LETTER C WITH STROKE" -> 571
      [] name = "LATIN SMALL LETTER C WITH STROKE" -> 572
      [] name = "LATIN CAPITAL LETTER L WITH BAR" -> 573
      [] name = "LATIN CAPITAL LETTER T WITH DIAGONAL STROKE" -> 574
      [] name = "LATIN SMALL LETTER S WITH SWASH TAIL" -> 575
      [] name = "LATIN SMALL LETTER Z WITH SWASH TAIL" -> 576
      [] name = "LATIN CAPITAL LETTER GLOTTAL STOP" -> 577
      [] name = "LATIN SMALL LETTER GLOTTAL STOP" -> 578
      [] name = "LATIN CAPITAL LETTER B WITH STROKE" -> 579
      [] name = "LATIN CAPITAL LETTER U BAR" -> 580
      [] name = "LATIN CAPITAL LETTER TURNED V" -> 581
      [] name = "LATIN CAPITAL LETTER E WITH STROKE" -> 582
      [] name = "LATIN SMALL LETTER E WITH STROKE" -> 583
      [] name = "LATIN CAPITAL LETTER J WITH STROKE" -> 584
      [] name = "LATIN SMALL LETTER J WITH STROKE" -> 585
      [] name = "LATIN CAPITAL LETTER SMALL Q WITH HOOK TAIL" -> 586
      [] name = "LATIN SMALL LETTER Q WITH HOOK TAIL" -> 587
      [] name = "LATIN CAPITAL LETTER R WITH STROKE" -> 588
      [] name = "LATIN SMALL LETTER R WITH STROKE" -> 589
      [] name = "LATIN CAPITAL LETTER Y WITH STROKE" -> 590
      [] name = "LATIN SMALL LETTER Y WITH STROKE" -> 591
      [] name = "LATIN SMALL LETTER TURNED A" -> 592
      [] name = "LATIN SMALL LETTER ALPHA" -> 593
      [] name = "LATIN SMALL LETTER TURNED ALPHA" -> 594
      [] name = "LATIN SMALL LETTER B WITH HOOK" -> 595
      [] name = "LATIN SMALL LETTER OPEN O" -> 596
      [] name = "LATIN SMALL LETTER C WITH CURL" -> 597
      [] name = "LATIN SMALL LETTER D WITH TAIL" -> 598
      [] name = "LATIN SMALL LETTER D WITH HOOK" -> 599
      [] name = "LATIN SMALL LETTER REVERSED E" -> 600
      [] name = "LATIN SMALL LETTER SCHWA" -> 601
      [] name = "LATIN SMALL LETTER SCHWA WITH HOOK" -> 602
      [] name = "LATIN SMALL LETTER OPEN E" -> 603
      [] name = "LATIN SMALL LETTER REVERSED OPEN E" -> 604
      [] name = "LATIN SMALL LETTER REVERSED OPEN E WITH HOOK" -> 605
      [] name = "LATIN SMALL LETTER CLOSED REVERSED OPEN E" -> 606
      [] name = "LATIN SMALL LETTER DOTLESS J WITH STROKE" -> 607
      [] name = "LATIN SMALL LETTER G WITH HOOK" -> 608
      [] name = "LATIN SMALL LETTER SCRIPT G" -> 609
      [] name = "LATIN LETTER SMALL CAPITAL G" -> 610
      [] name = "LATIN SMALL LETTER GAMMA" -> 611
      [] name = "LATIN SMALL LETTER RAMS HORN" -> 612
      [] name = "LATIN SMALL LETTER TURNED H" -> 613
      [] name = "LATIN SMALL LETTER H WITH HOOK" -> 614
      [] name = "LATIN SMALL LETTER HENG WITH HOOK" -> 615
      [] name = "LATIN SMALL LETTER I WITH STROKE" -> 616
      [] name = "LATIN SMALL LETTER IOTA" -> 617
      [] name = "LATIN LETTER SMALL CAPITAL I" -> 618
      [] name = "LATIN SMALL LETTER L WITH MIDDLE TILDE" -> 619
      [] name = "LATIN SMALL LETTER L WITH BELT" -> 620
      [] name = "LATIN SMALL LETTER L WITH RETROFLEX HOOK" -> 621
      [] name = "LATIN SMALL LETTER LEZH" -> 622
      [] name = "LATIN SMALL LETTER TURNED M" -> 623
      [] name = "LATIN SMALL LETTER TURNED M WITH LONG LEG" -> 624
      [] name = "LATIN SMALL LETTER M WITH HOOK" -> 625
      [] name = "LATIN SMALL LETTER N WITH LEFT HOOK" -> 626
      [] name = "LATIN SMALL LETTER N WITH RETROFLEX HOOK" -> 627
      [] name = "LATIN LETTER SMALL CAPITAL N" -> 628
      [] name = "LATIN SMALL LETTER BARRED O" -> 629
      [] name = "LATIN LETTER SMALL CAPITAL OE" -> 630
      [] name = "LATIN SMALL LETTER CLOSED OMEGA" -> 631
      [] name = "LATIN SMALL LETTER PHI" -> 632
      [] name = "LATIN SMALL LETTER TURNED R" -> 633
      [] name = "LATIN SMALL LETTER TURNED R WITH LONG LEG" -> 634
      [] name = "LATIN SMALL LETTER TURNED R WITH HOOK" -> 635
      [] name = "LATIN SMALL LETTER R WITH LONG LEG" -> 636
      [] name = "LATIN SMALL LETTER R WITH TAIL" -> 637
      [] name = "LATIN SMALL LETTER R WITH FISHHOOK" -> 638
      [] name = "LATIN SMALL LETTER REVERSED R WITH FISHHOOK" -> 639
      [] name = "LATIN LETTER SMALL CAPITAL R" -> 640
      [] name = "LATIN LETTER SMALL CAPITAL INVERTED R" -> 641
      [] name = "LATIN SMALL LETTER S WITH HOOK" -> 642
      [] name = "LATIN SMALL LETTER ESH" -> 643
      [] name = "LATIN SMALL LETTER DOTLESS J WITH STROKE AND HOOK" -> 644
      [] name = "LATIN SMALL LETTER SQUAT REVERSED ESH" -> 645
      [] name = "LATIN SMALL LETTER ESH WITH CURL" -> 646
      [] name = "LATIN SMALL LETTER TURNED T" -> 647
      [] name = "LATIN SMALL LETTER T WITH RETROFLEX HOOK" -> 648
      [] name = "LATIN SMALL LETTER U BAR" -> 649
      [] name = "LATIN SMALL LETTER UPSILON" -> 650
      [] name = "LATIN SMALL LETTER V WITH HOOK" -> 651
      [] name = "LATIN SMALL LETTER TURNED V" -> 652
      [] name = "LATIN SMALL LETTER TURNED W" -> 653
      [] name = "LATIN SMALL LETTER TURNED Y" -> 654
      [] name = "LATIN LETTER SMALL CAPITAL Y" -> 655
      [] name = "LATIN SMALL LETTER Z WITH RETROFLEX HOOK" -> 656
      [] name = "LATIN SMALL LETTER Z WITH CURL" -> 657
      [] name = "LATIN SMALL LETTER EZH" -> 658
      [] name = "LATIN SMALL LETTER EZH WITH CURL" -> 659
      [] name = "LATIN LETTER GLOTTAL STOP" -> 660
      [] name = "LATIN LETTER PHARYNGEAL VOICED FRICATIVE" -> 661
      [] name = "LATIN LETTER INVERTED GLOTTAL STOP" -> 662
      [] name = "LATIN LETTER STRETCHED C" -> 663
      [] name = "LATIN LETTER BILABIAL CLICK" -> 664
      [] name = "LATIN LETTER SMALL CAPITAL B" -> 665
      [] name = "LATIN SMALL LETTER CLOSED OPEN E" -> 666
      [] name = "LATIN LETTER SMALL CAPITAL G WITH HOOK" -> 667
      [] name = "LATIN LETTER SMALL CAPITAL H" -> 668
      [] name = "LATIN SMALL LETTER J WITH CROSSED-TAIL" -> 669
      [] name = "LATIN SMALL LETTER TURNED K" -> 670
      [] name = "LATIN LETTER SMALL CAPITAL L" -> 671
      [] name = "LATIN SMALL LETTER Q WITH HOOK" -> 672
      [] name = "LATIN LETTER GLOTTAL STOP WITH STROKE" -> 673
      [] name = "LATIN LETTER REVERSED GLOTTAL STOP WITH STROKE" -> 674
      [] name = "LATIN SMALL LETTER DZ DIGRAPH" -> 675
      [] name = "LATIN SMALL LETTER DEZH DIGRAPH" -> 676
      [] name = "LATIN SMALL LETTER DZ DIGRAPH WITH CURL" -> 677
      [] name = "LATIN SMALL LETTER TS DIGRAPH" -> 678
      [] name = "LATIN SMALL LETTER TESH DIGRAPH" -> 679
      [] name = "LATIN SMALL LETTER TC DIGRAPH WITH CURL" -> 680
      [] name = "LATIN SMALL LETTER FENG DIGRAPH" -> 681
      [] name = "LATIN SMALL LETTER LS DIGRAPH" -> 682
      [] name = "LATIN SMALL LETTER LZ DIGRAPH" -> 683
      [] name = "LATIN LETTER BILABIAL PERCUSSIVE" -> 684
      [] name = "LATIN LETTER BIDENTAL PERCUSSIVE" -> 685
      [] name = "LATIN SMALL LETTER TURNED H WITH FISHHOOK" -> 686
      [] name = "LATIN SMALL LETTER TURNED H WITH FISHHOOK AND TAIL" -> 687
      [] name = "MODIFIER LETTER SMALL H" -> 688
      [] name = "MODIFIER LETTER SMALL H WITH HOOK" -> 689
      [] name = "MODIFIER LETTER SMALL J" -> 690
      [] name = "MODIFIER LETTER SMALL R" -> 691
      [] name = "MODIFIER LETTER SMALL TURNED R" -> 692
      [] name = "MODIFIER LETTER SMALL TURNED R WITH HOOK" -> 693
      [] name = "MODIFIER LETTER SMALL CAPITAL INVERTED R" -> 694
      [] name = "MODIFIER LETTER SMALL W" -> 695
      [] name = "MODIFIER LETTER SMALL Y" -> 696
      [] name = "MODIFIER LETTER PRIME" -> 697
      [] name = "MODIFIER LETTER DOUBLE PRIME" -> 698
      [] name = "MODIFIER LETTER TURNED COMMA" -> 699
      [] name = "MODIFIER LETTER APOSTROPHE" -> 700
      [] name = "MODIFIER LETTER REVERSED COMMA" -> 701
      [] name = "MODIFIER LETTER RIGHT HALF RING" -> 702
      [] name = "MODIFIER LETTER LEFT HALF RING" -> 703
      [] name = "MODIFIER LETTER GLOTTAL STOP" -> 704
      [] name = "MODIFIER LETTER REVERSED GLOTTAL STOP" -> 705
      [] name = "MODIFIER LETTER LEFT ARROWHEAD" -> 706
      [] name = "MODIFIER LETTER RIGHT ARROWHEAD" -> 707
      [] name = "MODIFIER LETTER UP ARROWHEAD" -> 708
      [] name = "MODIFIER LETTER DOWN ARROWHEAD" -> 709
      [] name = "MODIFIER LETTER CIRCUMFLEX ACCENT" -> 710
      [] name = "CARON" -> 711
      [] name = "MODIFIER LETTER VERTICAL LINE" -> 712
      [] name = "MODIFIER LETTER MACRON" -> 713
      [] name = "MODIFIER LETTER ACUTE ACCENT" -> 714
      [] name = "MODIFIER LETTER GRAVE ACCENT" -> 715
      [] name = "MODIFIER LETTER LOW VERTICAL LINE" -> 716
      [] name = "MODIFIER LETTER LOW MACRON" -> 717
      [] name = "MODIFIER LETTER LOW GRAVE ACCENT" -> 718
      [] name = "MODIFIER LETTER LOW ACUTE ACCENT" -> 719
      [] name = "MODIFIER LETTER TRIANGULAR COLON" -> 720
      [] name = "MODIFIER LETTER HALF TRIANGULAR COLON" -> 721
      [] name = "MODIFIER LETTER CENTRED RIGHT HALF RING" -> 722
      [] name = "MODIFIER LETTER CENTRED LEFT HALF RING" -> 723
      [] name = "MODIFIER LETTER UP TACK" -> 724
      [] name = "MODIFIER LETTER DOWN TACK" -> 725
      [] name = "MODIFIER LETTER PLUS SIGN" -> 726
      [] name = "MODIFIER LETTER MINUS SIGN" -> 727
      [] name = "BREVE" -> 728
      [] name = "DOT ABOVE" -> 729
      [] name = "RING ABOVE" -> 730
      [] name = "OGONEK" -> 731
      [] name = "SMALL TILDE" -> 732
      [] name = "DOUBLE ACUTE ACCENT" -> 733
      [] name = "MODIFIER LETTER RHOTIC HOOK" -> 734
      [] name = "MODIFIER LETTER CROSS ACCENT" -> 735
      [] name = "MODIFIER LETTER SMALL GAMMA" -> 736
      [] name = "MODIFIER LETTER SMALL L" -> 737
      [] name = "MODIFIER LETTER SMALL S" -> 738
      [] name = "MODIFIER LETTER SMALL X" -> 739
      [] name = "MODIFIER LETTER SMALL REVERSED GLOTTAL STOP" -> 740
      [] name = "MODIFIER LETTER EXTRA-HIGH TONE BAR" -> 741
      [] name = "MODIFIER LETTER HIGH TONE BAR" -> 742
      [] name = "MODIFIER LETTER MID TONE BAR" -> 743
      [] name = "MODIFIER LETTER LOW TONE BAR" -> 744
      [] name = "MODIFIER LETTER EXTRA-LOW TONE BAR" -> 745
      [] name = "MODIFIER LETTER YIN DEPARTING TONE MARK" -> 746
      [] name = "MODIFIER LETTER YANG DEPARTING TONE MARK" -> 747
      [] name = "MODIFIER LETTER VOICING" -> 748
      [] name = "MODIFIER LETTER UNASPIRATED" -> 749
      [] name = "MODIFIER LETTER DOUBLE APOSTROPHE" -> 750
      [] name = "MODIFIER LETTER LOW DOWN ARROWHEAD" -> 751
      [] name = "MODIFIER LETTER LOW UP ARROWHEAD" -> 752
      [] name = "MODIFIER LETTER LOW LEFT ARROWHEAD" -> 753
      [] name = "MODIFIER LETTER LOW RIGHT ARROWHEAD" -> 754
      [] name = "MODIFIER LETTER LOW RING" -> 755
      [] name = "MODIFIER LETTER MIDDLE GRAVE ACCENT" -> 756
      [] name = "MODIFIER LETTER MIDDLE DOUBLE GRAVE ACCENT" -> 757
      [] name = "MODIFIER LETTER MIDDLE DOUBLE ACUTE ACCENT" -> 758
      [] name = "MODIFIER LETTER LOW TILDE" -> 759
      [] name = "MODIFIER LETTER RAISED COLON" -> 760
      [] name = "MODIFIER LETTER BEGIN HIGH TONE" -> 761
      [] name = "MODIFIER LETTER END HIGH TONE" -> 762
      [] name = "MODIFIER LETTER BEGIN LOW TONE" -> 763
      [] name = "MODIFIER LETTER END LOW TONE" -> 764
      [] name = "MODIFIER LETTER SHELF" -> 765
      [] name = "MODIFIER LETTER OPEN SHELF" -> 766
      [] name = "MODIFIER LETTER LOW LEFT ARROW" -> 767
      [] name = "COMBINING GRAVE ACCENT" -> 768
      [] name = "COMBINING ACUTE ACCENT" -> 769
      [] name = "COMBINING CIRCUMFLEX ACCENT" -> 770
      [] name = "COMBINING TILDE" -> 771
      [] name = "COMBINING MACRON" -> 772
      [] name = "COMBINING OVERLINE" -> 773
      [] name = "COMBINING BREVE" -> 774
      [] name = "COMBINING DOT ABOVE" -> 775
      [] name = "COMBINING DIAERESIS" -> 776
      [] name = "COMBINING HOOK ABOVE" -> 777
      [] name = "COMBINING RING ABOVE" -> 778
      [] name = "COMBINING DOUBLE ACUTE ACCENT" -> 779
      [] name = "COMBINING CARON" -> 780
      [] name = "COMBINING VERTICAL LINE ABOVE" -> 781
      [] name = "COMBINING DOUBLE VERTICAL LINE ABOVE" -> 782
      [] name = "COMBINING DOUBLE GRAVE ACCENT" -> 783
      [] name = "COMBINING CANDRABINDU" -> 784
      [] name = "COMBINING INVERTED BREVE" -> 785
      [] name = "COMBINING TURNED COMMA ABOVE" -> 786
      [] name = "COMBINING COMMA ABOVE" -> 787
      [] name = "COMBINING REVERSED COMMA ABOVE" -> 788
      [] name = "COMBINING COMMA ABOVE RIGHT" -> 789
      [] name = "COMBINING GRAVE ACCENT BELOW" -> 790
      [] name = "COMBINING ACUTE ACCENT BELOW" -> 791
      [] name = "COMBINING LEFT TACK BELOW" -> 792
      [] name = "COMBINING RIGHT TACK BELOW" -> 793
      [] name = "COMBINING LEFT ANGLE ABOVE" -> 794
      [] name = "COMBINING HORN" -> 795
      [] name = "COMBINING LEFT HALF RING BELOW" -> 796
      [] name = "COMBINING UP TACK BELOW" -> 797
      [] name = "COMBINING DOWN TACK BELOW" -> 798
      [] name = "COMBINING PLUS SIGN BELOW" -> 799
      [] name = "COMBINING MINUS SIGN BELOW" -> 800
      [] name = "COMBINING PALATALIZED HOOK BELOW" -> 801
      [] name = "COMBINING RETROFLEX HOOK BELOW" -> 802
      [] name = "COMBINING DOT BELOW" -> 803
      [] name = "COMBINING DIAERESIS BELOW" -> 804
      [] name = "COMBINING RING BELOW" -> 805
      [] name = "COMBINING COMMA BELOW" -> 806
      [] name = "COMBINING CEDILLA" -> 807
      [] name = "COMBINING OGONEK" -> 808
      [] name = "COMBINING VERTICAL LINE BELOW" -> 809
      [] name = "COMBINING BRIDGE BELOW" -> 810
      [] name = "COMBINING INVERTED DOUBLE ARCH BELOW" -> 811
      [] name = "COMBINING CARON BELOW" -> 812
      [] name = "COMBINING CIRCUMFLEX ACCENT BELOW" -> 813
      [] name = "COMBINING BREVE BELOW" -> 814
      [] name = "COMBINING INVERTED BREVE BELOW" -> 815
      [] name = "COMBINING TILDE BELOW" -> 816
      [] name = "COMBINING MACRON BELOW" -> 817
      [] name = "COMBINING LOW LINE" -> 818
      [] name = "COMBINING DOUBLE LOW LINE" -> 819
      [] name = "COMBINING TILDE OVERLAY" -> 820
      [] name = "COMBINING SHORT STROKE OVERLAY" -> 821
      [] name = "COMBINING LONG STROKE OVERLAY" -> 822
      [] name = "COMBINING SHORT SOLIDUS OVERLAY" -> 823
      [] name = "COMBINING LONG SOLIDUS OVERLAY" -> 824
      [] name = "COMBINING RIGHT HALF RING BELOW" -> 825
      [] name = "COMBINING INVERTED BRIDGE BELOW" -> 826
      [] name = "COMBINING SQUARE BELOW" -> 827
      [] name = "COMBINING SEAGULL BELOW" -> 828
      [] name = "COMBINING X ABOVE" -> 829
      [] name = "COMBINING VERTICAL TILDE" -> 830
      [] name = "COMBINING DOUBLE OVERLINE" -> 831
      [] name = "COMBINING GRAVE TONE MARK" -> 832
      [] name = "COMBINING ACUTE TONE MARK" -> 833
      [] name = "COMBINING GREEK PERISPOMENI" -> 834
      [] name = "COMBINING GREEK KORONIS" -> 835
      [] name = "COMBINING GREEK DIALYTIKA TONOS" -> 836
      [] name = "COMBINING GREEK YPOGEGRAMMENI" -> 837
      [] name = "COMBINING BRIDGE ABOVE" -> 838
      [] name = "COMBINING EQUALS SIGN BELOW" -> 839
      [] name = "COMBINING DOUBLE VERTICAL LINE BELOW" -> 840
      [] name = "COMBINING LEFT ANGLE BELOW" -> 841
      [] name = "COMBINING NOT TILDE ABOVE" -> 842
      [] name = "COMBINING HOMOTHETIC ABOVE" -> 843
      [] name = "COMBINING ALMOST EQUAL TO ABOVE" -> 844
      [] name = "COMBINING LEFT RIGHT ARROW BELOW" -> 845
      [] name = "COMBINING UPWARDS ARROW BELOW" -> 846
      [] name = "CGJ" -> 847
      [] name = "COMBINING GRAPHEME JOINER" -> 847
      [] name = "COMBINING RIGHT ARROWHEAD ABOVE" -> 848
      [] name = "COMBINING LEFT HALF RING ABOVE" -> 849
      [] name = "COMBINING FERMATA" -> 850
      [] name = "COMBINING X BELOW" -> 851
      [] name = "COMBINING LEFT ARROWHEAD BELOW" -> 852
      [] name = "COMBINING RIGHT ARROWHEAD BELOW" -> 853
      [] name = "COMBINING RIGHT ARROWHEAD AND UP ARROWHEAD BELOW" -> 854
      [] name = "COMBINING RIGHT HALF RING ABOVE" -> 855
      [] name = "COMBINING DOT ABOVE RIGHT" -> 856
      [] name = "COMBINING ASTERISK BELOW" -> 857
      [] name = "COMBINING DOUBLE RING BELOW" -> 858
      [] name = "COMBINING ZIGZAG ABOVE" -> 859
      [] name = "COMBINING DOUBLE BREVE BELOW" -> 860
      [] name = "COMBINING DOUBLE BREVE" -> 861
      [] name = "COMBINING DOUBLE MACRON" -> 862
      [] name = "COMBINING DOUBLE MACRON BELOW" -> 863
      [] name = "COMBINING DOUBLE TILDE" -> 864
      [] name = "COMBINING DOUBLE INVERTED BREVE" -> 865
      [] name = "COMBINING DOUBLE RIGHTWARDS ARROW BELOW" -> 866
      [] name = "COMBINING LATIN SMALL LETTER A" -> 867
      [] name = "COMBINING LATIN SMALL LETTER E" -> 868
      [] name = "COMBINING LATIN SMALL LETTER I" -> 869
      [] name = "COMBINING LATIN SMALL LETTER O" -> 870
      [] name = "COMBINING LATIN SMALL LETTER U" -> 871
      [] name = "COMBINING LATIN SMALL LETTER C" -> 872
      [] name = "COMBINING LATIN SMALL LETTER D" -> 873
      [] name = "COMBINING LATIN SMALL LETTER H" -> 874
      [] name = "COMBINING LATIN SMALL LETTER M" -> 875
      [] name = "COMBINING LATIN SMALL LETTER R" -> 876
      [] name = "COMBINING LATIN SMALL LETTER T" -> 877
      [] name = "COMBINING LATIN SMALL LETTER V" -> 878
      [] name = "COMBINING LATIN SMALL LETTER X" -> 879
      [] name = "GREEK CAPITAL LETTER HETA" -> 880
      [] name = "GREEK SMALL LETTER HETA" -> 881
      [] name = "GREEK CAPITAL LETTER ARCHAIC SAMPI" -> 882
      [] name = "GREEK SMALL LETTER ARCHAIC SAMPI" -> 883
      [] name = "GREEK NUMERAL SIGN" -> 884
      [] name = "GREEK LOWER NUMERAL SIGN" -> 885
      [] name = "GREEK CAPITAL LETTER PAMPHYLIAN DIGAMMA" -> 886
      [] name = "GREEK SMALL LETTER PAMPHYLIAN DIGAMMA" -> 887
      [] name = "GREEK YPOGEGRAMMENI" -> 890
      [] name = "GREEK SMALL REVERSED LUNATE SIGMA SYMBOL" -> 891
      [] name = "GREEK SMALL DOTTED LUNATE SIGMA SYMBOL" -> 892
      [] name = "GREEK SMALL REVERSED DOTTED LUNATE SIGMA SYMBOL" -> 893
      [] name = "GREEK QUESTION MARK" -> 894
      [] name = "GREEK CAPITAL LETTER YOT" -> 895
      [] name = "GREEK TONOS" -> 900
      [] name = "GREEK DIALYTIKA TONOS" -> 901
      [] name = "GREEK CAPITAL LETTER ALPHA WITH TONOS" -> 902
      [] name = "GREEK ANO TELEIA" -> 903
      [] name = "GREEK CAPITAL LETTER EPSILON WITH TONOS" -> 904
      [] name = "GREEK CAPITAL LETTER ETA WITH TONOS" -> 905
      [] name = "GREEK CAPITAL LETTER IOTA WITH TONOS" -> 906
      [] name = "GREEK CAPITAL LETTER OMICRON WITH TONOS" -> 908
      [] name = "GREEK CAPITAL LETTER UPSILON WITH TONOS" -> 910
      [] name = "GREEK CAPITAL LETTER OMEGA WITH TONOS" -> 911
      [] name = "GREEK SMALL LETTER IOTA WITH DIALYTIKA AND TONOS" -> 912
      [] name = "GREEK CAPITAL LETTER ALPHA" -> 913
      [] name = "GREEK CAPITAL LETTER BETA" -> 914
      [] name = "GREEK CAPITAL LETTER GAMMA" -> 915
      [] name = "GREEK CAPITAL LETTER DELTA" -> 916
      [] name = "GREEK CAPITAL LETTER EPSILON" -> 917
      [] name = "GREEK CAPITAL LETTER ZETA" -> 918
      [] name = "GREEK CAPITAL LETTER ETA" -> 919
      [] name = "GREEK CAPITAL LETTER THETA" -> 920
      [] name = "GREEK CAPITAL LETTER IOTA" -> 921
      [] name = "GREEK CAPITAL LETTER KAPPA" -> 922
      [] name = "GREEK CAPITAL LETTER LAMDA" -> 923
      [] name = "GREEK CAPITAL LETTER MU" -> 924
      [] name = "GREEK CAPITAL LETTER NU" -> 925
      [] name = "GREEK CAPITAL LETTER XI" -> 926
      [] name = "GREEK CAPITAL LETTER OMICRON" -> 927
      [] name = "GREEK CAPITAL LETTER PI" -> 928
      [] name = "GREEK CAPITAL LETTER RHO" -> 929
      [] name = "GREEK CAPITAL LETTER SIGMA" -> 931
      [] name = "GREEK CAPITAL LETTER TAU" -> 932
      [] name = "GREEK CAPITAL LETTER UPSILON" -> 933
      [] name = "GREEK CAPITAL LETTER PHI" -> 934
      [] name = "GREEK CAPITAL LETTER CHI" -> 935
      [] name = "GREEK CAPITAL LETTER PSI" -> 936
      [] name = "GREEK CAPITAL LETTER OMEGA" -> 937
      [] name = "GREEK CAPITAL LETTER IOTA WITH DIALYTIKA" -> 938
      [] name = "GREEK CAPITAL LETTER UPSILON WITH DIALYTIKA" -> 939
      [] name = "GREEK SMALL LETTER ALPHA WITH TONOS" -> 940
      [] name = "GREEK SMALL LETTER EPSILON WITH TONOS" -> 941
      [] name = "GREEK SMALL LETTER ETA WITH TONOS" -> 942
      [] name = "GREEK SMALL LETTER IOTA WITH TONOS" -> 943
      [] name = "GREEK SMALL LETTER UPSILON WITH DIALYTIKA AND TONOS" -> 944
      [] name = "GREEK SMALL LETTER ALPHA" -> 945
      [] name = "GREEK SMALL LETTER BETA" -> 946
      [] name = "GREEK SMALL LETTER GAMMA" -> 947
      [] name = "GREEK SMALL LETTER DELTA" -> 948
      [] name = "GREEK SMALL LETTER EPSILON" -> 949
      [] name = "GREEK SMALL LETTER ZETA" -> 950
      [] name = "GREEK SMALL LETTER ETA" -> 951
      [] name = "GREEK SMALL LETTER THETA" -> 952
      [] name = "GREEK SMALL LETTER IOTA" -> 953
      [] name = "GREEK SMALL LETTER KAPPA" -> 954
      [] name = "GREEK SMALL LETTER LAMDA" -> 955
      [] name = "GREEK SMALL LETTER MU" -> 956
      [] name = "GREEK SMALL LETTER NU" -> 957
      [] name = "GREEK SMALL LETTER XI" -> 958
      [] name = "GREEK SMALL LETTER OMICRON" -> 959
      [] name = "GREEK SMALL LETTER PI" -> 960
      [] name = "GREEK SMALL LETTER RHO" -> 961
      [] name = "GREEK SMALL LETTER FINAL SIGMA" -> 962
      [] name = "GREEK SMALL LETTER SIGMA" -> 963
      [] name = "GREEK SMALL LETTER TAU" -> 964
      [] name = "GREEK SMALL LETTER UPSILON" -> 965
      [] name = "GREEK SMALL LETTER PHI" -> 966
      [] name = "GREEK SMALL LETTER CHI" -> 967
      [] name = "GREEK SMALL LETTER PSI" -> 968
      [] name = "GREEK SMALL LETTER OMEGA" -> 969
      [] name = "GREEK SMALL LETTER IOTA WITH DIALYTIKA" -> 970
      [] name = "GREEK SMALL LETTER UPSILON WITH DIALYTIKA" -> 971
      [] name = "GREEK SMALL LETTER OMICRON WITH TONOS" -> 972
      [] name = "GREEK SMALL LETTER UPSILON WITH TONOS" -> 973
      [] name = "GREEK SMALL LETTER OMEGA WITH TONOS" -> 974
      [] name = "GREEK CAPITAL KAI SYMBOL" -> 975
      [] name = "GREEK BETA SYMBOL" -> 976
      [] name = "GREEK THETA SYMBOL" -> 977
      [] name = "GREEK UPSILON WITH HOOK SYMBOL" -> 978
      [] name = "GREEK UPSILON WITH ACUTE AND HOOK SYMBOL" -> 979
      [] name = "GREEK UPSILON WITH DIAERESIS AND HOOK SYMBOL" -> 980
      [] name = "GREEK PHI SYMBOL" -> 981
      [] name = "GREEK PI SYMBOL" -> 982
      [] name = "GREEK KAI SYMBOL" -> 983
      [] name = "GREEK LETTER ARCHAIC KOPPA" -> 984
      [] name = "GREEK SMALL LETTER ARCHAIC KOPPA" -> 985
      [] name = "GREEK LETTER STIGMA" -> 986
      [] name = "GREEK SMALL LETTER STIGMA" -> 987
      [] name = "GREEK LETTER DIGAMMA" -> 988
      [] name = "GREEK SMALL LETTER DIGAMMA" -> 989
      [] name = "GREEK LETTER KOPPA" -> 990
      [] name = "GREEK SMALL LETTER KOPPA" -> 991
      [] name = "GREEK LETTER SAMPI" -> 992
      [] name = "GREEK SMALL LETTER SAMPI" -> 993
      [] name = "COPTIC CAPITAL LETTER SHEI" -> 994
      [] name = "COPTIC SMALL LETTER SHEI" -> 995
      [] name = "COPTIC CAPITAL LETTER FEI" -> 996
      [] name = "COPTIC SMALL LETTER FEI" -> 997
      [] name = "COPTIC CAPITAL LETTER KHEI" -> 998
      [] name = "COPTIC SMALL LETTER KHEI" -> 999
      [] name = "COPTIC CAPITAL LETTER HORI" -> 1000
      [] name = "COPTIC SMALL LETTER HORI" -> 1001
      [] name = "COPTIC CAPITAL LETTER GANGIA" -> 1002
      [] name = "COPTIC SMALL LETTER GANGIA" -> 1003
      [] name = "COPTIC CAPITAL LETTER SHIMA" -> 1004
      [] name = "COPTIC SMALL LETTER SHIMA" -> 1005
      [] name = "COPTIC CAPITAL LETTER DEI" -> 1006
      [] name = "COPTIC SMALL LETTER DEI" -> 1007
      [] name = "GREEK KAPPA SYMBOL" -> 1008
      [] name = "GREEK RHO SYMBOL" -> 1009
      [] name = "GREEK LUNATE SIGMA SYMBOL" -> 1010
      [] name = "GREEK LETTER YOT" -> 1011
      [] name = "GREEK CAPITAL THETA SYMBOL" -> 1012
      [] name = "GREEK LUNATE EPSILON SYMBOL" -> 1013
      [] name = "GREEK REVERSED LUNATE EPSILON SYMBOL" -> 1014
      [] name = "GREEK CAPITAL LETTER SHO" -> 1015
      [] name = "GREEK SMALL LETTER SHO" -> 1016
      [] name = "GREEK CAPITAL LUNATE SIGMA SYMBOL" -> 1017
      [] name = "GREEK CAPITAL LETTER SAN" -> 1018
      [] name = "GREEK SMALL LETTER SAN" -> 1019
      [] name = "GREEK RHO WITH STROKE SYMBOL" -> 1020
      [] name = "GREEK CAPITAL REVERSED LUNATE SIGMA SYMBOL" -> 1021
      [] name = "GREEK CAPITAL DOTTED LUNATE SIGMA SYMBOL" -> 1022
      [] name = "GREEK CAPITAL REVERSED DOTTED LUNATE SIGMA SYMBOL" -> 1023
      [] name = "CYRILLIC CAPITAL LETTER IE WITH GRAVE" -> 1024
      [] name = "CYRILLIC CAPITAL LETTER IO" -> 1025
      [] name = "CYRILLIC CAPITAL LETTER DJE" -> 1026
      [] name = "CYRILLIC CAPITAL LETTER GJE" -> 1027
      [] name = "CYRILLIC CAPITAL LETTER UKRAINIAN IE" -> 1028
      [] name = "CYRILLIC CAPITAL LETTER DZE" -> 1029
      [] name = "CYRILLIC CAPITAL LETTER BYELORUSSIAN-UKRAINIAN I" -> 1030
      [] name = "CYRILLIC CAPITAL LETTER YI" -> 1031
      [] name = "CYRILLIC CAPITAL LETTER JE" -> 1032
      [] name = "CYRILLIC CAPITAL LETTER LJE" -> 1033
      [] name = "CYRILLIC CAPITAL LETTER NJE" -> 1034
      [] name = "CYRILLIC CAPITAL LETTER TSHE" -> 1035
      [] name = "CYRILLIC CAPITAL LETTER KJE" -> 1036
      [] name = "CYRILLIC CAPITAL LETTER I WITH GRAVE" -> 1037
      [] name = "CYRILLIC CAPITAL LETTER SHORT U" -> 1038
      [] name = "CYRILLIC CAPITAL LETTER DZHE" -> 1039
      [] name = "CYRILLIC CAPITAL LETTER A" -> 1040
      [] name = "CYRILLIC CAPITAL LETTER BE" -> 1041
      [] name = "CYRILLIC CAPITAL LETTER VE" -> 1042
      [] name = "CYRILLIC CAPITAL LETTER GHE" -> 1043
      [] name = "CYRILLIC CAPITAL LETTER DE" -> 1044
      [] name = "CYRILLIC CAPITAL LETTER IE" -> 1045
      [] name = "CYRILLIC CAPITAL LETTER ZHE" -> 1046
      [] name = "CYRILLIC CAPITAL LETTER ZE" -> 1047
      [] name = "CYRILLIC CAPITAL LETTER I" -> 1048
      [] name = "CYRILLIC CAPITAL LETTER SHORT I" -> 1049
      [] name = "CYRILLIC CAPITAL LETTER KA" -> 1050
      [] name = "CYRILLIC CAPITAL LETTER EL" -> 1051
      [] name = "CYRILLIC CAPITAL LETTER EM" -> 1052
      [] name = "CYRILLIC CAPITAL LETTER EN" -> 1053
      [] name = "CYRILLIC CAPITAL LETTER O" -> 1054
      [] name = "CYRILLIC CAPITAL LETTER PE" -> 1055
      [] name = "CYRILLIC CAPITAL LETTER ER" -> 1056
      [] name = "CYRILLIC CAPITAL LETTER ES" -> 1057
      [] name = "CYRILLIC CAPITAL LETTER TE" -> 1058
      [] name = "CYRILLIC CAPITAL LETTER U" -> 1059
      [] name = "CYRILLIC CAPITAL LETTER EF" -> 1060
      [] name = "CYRILLIC CAPITAL LETTER HA" -> 1061
      [] name = "CYRILLIC CAPITAL LETTER TSE" -> 1062
      [] name = "CYRILLIC CAPITAL LETTER CHE" -> 1063
      [] name = "CYRILLIC CAPITAL LETTER SHA" -> 1064
      [] name = "CYRILLIC CAPITAL LETTER SHCHA" -> 1065
      [] name = "CYRILLIC CAPITAL LETTER HARD SIGN" -> 1066
      [] name = "CYRILLIC CAPITAL LETTER YERU" -> 1067
      [] name = "CYRILLIC CAPITAL LETTER SOFT SIGN" -> 1068
      [] name = "CYRILLIC CAPITAL LETTER E" -> 1069
      [] name = "CYRILLIC CAPITAL LETTER YU" -> 1070
      [] name = "CYRILLIC CAPITAL LETTER YA" -> 1071
      [] name = "CYRILLIC SMALL LETTER A" -> 1072
      [] name = "CYRILLIC SMALL LETTER BE" -> 1073
      [] name = "CYRILLIC SMALL LETTER VE" -> 1074
      [] name = "CYRILLIC SMALL LETTER GHE" -> 1075
      [] name = "CYRILLIC SMALL LETTER DE" -> 1076
      [] name = "CYRILLIC SMALL LETTER IE" -> 1077
      [] name = "CYRILLIC SMALL LETTER ZHE" -> 1078
      [] name = "CYRILLIC SMALL LETTER ZE" -> 1079
      [] name = "CYRILLIC SMALL LETTER I" -> 1080
      [] name = "CYRILLIC SMALL LETTER SHORT I" -> 1081
      [] name = "CYRILLIC SMALL LETTER KA" -> 1082
      [] name = "CYRILLIC SMALL LETTER EL" -> 1083
      [] name = "CYRILLIC SMALL LETTER EM" -> 1084
      [] name = "CYRILLIC SMALL LETTER EN" -> 1085
      [] name = "CYRILLIC SMALL LETTER O" -> 1086
      [] name = "CYRILLIC SMALL LETTER PE" -> 1087
      [] name = "CYRILLIC SMALL LETTER ER" -> 1088
      [] name = "CYRILLIC SMALL LETTER ES" -> 1089
      [] name = "CYRILLIC SMALL LETTER TE" -> 1090
      [] name = "CYRILLIC SMALL LETTER U" -> 1091
      [] name = "CYRILLIC SMALL LETTER EF" -> 1092
      [] name = "CYRILLIC SMALL LETTER HA" -> 1093
      [] name = "CYRILLIC SMALL LETTER TSE" -> 1094
      [] name = "CYRILLIC SMALL LETTER CHE" -> 1095
      [] name = "CYRILLIC SMALL LETTER SHA" -> 1096
      [] name = "CYRILLIC SMALL LETTER SHCHA" -> 1097
      [] name = "CYRILLIC SMALL LETTER HARD SIGN" -> 1098
      [] name = "CYRILLIC SMALL LETTER YERU" -> 1099
      [] name = "CYRILLIC SMALL LETTER SOFT SIGN" -> 1100
      [] name = "CYRILLIC SMALL LETTER E" -> 1101
      [] name = "CYRILLIC SMALL LETTER YU" -> 1102
      [] name = "CYRILLIC SMALL LETTER YA" -> 1103
      [] name = "CYRILLIC SMALL LETTER IE WITH GRAVE" -> 1104
      [] name = "CYRILLIC SMALL LETTER IO" -> 1105
      [] name = "CYRILLIC SMALL LETTER DJE" -> 1106
      [] name = "CYRILLIC SMALL LETTER GJE" -> 1107
      [] name = "CYRILLIC SMALL LETTER UKRAINIAN IE" -> 1108
      [] name = "CYRILLIC SMALL LETTER DZE" -> 1109
      [] name = "CYRILLIC SMALL LETTER BYELORUSSIAN-UKRAINIAN I" -> 1110
      [] name = "CYRILLIC SMALL LETTER YI" -> 1111
      [] name = "CYRILLIC SMALL LETTER JE" -> 1112
      [] name = "CYRILLIC SMALL LETTER LJE" -> 1113
      [] name = "CYRILLIC SMALL LETTER NJE" -> 1114
      [] name = "CYRILLIC SMALL LETTER TSHE" -> 1115
      [] name = "CYRILLIC SMALL LETTER KJE" -> 1116
      [] name = "CYRILLIC SMALL LETTER I WITH GRAVE" -> 1117
      [] name = "CYRILLIC SMALL LETTER SHORT U" -> 1118
      [] name = "CYRILLIC SMALL LETTER DZHE" -> 1119
      [] name = "CYRILLIC CAPITAL LETTER OMEGA" -> 1120
      [] name = "CYRILLIC SMALL LETTER OMEGA" -> 1121
      [] name = "CYRILLIC CAPITAL LETTER YAT" -> 1122
      [] name = "CYRILLIC SMALL LETTER YAT" -> 1123
      [] name = "CYRILLIC CAPITAL LETTER IOTIFIED E" -> 1124
      [] name = "CYRILLIC SMALL LETTER IOTIFIED E" -> 1125
      [] name = "CYRILLIC CAPITAL LETTER LITTLE YUS" -> 1126
      [] name = "CYRILLIC SMALL LETTER LITTLE YUS" -> 1127
      [] name = "CYRILLIC CAPITAL LETTER IOTIFIED LITTLE YUS" -> 1128
      [] name = "CYRILLIC SMALL LETTER IOTIFIED LITTLE YUS" -> 1129
      [] name = "CYRILLIC CAPITAL LETTER BIG YUS" -> 1130
      [] name = "CYRILLIC SMALL LETTER BIG YUS" -> 1131
      [] name = "CYRILLIC CAPITAL LETTER IOTIFIED BIG YUS" -> 1132
      [] name = "CYRILLIC SMALL LETTER IOTIFIED BIG YUS" -> 1133
      [] name = "CYRILLIC CAPITAL LETTER KSI" -> 1134
      [] name = "CYRILLIC SMALL LETTER KSI" -> 1135
      [] name = "CYRILLIC CAPITAL LETTER PSI" -> 1136
      [] name = "CYRILLIC SMALL LETTER PSI" -> 1137
      [] name = "CYRILLIC CAPITAL LETTER FITA" -> 1138
      [] name = "CYRILLIC SMALL LETTER FITA" -> 1139
      [] name = "CYRILLIC CAPITAL LETTER IZHITSA" -> 1140
      [] name = "CYRILLIC SMALL LETTER IZHITSA" -> 1141
      [] name = "CYRILLIC CAPITAL LETTER IZHITSA WITH DOUBLE GRAVE ACCENT" -> 1142
      [] name = "CYRILLIC SMALL LETTER IZHITSA WITH DOUBLE GRAVE ACCENT" -> 1143
      [] name = "CYRILLIC CAPITAL LETTER UK" -> 1144
      [] name = "CYRILLIC SMALL LETTER UK" -> 1145
      [] name = "CYRILLIC CAPITAL LETTER ROUND OMEGA" -> 1146
      [] name = "CYRILLIC SMALL LETTER ROUND OMEGA" -> 1147
      [] name = "CYRILLIC CAPITAL LETTER OMEGA WITH TITLO" -> 1148
      [] name = "CYRILLIC SMALL LETTER OMEGA WITH TITLO" -> 1149
      [] name = "CYRILLIC CAPITAL LETTER OT" -> 1150
      [] name = "CYRILLIC SMALL LETTER OT" -> 1151
      [] name = "CYRILLIC CAPITAL LETTER KOPPA" -> 1152
      [] name = "CYRILLIC SMALL LETTER KOPPA" -> 1153
      [] name = "CYRILLIC THOUSANDS SIGN" -> 1154
      [] name = "COMBINING CYRILLIC TITLO" -> 1155
      [] name = "COMBINING CYRILLIC PALATALIZATION" -> 1156
      [] name = "COMBINING CYRILLIC DASIA PNEUMATA" -> 1157
      [] name = "COMBINING CYRILLIC PSILI PNEUMATA" -> 1158
      [] name = "COMBINING CYRILLIC POKRYTIE" -> 1159
      [] name = "COMBINING CYRILLIC HUNDRED THOUSANDS SIGN" -> 1160
      [] name = "COMBINING CYRILLIC MILLIONS SIGN" -> 1161
      [] name = "CYRILLIC CAPITAL LETTER SHORT I WITH TAIL" -> 1162
      [] name = "CYRILLIC SMALL LETTER SHORT I WITH TAIL" -> 1163
      [] name = "CYRILLIC CAPITAL LETTER SEMISOFT SIGN" -> 1164
      [] name = "CYRILLIC SMALL LETTER SEMISOFT SIGN" -> 1165
      [] name = "CYRILLIC CAPITAL LETTER ER WITH TICK" -> 1166
      [] name = "CYRILLIC SMALL LETTER ER WITH TICK" -> 1167
      [] name = "CYRILLIC CAPITAL LETTER GHE WITH UPTURN" -> 1168
      [] name = "CYRILLIC SMALL LETTER GHE WITH UPTURN" -> 1169
      [] name = "CYRILLIC CAPITAL LETTER GHE WITH STROKE" -> 1170
      [] name = "CYRILLIC SMALL LETTER GHE WITH STROKE" -> 1171
      [] name = "CYRILLIC CAPITAL LETTER GHE WITH MIDDLE HOOK" -> 1172
      [] name = "CYRILLIC SMALL LETTER GHE WITH MIDDLE HOOK" -> 1173
      [] name = "CYRILLIC CAPITAL LETTER ZHE WITH DESCENDER" -> 1174
      [] name = "CYRILLIC SMALL LETTER ZHE WITH DESCENDER" -> 1175
      [] name = "CYRILLIC CAPITAL LETTER ZE WITH DESCENDER" -> 1176
      [] name = "CYRILLIC SMALL LETTER ZE WITH DESCENDER" -> 1177
      [] name = "CYRILLIC CAPITAL LETTER KA WITH DESCENDER" -> 1178
      [] name = "CYRILLIC SMALL LETTER KA WITH DESCENDER" -> 1179
      [] name = "CYRILLIC CAPITAL LETTER KA WITH VERTICAL STROKE" -> 1180
      [] name = "CYRILLIC SMALL LETTER KA WITH VERTICAL STROKE" -> 1181
      [] name = "CYRILLIC CAPITAL LETTER KA WITH STROKE" -> 1182
      [] name = "CYRILLIC SMALL LETTER KA WITH STROKE" -> 1183
      [] name = "CYRILLIC CAPITAL LETTER BASHKIR KA" -> 1184
      [] name = "CYRILLIC SMALL LETTER BASHKIR KA" -> 1185
      [] name = "CYRILLIC CAPITAL LETTER EN WITH DESCENDER" -> 1186
      [] name = "CYRILLIC SMALL LETTER EN WITH DESCENDER" -> 1187
      [] name = "CYRILLIC CAPITAL LIGATURE EN GHE" -> 1188
      [] name = "CYRILLIC SMALL LIGATURE EN GHE" -> 1189
      [] name = "CYRILLIC CAPITAL LETTER PE WITH MIDDLE HOOK" -> 1190
      [] name = "CYRILLIC SMALL LETTER PE WITH MIDDLE HOOK" -> 1191
      [] name = "CYRILLIC CAPITAL LETTER ABKHASIAN HA" -> 1192
      [] name = "CYRILLIC SMALL LETTER ABKHASIAN HA" -> 1193
      [] name = "CYRILLIC CAPITAL LETTER ES WITH DESCENDER" -> 1194
      [] name = "CYRILLIC SMALL LETTER ES WITH DESCENDER" -> 1195
      [] name = "CYRILLIC CAPITAL LETTER TE WITH DESCENDER" -> 1196
      [] name = "CYRILLIC SMALL LETTER TE WITH DESCENDER" -> 1197
      [] name = "CYRILLIC CAPITAL LETTER STRAIGHT U" -> 1198
      [] name = "CYRILLIC SMALL LETTER STRAIGHT U" -> 1199
      [] name = "CYRILLIC CAPITAL LETTER STRAIGHT U WITH STROKE" -> 1200
      [] name = "CYRILLIC SMALL LETTER STRAIGHT U WITH STROKE" -> 1201
      [] name = "CYRILLIC CAPITAL LETTER HA WITH DESCENDER" -> 1202
      [] name = "CYRILLIC SMALL LETTER HA WITH DESCENDER" -> 1203
      [] name = "CYRILLIC CAPITAL LIGATURE TE TSE" -> 1204
      [] name = "CYRILLIC SMALL LIGATURE TE TSE" -> 1205
      [] name = "CYRILLIC CAPITAL LETTER CHE WITH DESCENDER" -> 1206
      [] name = "CYRILLIC SMALL LETTER CHE WITH DESCENDER" -> 1207
      [] name = "CYRILLIC CAPITAL LETTER CHE WITH VERTICAL STROKE" -> 1208
      [] name = "CYRILLIC SMALL LETTER CHE WITH VERTICAL STROKE" -> 1209
      [] name = "CYRILLIC CAPITAL LETTER SHHA" -> 1210
      [] name = "CYRILLIC SMALL LETTER SHHA" -> 1211
      [] name = "CYRILLIC CAPITAL LETTER ABKHASIAN CHE" -> 1212
      [] name = "CYRILLIC SMALL LETTER ABKHASIAN CHE" -> 1213
      [] name = "CYRILLIC CAPITAL LETTER ABKHASIAN CHE WITH DESCENDER" -> 1214
      [] name = "CYRILLIC SMALL LETTER ABKHASIAN CHE WITH DESCENDER" -> 1215
      [] name = "CYRILLIC LETTER PALOCHKA" -> 1216
      [] name = "CYRILLIC CAPITAL LETTER ZHE WITH BREVE" -> 1217
      [] name = "CYRILLIC SMALL LETTER ZHE WITH BREVE" -> 1218
      [] name = "CYRILLIC CAPITAL LETTER KA WITH HOOK" -> 1219
      [] name = "CYRILLIC SMALL LETTER KA WITH HOOK" -> 1220
      [] name = "CYRILLIC CAPITAL LETTER EL WITH TAIL" -> 1221
      [] name = "CYRILLIC SMALL LETTER EL WITH TAIL" -> 1222
      [] name = "CYRILLIC CAPITAL LETTER EN WITH HOOK" -> 1223
      [] name = "CYRILLIC SMALL LETTER EN WITH HOOK" -> 1224
      [] name = "CYRILLIC CAPITAL LETTER EN WITH TAIL" -> 1225
      [] name = "CYRILLIC SMALL LETTER EN WITH TAIL" -> 1226
      [] name = "CYRILLIC CAPITAL LETTER KHAKASSIAN CHE" -> 1227
      [] name = "CYRILLIC SMALL LETTER KHAKASSIAN CHE" -> 1228
      [] name = "CYRILLIC CAPITAL LETTER EM WITH TAIL" -> 1229
      [] name = "CYRILLIC SMALL LETTER EM WITH TAIL" -> 1230
      [] name = "CYRILLIC SMALL LETTER PALOCHKA" -> 1231
      [] name = "CYRILLIC CAPITAL LETTER A WITH BREVE" -> 1232
      [] name = "CYRILLIC SMALL LETTER A WITH BREVE" -> 1233
      [] name = "CYRILLIC CAPITAL LETTER A WITH DIAERESIS" -> 1234
      [] name = "CYRILLIC SMALL LETTER A WITH DIAERESIS" -> 1235
      [] name = "CYRILLIC CAPITAL LIGATURE A IE" -> 1236
      [] name = "CYRILLIC SMALL LIGATURE A IE" -> 1237
      [] name = "CYRILLIC CAPITAL LETTER IE WITH BREVE" -> 1238
      [] name = "CYRILLIC SMALL LETTER IE WITH BREVE" -> 1239
      [] name = "CYRILLIC CAPITAL LETTER SCHWA" -> 1240
      [] name = "CYRILLIC SMALL LETTER SCHWA" -> 1241
      [] name = "CYRILLIC CAPITAL LETTER SCHWA WITH DIAERESIS" -> 1242
      [] name = "CYRILLIC SMALL LETTER SCHWA WITH DIAERESIS" -> 1243
      [] name = "CYRILLIC CAPITAL LETTER ZHE WITH DIAERESIS" -> 1244
      [] name = "CYRILLIC SMALL LETTER ZHE WITH DIAERESIS" -> 1245
      [] name = "CYRILLIC CAPITAL LETTER ZE WITH DIAERESIS" -> 1246
      [] name = "CYRILLIC SMALL LETTER ZE WITH DIAERESIS" -> 1247
      [] name = "CYRILLIC CAPITAL LETTER ABKHASIAN DZE" -> 1248
      [] name = "CYRILLIC SMALL LETTER ABKHASIAN DZE" -> 1249
      [] name = "CYRILLIC CAPITAL LETTER I WITH MACRON" -> 1250
      [] name = "CYRILLIC SMALL LETTER I WITH MACRON" -> 1251
      [] name = "CYRILLIC CAPITAL LETTER I WITH DIAERESIS" -> 1252
      [] name = "CYRILLIC SMALL LETTER I WITH DIAERESIS" -> 1253
      [] name = "CYRILLIC CAPITAL LETTER O WITH DIAERESIS" -> 1254
      [] name = "CYRILLIC SMALL LETTER O WITH DIAERESIS" -> 1255
      [] name = "CYRILLIC CAPITAL LETTER BARRED O" -> 1256
      [] name = "CYRILLIC SMALL LETTER BARRED O" -> 1257
      [] name = "CYRILLIC CAPITAL LETTER BARRED O WITH DIAERESIS" -> 1258
      [] name = "CYRILLIC SMALL LETTER BARRED O WITH DIAERESIS" -> 1259
      [] name = "CYRILLIC CAPITAL LETTER E WITH DIAERESIS" -> 1260
      [] name = "CYRILLIC SMALL LETTER E WITH DIAERESIS" -> 1261
      [] name = "CYRILLIC CAPITAL LETTER U WITH MACRON" -> 1262
      [] name = "CYRILLIC SMALL LETTER U WITH MACRON" -> 1263
      [] name = "CYRILLIC CAPITAL LETTER U WITH DIAERESIS" -> 1264
      [] name = "CYRILLIC SMALL LETTER U WITH DIAERESIS" -> 1265
      [] name = "CYRILLIC CAPITAL LETTER U WITH DOUBLE ACUTE" -> 1266
      [] name = "CYRILLIC SMALL LETTER U WITH DOUBLE ACUTE" -> 1267
      [] name = "CYRILLIC CAPITAL LETTER CHE WITH DIAERESIS" -> 1268
      [] name = "CYRILLIC SMALL LETTER CHE WITH DIAERESIS" -> 1269
      [] name = "CYRILLIC CAPITAL LETTER GHE WITH DESCENDER" -> 1270
      [] name = "CYRILLIC SMALL LETTER GHE WITH DESCENDER" -> 1271
      [] name = "CYRILLIC CAPITAL LETTER YERU WITH DIAERESIS" -> 1272
      [] name = "CYRILLIC SMALL LETTER YERU WITH DIAERESIS" -> 1273
      [] name = "CYRILLIC CAPITAL LETTER GHE WITH STROKE AND HOOK" -> 1274
      [] name = "CYRILLIC SMALL LETTER GHE WITH STROKE AND HOOK" -> 1275
      [] name = "CYRILLIC CAPITAL LETTER HA WITH HOOK" -> 1276
      [] name = "CYRILLIC SMALL LETTER HA WITH HOOK" -> 1277
      [] name = "CYRILLIC CAPITAL LETTER HA WITH STROKE" -> 1278
      [] name = "CYRILLIC SMALL LETTER HA WITH STROKE" -> 1279
      [] name = "CYRILLIC CAPITAL LETTER KOMI DE" -> 1280
      [] name = "CYRILLIC SMALL LETTER KOMI DE" -> 1281
      [] name = "CYRILLIC CAPITAL LETTER KOMI DJE" -> 1282
      [] name = "CYRILLIC SMALL LETTER KOMI DJE" -> 1283
      [] name = "CYRILLIC CAPITAL LETTER KOMI ZJE" -> 1284
      [] name = "CYRILLIC SMALL LETTER KOMI ZJE" -> 1285
      [] name = "CYRILLIC CAPITAL LETTER KOMI DZJE" -> 1286
      [] name = "CYRILLIC SMALL LETTER KOMI DZJE" -> 1287
      [] name = "CYRILLIC CAPITAL LETTER KOMI LJE" -> 1288
      [] name = "CYRILLIC SMALL LETTER KOMI LJE" -> 1289
      [] name = "CYRILLIC CAPITAL LETTER KOMI NJE" -> 1290
      [] name = "CYRILLIC SMALL LETTER KOMI NJE" -> 1291
      [] name = "CYRILLIC CAPITAL LETTER KOMI SJE" -> 1292
      [] name = "CYRILLIC SMALL LETTER KOMI SJE" -> 1293
      [] name = "CYRILLIC CAPITAL LETTER KOMI TJE" -> 1294
      [] name = "CYRILLIC SMALL LETTER KOMI TJE" -> 1295
      [] name = "CYRILLIC CAPITAL LETTER REVERSED ZE" -> 1296
      [] name = "CYRILLIC SMALL LETTER REVERSED ZE" -> 1297
      [] name = "CYRILLIC CAPITAL LETTER EL WITH HOOK" -> 1298
      [] name = "CYRILLIC SMALL LETTER EL WITH HOOK" -> 1299
      [] name = "CYRILLIC CAPITAL LETTER LHA" -> 1300
      [] name = "CYRILLIC SMALL LETTER LHA" -> 1301
      [] name = "CYRILLIC CAPITAL LETTER RHA" -> 1302
      [] name = "CYRILLIC SMALL LETTER RHA" -> 1303
      [] name = "CYRILLIC CAPITAL LETTER YAE" -> 1304
      [] name = "CYRILLIC SMALL LETTER YAE" -> 1305
      [] name = "CYRILLIC CAPITAL LETTER QA" -> 1306
      [] name = "CYRILLIC SMALL LETTER QA" -> 1307
      [] name = "CYRILLIC CAPITAL LETTER WE" -> 1308
      [] name = "CYRILLIC SMALL LETTER WE" -> 1309
      [] name = "CYRILLIC CAPITAL LETTER ALEUT KA" -> 1310
      [] name = "CYRILLIC SMALL LETTER ALEUT KA" -> 1311
      [] name = "CYRILLIC CAPITAL LETTER EL WITH MIDDLE HOOK" -> 1312
      [] name = "CYRILLIC SMALL LETTER EL WITH MIDDLE HOOK" -> 1313
      [] name = "CYRILLIC CAPITAL LETTER EN WITH MIDDLE HOOK" -> 1314
      [] name = "CYRILLIC SMALL LETTER EN WITH MIDDLE HOOK" -> 1315
      [] name = "CYRILLIC CAPITAL LETTER PE WITH DESCENDER" -> 1316
      [] name = "CYRILLIC SMALL LETTER PE WITH DESCENDER" -> 1317
      [] name = "CYRILLIC CAPITAL LETTER SHHA WITH DESCENDER" -> 1318
      [] name = "CYRILLIC SMALL LETTER SHHA WITH DESCENDER" -> 1319
      [] name = "CYRILLIC CAPITAL LETTER EN WITH LEFT HOOK" -> 1320
      [] name = "CYRILLIC SMALL LETTER EN WITH LEFT HOOK" -> 1321
      [] name = "CYRILLIC CAPITAL LETTER DZZHE" -> 1322
      [] name = "CYRILLIC SMALL LETTER DZZHE" -> 1323
      [] name = "CYRILLIC CAPITAL LETTER DCHE" -> 1324
      [] name = "CYRILLIC SMALL LETTER DCHE" -> 1325
      [] name = "CYRILLIC CAPITAL LETTER EL WITH DESCENDER" -> 1326
      [] name = "CYRILLIC SMALL LETTER EL WITH DESCENDER" -> 1327
      [] name = "ARMENIAN CAPITAL LETTER AYB" -> 1329
      [] name = "ARMENIAN CAPITAL LETTER BEN" -> 1330
      [] name = "ARMENIAN CAPITAL LETTER GIM" -> 1331
      [] name = "ARMENIAN CAPITAL LETTER DA" -> 1332
      [] name = "ARMENIAN CAPITAL LETTER ECH" -> 1333
      [] name = "ARMENIAN CAPITAL LETTER ZA" -> 1334
      [] name = "ARMENIAN CAPITAL LETTER EH" -> 1335
      [] name = "ARMENIAN CAPITAL LETTER ET" -> 1336
      [] name = "ARMENIAN CAPITAL LETTER TO" -> 1337
      [] name = "ARMENIAN CAPITAL LETTER ZHE" -> 1338
      [] name = "ARMENIAN CAPITAL LETTER INI" -> 1339
      [] name = "ARMENIAN CAPITAL LETTER LIWN" -> 1340
      [] name = "ARMENIAN CAPITAL LETTER XEH" -> 1341
      [] name = "ARMENIAN CAPITAL LETTER CA" -> 1342
      [] name = "ARMENIAN CAPITAL LETTER KEN" -> 1343
      [] name = "ARMENIAN CAPITAL LETTER HO" -> 1344
      [] name = "ARMENIAN CAPITAL LETTER JA" -> 1345
      [] name = "ARMENIAN CAPITAL LETTER GHAD" -> 1346
      [] name = "ARMENIAN CAPITAL LETTER CHEH" -> 1347
      [] name = "ARMENIAN CAPITAL LETTER MEN" -> 1348
      [] name = "ARMENIAN CAPITAL LETTER YI" -> 1349
      [] name = "ARMENIAN CAPITAL LETTER NOW" -> 1350
      [] name = "ARMENIAN CAPITAL LETTER SHA" -> 1351
      [] name = "ARMENIAN CAPITAL LETTER VO" -> 1352
      [] name = "ARMENIAN CAPITAL LETTER CHA" -> 1353
      [] name = "ARMENIAN CAPITAL LETTER PEH" -> 1354
      [] name = "ARMENIAN CAPITAL LETTER JHEH" -> 1355
      [] name = "ARMENIAN CAPITAL LETTER RA" -> 1356
      [] name = "ARMENIAN CAPITAL LETTER SEH" -> 1357
      [] name = "ARMENIAN CAPITAL LETTER VEW" -> 1358
      [] name = "ARMENIAN CAPITAL LETTER TIWN" -> 1359
      [] name = "ARMENIAN CAPITAL LETTER REH" -> 1360
      [] name = "ARMENIAN CAPITAL LETTER CO" -> 1361
      [] name = "ARMENIAN CAPITAL LETTER YIWN" -> 1362
      [] name = "ARMENIAN CAPITAL LETTER PIWR" -> 1363
      [] name = "ARMENIAN CAPITAL LETTER KEH" -> 1364
      [] name = "ARMENIAN CAPITAL LETTER OH" -> 1365
      [] name = "ARMENIAN CAPITAL LETTER FEH" -> 1366
      [] name = "ARMENIAN MODIFIER LETTER LEFT HALF RING" -> 1369
      [] name = "ARMENIAN APOSTROPHE" -> 1370
      [] name = "ARMENIAN EMPHASIS MARK" -> 1371
      [] name = "ARMENIAN EXCLAMATION MARK" -> 1372
      [] name = "ARMENIAN COMMA" -> 1373
      [] name = "ARMENIAN QUESTION MARK" -> 1374
      [] name = "ARMENIAN ABBREVIATION MARK" -> 1375
      [] name = "ARMENIAN SMALL LETTER TURNED AYB" -> 1376
      [] name = "ARMENIAN SMALL LETTER AYB" -> 1377
      [] name = "ARMENIAN SMALL LETTER BEN" -> 1378
      [] name = "ARMENIAN SMALL LETTER GIM" -> 1379
      [] name = "ARMENIAN SMALL LETTER DA" -> 1380
      [] name = "ARMENIAN SMALL LETTER ECH" -> 1381
      [] name = "ARMENIAN SMALL LETTER ZA" -> 1382
      [] name = "ARMENIAN SMALL LETTER EH" -> 1383
      [] name = "ARMENIAN SMALL LETTER ET" -> 1384
      [] name = "ARMENIAN SMALL LETTER TO" -> 1385
      [] name = "ARMENIAN SMALL LETTER ZHE" -> 1386
      [] name = "ARMENIAN SMALL LETTER INI" -> 1387
      [] name = "ARMENIAN SMALL LETTER LIWN" -> 1388
      [] name = "ARMENIAN SMALL LETTER XEH" -> 1389
      [] name = "ARMENIAN SMALL LETTER CA" -> 1390
      [] name = "ARMENIAN SMALL LETTER KEN" -> 1391
      [] name = "ARMENIAN SMALL LETTER HO" -> 1392
      [] name = "ARMENIAN SMALL LETTER JA" -> 1393
      [] name = "ARMENIAN SMALL LETTER GHAD" -> 1394
      [] name = "ARMENIAN SMALL LETTER CHEH" -> 1395
      [] name = "ARMENIAN SMALL LETTER MEN" -> 1396
      [] name = "ARMENIAN SMALL LETTER YI" -> 1397
      [] name = "ARMENIAN SMALL LETTER NOW" -> 1398
      [] name = "ARMENIAN SMALL LETTER SHA" -> 1399
      [] name = "ARMENIAN SMALL LETTER VO" -> 1400
      [] name = "ARMENIAN SMALL LETTER CHA" -> 1401
      [] name = "ARMENIAN SMALL LETTER PEH" -> 1402
      [] name = "ARMENIAN SMALL LETTER JHEH" -> 1403
      [] name = "ARMENIAN SMALL LETTER RA" -> 1404
      [] name = "ARMENIAN SMALL LETTER SEH" -> 1405
      [] name = "ARMENIAN SMALL LETTER VEW" -> 1406
      [] name = "ARMENIAN SMALL LETTER TIWN" -> 1407
      [] name = "ARMENIAN SMALL LETTER REH" -> 1408
      [] name = "ARMENIAN SMALL LETTER CO" -> 1409
      [] name = "ARMENIAN SMALL LETTER YIWN" -> 1410
      [] name = "ARMENIAN SMALL LETTER PIWR" -> 1411
      [] name = "ARMENIAN SMALL LETTER KEH" -> 1412
      [] name = "ARMENIAN SMALL LETTER OH" -> 1413
      [] name = "ARMENIAN SMALL LETTER FEH" -> 1414
      [] name = "ARMENIAN SMALL LIGATURE ECH YIWN" -> 1415
      [] name = "ARMENIAN SMALL LETTER YI WITH STROKE" -> 1416
      [] name = "ARMENIAN FULL STOP" -> 1417
      [] name = "ARMENIAN HYPHEN" -> 1418
      [] name = "RIGHT-FACING ARMENIAN ETERNITY SIGN" -> 1421
      [] name = "LEFT-FACING ARMENIAN ETERNITY SIGN" -> 1422
      [] name = "ARMENIAN DRAM SIGN" -> 1423
      [] name = "HEBREW ACCENT ETNAHTA" -> 1425
      [] name = "HEBREW ACCENT SEGOL" -> 1426
      [] name = "HEBREW ACCENT SHALSHELET" -> 1427
      [] name = "HEBREW ACCENT ZAQEF QATAN" -> 1428
      [] name = "HEBREW ACCENT ZAQEF GADOL" -> 1429
      [] name = "HEBREW ACCENT TIPEHA" -> 1430
      [] name = "HEBREW ACCENT REVIA" -> 1431
      [] name = "HEBREW ACCENT ZARQA" -> 1432
      [] name = "HEBREW ACCENT PASHTA" -> 1433
      [] name = "HEBREW ACCENT YETIV" -> 1434
      [] name = "HEBREW ACCENT TEVIR" -> 1435
      [] name = "HEBREW ACCENT GERESH" -> 1436
      [] name = "HEBREW ACCENT GERESH MUQDAM" -> 1437
      [] name = "HEBREW ACCENT GERSHAYIM" -> 1438
      [] name = "HEBREW ACCENT QARNEY PARA" -> 1439
      [] name = "HEBREW ACCENT TELISHA GEDOLA" -> 1440
      [] name = "HEBREW ACCENT PAZER" -> 1441
      [] name = "HEBREW ACCENT ATNAH HAFUKH" -> 1442
      [] name = "HEBREW ACCENT MUNAH" -> 1443
      [] name = "HEBREW ACCENT MAHAPAKH" -> 1444
      [] name = "HEBREW ACCENT MERKHA" -> 1445
      [] name = "HEBREW ACCENT MERKHA KEFULA" -> 1446
      [] name = "HEBREW ACCENT DARGA" -> 1447
      [] name = "HEBREW ACCENT QADMA" -> 1448
      [] name = "HEBREW ACCENT TELISHA QETANA" -> 1449
      [] name = "HEBREW ACCENT YERAH BEN YOMO" -> 1450
      [] name = "HEBREW ACCENT OLE" -> 1451
      [] name = "HEBREW ACCENT ILUY" -> 1452
      [] name = "HEBREW ACCENT DEHI" -> 1453
      [] name = "HEBREW ACCENT ZINOR" -> 1454
      [] name = "HEBREW MARK MASORA CIRCLE" -> 1455
      [] name = "HEBREW POINT SHEVA" -> 1456
      [] name = "HEBREW POINT HATAF SEGOL" -> 1457
      [] name = "HEBREW POINT HATAF PATAH" -> 1458
      [] name = "HEBREW POINT HATAF QAMATS" -> 1459
      [] name = "HEBREW POINT HIRIQ" -> 1460
      [] name = "HEBREW POINT TSERE" -> 1461
      [] name = "HEBREW POINT SEGOL" -> 1462
      [] name = "HEBREW POINT PATAH" -> 1463
      [] name = "HEBREW POINT QAMATS" -> 1464
      [] name = "HEBREW POINT HOLAM" -> 1465
      [] name = "HEBREW POINT HOLAM HASER FOR VAV" -> 1466
      [] name = "HEBREW POINT QUBUTS" -> 1467
      [] name = "HEBREW POINT DAGESH OR MAPIQ" -> 1468
      [] name = "HEBREW POINT METEG" -> 1469
      [] name = "HEBREW PUNCTUATION MAQAF" -> 1470
      [] name = "HEBREW POINT RAFE" -> 1471
      [] name = "HEBREW PUNCTUATION PASEQ" -> 1472
      [] name = "HEBREW POINT SHIN DOT" -> 1473
      [] name = "HEBREW POINT SIN DOT" -> 1474
      [] name = "HEBREW PUNCTUATION SOF PASUQ" -> 1475
      [] name = "HEBREW MARK UPPER DOT" -> 1476
      [] name = "HEBREW MARK LOWER DOT" -> 1477
      [] name = "HEBREW PUNCTUATION NUN HAFUKHA" -> 1478
      [] name = "HEBREW POINT QAMATS QATAN" -> 1479
      [] name = "HEBREW LETTER ALEF" -> 1488
      [] name = "HEBREW LETTER BET" -> 1489
      [] name = "HEBREW LETTER GIMEL" -> 1490
      [] name = "HEBREW LETTER DALET" -> 1491
      [] name = "HEBREW LETTER HE" -> 1492
      [] name = "HEBREW LETTER VAV" -> 1493
      [] name = "HEBREW LETTER ZAYIN" -> 1494
      [] name = "HEBREW LETTER HET" -> 1495
      [] name = "HEBREW LETTER TET" -> 1496
      [] name = "HEBREW LETTER YOD" -> 1497
      [] name = "HEBREW LETTER FINAL KAF" -> 1498
      [] name = "HEBREW LETTER KAF" -> 1499
      [] name = "HEBREW LETTER LAMED" -> 1500
      [] name = "HEBREW LETTER FINAL MEM" -> 1501
      [] name = "HEBREW LETTER MEM" -> 1502
      [] name = "HEBREW LETTER FINAL NUN" -> 1503
      [] name = "HEBREW LETTER NUN" -> 1504
      [] name = "HEBREW LETTER SAMEKH" -> 1505
      [] name = "HEBREW LETTER AYIN" -> 1506
      [] name = "HEBREW LETTER FINAL PE" -> 1507
      [] name = "HEBREW LETTER PE" -> 1508
      [] name = "HEBREW LETTER FINAL TSADI" -> 1509
      [] name = "HEBREW LETTER TSADI" -> 1510
      [] name = "HEBREW LETTER QOF" -> 1511
      [] name = "HEBREW LETTER RESH" -> 1512
      [] name = "HEBREW LETTER SHIN" -> 1513
      [] name = "HEBREW LETTER TAV" -> 1514
      [] name = "HEBREW YOD TRIANGLE" -> 1519
      [] name = "HEBREW LIGATURE YIDDISH DOUBLE VAV" -> 1520
      [] name = "HEBREW LIGATURE YIDDISH VAV YOD" -> 1521
      [] name = "HEBREW LIGATURE YIDDISH DOUBLE YOD" -> 1522
      [] name = "HEBREW PUNCTUATION GERESH" -> 1523
      [] name = "HEBREW PUNCTUATION GERSHAYIM" -> 1524
      [] name = "ARABIC NUMBER SIGN" -> 1536
      [] name = "ARABIC SIGN SANAH" -> 1537
      [] name = "ARABIC FOOTNOTE MARKER" -> 1538
      [] name = "ARABIC SIGN SAFHA" -> 1539
      [] name = "ARABIC SIGN SAMVAT" -> 1540
      [] name = "ARABIC NUMBER MARK ABOVE" -> 1541
      [] name = "ARABIC-INDIC CUBE ROOT" -> 1542
      [] name = "ARABIC-INDIC FOURTH ROOT" -> 1543
      [] name = "ARABIC RAY" -> 1544
      [] name = "ARABIC-INDIC PER MILLE SIGN" -> 1545
      [] name = "ARABIC-INDIC PER TEN THOUSAND SIGN" -> 1546
      [] name = "AFGHANI SIGN" -> 1547
      [] name = "ARABIC COMMA" -> 1548
      [] name = "ARABIC DATE SEPARATOR" -> 1549
      [] name = "ARABIC POETIC VERSE SIGN" -> 1550
      [] name = "ARABIC SIGN MISRA" -> 1551
      [] name = "ARABIC SIGN SALLALLAHOU ALAYHE WASSALLAM" -> 1552
      [] name = "ARABIC SIGN ALAYHE ASSALLAM" -> 1553
      [] name = "ARABIC SIGN RAHMATULLAH ALAYHE" -> 1554
      [] name = "ARABIC SIGN RADI ALLAHOU ANHU" -> 1555
      [] name = "ARABIC SIGN TAKHALLUS" -> 1556
      [] name = "ARABIC SMALL HIGH TAH" -> 1557
      [] name = "ARABIC SMALL HIGH LIGATURE ALEF WITH LAM WITH YEH" -> 1558
      [] name = "ARABIC SMALL HIGH ZAIN" -> 1559
      [] name = "ARABIC SMALL FATHA" -> 1560
      [] name = "ARABIC SMALL DAMMA" -> 1561
      [] name = "ARABIC SMALL KASRA" -> 1562
      [] name = "ARABIC SEMICOLON" -> 1563
      [] name = "ALM" -> 1564
      [] name = "ARABIC LETTER MARK" -> 1564
      [] name = "ARABIC END OF TEXT MARK" -> 1565
      [] name = "ARABIC TRIPLE DOT PUNCTUATION MARK" -> 1566
      [] name = "ARABIC QUESTION MARK" -> 1567
      [] name = "ARABIC LETTER KASHMIRI YEH" -> 1568
      [] name = "ARABIC LETTER HAMZA" -> 1569
      [] name = "ARABIC LETTER ALEF WITH MADDA ABOVE" -> 1570
      [] name = "ARABIC LETTER ALEF WITH HAMZA ABOVE" -> 1571
      [] name = "ARABIC LETTER WAW WITH HAMZA ABOVE" -> 1572
      [] name = "ARABIC LETTER ALEF WITH HAMZA BELOW" -> 1573
      [] name = "ARABIC LETTER YEH WITH HAMZA ABOVE" -> 1574
      [] name = "ARABIC LETTER ALEF" -> 1575
      [] name = "ARABIC LETTER BEH" -> 1576
      [] name = "ARABIC LETTER TEH MARBUTA" -> 1577
      [] name = "ARABIC LETTER TEH" -> 1578
      [] name = "ARABIC LETTER THEH" -> 1579
      [] name = "ARABIC LETTER JEEM" -> 1580
      [] name = "ARABIC LETTER HAH" -> 1581
      [] name = "ARABIC LETTER KHAH" -> 1582
      [] name = "ARABIC LETTER DAL" -> 1583
      [] name = "ARABIC LETTER THAL" -> 1584
      [] name = "ARABIC LETTER REH" -> 1585
      [] name = "ARABIC LETTER ZAIN" -> 1586
      [] name = "ARABIC LETTER SEEN" -> 1587
      [] name = "ARABIC LETTER SHEEN" -> 1588
      [] name = "ARABIC LETTER SAD" -> 1589
      [] name = "ARABIC LETTER DAD" -> 1590
      [] name = "ARABIC LETTER TAH" -> 1591
      [] name = "ARABIC LETTER ZAH" -> 1592
      [] name = "ARABIC LETTER AIN" -> 1593
      [] name = "ARABIC LETTER GHAIN" -> 1594
      [] name = "ARABIC LETTER KEHEH WITH TWO DOTS ABOVE" -> 1595
      [] name = "ARABIC LETTER KEHEH WITH THREE DOTS BELOW" -> 1596
      [] name = "ARABIC LETTER FARSI YEH WITH INVERTED V" -> 1597
      [] name = "ARABIC LETTER FARSI YEH WITH TWO DOTS ABOVE" -> 1598
      [] name = "ARABIC LETTER FARSI YEH WITH THREE DOTS ABOVE" -> 1599
      [] name = "ARABIC TATWEEL" -> 1600
      [] name = "ARABIC LETTER FEH" -> 1601
      [] name = "ARABIC LETTER QAF" -> 1602
      [] name = "ARABIC LETTER KAF" -> 1603
      [] name = "ARABIC LETTER LAM" -> 1604
      [] name = "ARABIC LETTER MEEM" -> 1605
      [] name = "ARABIC LETTER NOON" -> 1606
      [] name = "ARABIC LETTER HEH" -> 1607
      [] name = "ARABIC LETTER WAW" -> 1608
      [] name = "ARABIC LETTER ALEF MAKSURA" -> 1609
      [] name = "ARABIC LETTER YEH" -> 1610
      [] name = "ARABIC FATHATAN" -> 1611
      [] name = "ARABIC DAMMATAN" -> 1612
      [] name = "ARABIC KASRATAN" -> 1613
      [] name = "ARABIC FATHA" -> 1614
      [] name = "ARABIC DAMMA" -> 1615
      [] name = "ARABIC KASRA" -> 1616
      [] name = "ARABIC SHADDA" -> 1617
      [] name = "ARABIC SUKUN" -> 1618
      [] name = "ARABIC MADDAH ABOVE" -> 1619
      [] name = "ARABIC HAMZA ABOVE" -> 1620
      [] name = "ARABIC HAMZA BELOW" -> 1621
      [] name = "ARABIC SUBSCRIPT ALEF" -> 1622
      [] name = "ARABIC INVERTED DAMMA" -> 1623
      [] name = "ARABIC MARK NOON GHUNNA" -> 1624
      [] name = "ARABIC ZWARAKAY" -> 1625
      [] name = "ARABIC VOWEL SIGN SMALL V ABOVE" -> 1626
      [] name = "ARABIC VOWEL SIGN INVERTED SMALL V ABOVE" -> 1627
      [] name = "ARABIC VOWEL SIGN DOT BELOW" -> 1628
      [] name = "ARABIC REVERSED DAMMA" -> 1629
      [] name = "ARABIC FATHA WITH TWO DOTS" -> 1630
      [] name = "ARABIC WAVY HAMZA BELOW" -> 1631
      [] name = "ARABIC-INDIC DIGIT ZERO" -> 1632
      [] name = "ARABIC-INDIC DIGIT ONE" -> 1633
      [] name = "ARABIC-INDIC DIGIT TWO" -> 1634
      [] name = "ARABIC-INDIC DIGIT THREE" -> 1635
      [] name = "ARABIC-INDIC DIGIT FOUR" -> 1636
      [] name = "ARABIC-INDIC DIGIT FIVE" -> 1637
      [] name = "ARABIC-INDIC DIGIT SIX" -> 1638
      [] name = "ARABIC-INDIC DIGIT SEVEN" -> 1639
      [] name = "ARABIC-INDIC DIGIT EIGHT" -> 1640
      [] name = "ARABIC-INDIC DIGIT NINE" -> 1641
      [] name = "ARABIC PERCENT SIGN" -> 1642
      [] name = "ARABIC DECIMAL SEPARATOR" -> 1643
      [] name = "ARABIC THOUSANDS SEPARATOR" -> 1644
      [] name = "ARABIC FIVE POINTED STAR" -> 1645
      [] name = "ARABIC LETTER DOTLESS BEH" -> 1646
      [] name = "ARABIC LETTER DOTLESS QAF" -> 1647
      [] name = "ARABIC LETTER SUPERSCRIPT ALEF" -> 1648
      [] name = "ARABIC LETTER ALEF WASLA" -> 1649
      [] name = "ARABIC LETTER ALEF WITH WAVY HAMZA ABOVE" -> 1650
      [] name = "ARABIC LETTER ALEF WITH WAVY HAMZA BELOW" -> 1651
      [] name = "ARABIC LETTER HIGH HAMZA" -> 1652
      [] name = "ARABIC LETTER HIGH HAMZA ALEF" -> 1653
      [] name = "ARABIC LETTER HIGH HAMZA WAW" -> 1654
      [] name = "ARABIC LETTER U WITH HAMZA ABOVE" -> 1655
      [] name = "ARABIC LETTER HIGH HAMZA YEH" -> 1656
      [] name = "ARABIC LETTER TTEH" -> 1657
      [] name = "ARABIC LETTER TTEHEH" -> 1658
      [] name = "ARABIC LETTER BEEH" -> 1659
      [] name = "ARABIC LETTER TEH WITH RING" -> 1660
      [] name = "ARABIC LETTER TEH WITH THREE DOTS ABOVE DOWNWARDS" -> 1661
      [] name = "ARABIC LETTER PEH" -> 1662
      [] name = "ARABIC LETTER TEHEH" -> 1663
      [] name = "ARABIC LETTER BEHEH" -> 1664
      [] name = "ARABIC LETTER HAH WITH HAMZA ABOVE" -> 1665
      [] name = "ARABIC LETTER HAH WITH TWO DOTS VERTICAL ABOVE" -> 1666
      [] name = "ARABIC LETTER NYEH" -> 1667
      [] name = "ARABIC LETTER DYEH" -> 1668
      [] name = "ARABIC LETTER HAH WITH THREE DOTS ABOVE" -> 1669
      [] name = "ARABIC LETTER TCHEH" -> 1670
      [] name = "ARABIC LETTER TCHEHEH" -> 1671
      [] name = "ARABIC LETTER DDAL" -> 1672
      [] name = "ARABIC LETTER DAL WITH RING" -> 1673
      [] name = "ARABIC LETTER DAL WITH DOT BELOW" -> 1674
      [] name = "ARABIC LETTER DAL WITH DOT BELOW AND SMALL TAH" -> 1675
      [] name = "ARABIC LETTER DAHAL" -> 1676
      [] name = "ARABIC LETTER DDAHAL" -> 1677
      [] name = "ARABIC LETTER DUL" -> 1678
      [] name = "ARABIC LETTER DAL WITH THREE DOTS ABOVE DOWNWARDS" -> 1679
      [] name = "ARABIC LETTER DAL WITH FOUR DOTS ABOVE" -> 1680
      [] name = "ARABIC LETTER RREH" -> 1681
      [] name = "ARABIC LETTER REH WITH SMALL V" -> 1682
      [] name = "ARABIC LETTER REH WITH RING" -> 1683
      [] name = "ARABIC LETTER REH WITH DOT BELOW" -> 1684
      [] name = "ARABIC LETTER REH WITH SMALL V BELOW" -> 1685
      [] name = "ARABIC LETTER REH WITH DOT BELOW AND DOT ABOVE" -> 1686
      [] name = "ARABIC LETTER REH WITH TWO DOTS ABOVE" -> 1687
      [] name = "ARABIC LETTER JEH" -> 1688
      [] name = "ARABIC LETTER REH WITH FOUR DOTS ABOVE" -> 1689
      [] name = "ARABIC LETTER SEEN WITH DOT BELOW AND DOT ABOVE" -> 1690
      [] name = "ARABIC LETTER SEEN WITH THREE DOTS BELOW" -> 1691
      [] name = "ARABIC LETTER SEEN WITH THREE DOTS BELOW AND THREE DOTS ABOVE" -> 1692
      [] name = "ARABIC LETTER SAD WITH TWO DOTS BELOW" -> 1693
      [] name = "ARABIC LETTER SAD WITH THREE DOTS ABOVE" -> 1694
      [] name = "ARABIC LETTER TAH WITH THREE DOTS ABOVE" -> 1695
      [] name = "ARABIC LETTER AIN WITH THREE DOTS ABOVE" -> 1696
      [] name = "ARABIC LETTER DOTLESS FEH" -> 1697
      [] name = "ARABIC LETTER FEH WITH DOT MOVED BELOW" -> 1698
      [] name = "ARABIC LETTER FEH WITH DOT BELOW" -> 1699
      [] name = "ARABIC LETTER VEH" -> 1700
      [] name = "ARABIC LETTER FEH WITH THREE DOTS BELOW" -> 1701
      [] name = "ARABIC LETTER PEHEH" -> 1702
      [] name = "ARABIC LETTER QAF WITH DOT ABOVE" -> 1703
      [] name = "ARABIC LETTER QAF WITH THREE DOTS ABOVE" -> 1704
      [] name = "ARABIC LETTER KEHEH" -> 1705
      [] name = "ARABIC LETTER SWASH KAF" -> 1706
      [] name = "ARABIC LETTER KAF WITH RING" -> 1707
      [] name = "ARABIC LETTER KAF WITH DOT ABOVE" -> 1708
      [] name = "ARABIC LETTER NG" -> 1709
      [] name = "ARABIC LETTER KAF WITH THREE DOTS BELOW" -> 1710
      [] name = "ARABIC LETTER GAF" -> 1711
      [] name = "ARABIC LETTER GAF WITH RING" -> 1712
      [] name = "ARABIC LETTER NGOEH" -> 1713
      [] name = "ARABIC LETTER GAF WITH TWO DOTS BELOW" -> 1714
      [] name = "ARABIC LETTER GUEH" -> 1715
      [] name = "ARABIC LETTER GAF WITH THREE DOTS ABOVE" -> 1716
      [] name = "ARABIC LETTER LAM WITH SMALL V" -> 1717
      [] name = "ARABIC LETTER LAM WITH DOT ABOVE" -> 1718
      [] name = "ARABIC LETTER LAM WITH THREE DOTS ABOVE" -> 1719
      [] name = "ARABIC LETTER LAM WITH THREE DOTS BELOW" -> 1720
      [] name = "ARABIC LETTER NOON WITH DOT BELOW" -> 1721
      [] name = "ARABIC LETTER NOON GHUNNA" -> 1722
      [] name = "ARABIC LETTER RNOON" -> 1723
      [] name = "ARABIC LETTER NOON WITH RING" -> 1724
      [] name = "ARABIC LETTER NOON WITH THREE DOTS ABOVE" -> 1725
      [] name = "ARABIC LETTER HEH DOACHASHMEE" -> 1726
      [] name = "ARABIC LETTER TCHEH WITH DOT ABOVE" -> 1727
      [] name = "ARABIC LETTER HEH WITH YEH ABOVE" -> 1728
      [] name = "ARABIC LETTER HEH GOAL" -> 1729
      [] name = "ARABIC LETTER HEH GOAL WITH HAMZA ABOVE" -> 1730
      [] name = "ARABIC LETTER TEH MARBUTA GOAL" -> 1731
      [] name = "ARABIC LETTER WAW WITH RING" -> 1732
      [] name = "ARABIC LETTER KIRGHIZ OE" -> 1733
      [] name = "ARABIC LETTER OE" -> 1734
      [] name = "ARABIC LETTER U" -> 1735
      [] name = "ARABIC LETTER YU" -> 1736
      [] name = "ARABIC LETTER KIRGHIZ YU" -> 1737
      [] name = "ARABIC LETTER WAW WITH TWO DOTS ABOVE" -> 1738
      [] name = "ARABIC LETTER VE" -> 1739
      [] name = "ARABIC LETTER FARSI YEH" -> 1740
      [] name = "ARABIC LETTER YEH WITH TAIL" -> 1741
      [] name = "ARABIC LETTER YEH WITH SMALL V" -> 1742
      [] name = "ARABIC LETTER WAW WITH DOT ABOVE" -> 1743
      [] name = "ARABIC LETTER E" -> 1744
      [] name = "ARABIC LETTER YEH WITH THREE DOTS BELOW" -> 1745
      [] name = "ARABIC LETTER YEH BARREE" -> 1746
      [] name = "ARABIC LETTER YEH BARREE WITH HAMZA ABOVE" -> 1747
      [] name = "ARABIC FULL STOP" -> 1748
      [] name = "ARABIC LETTER AE" -> 1749
      [] name = "ARABIC SMALL HIGH LIGATURE SAD WITH LAM WITH ALEF MAKSURA" -> 1750
      [] name = "ARABIC SMALL HIGH LIGATURE QAF WITH LAM WITH ALEF MAKSURA" -> 1751
      [] name = "ARABIC SMALL HIGH MEEM INITIAL FORM" -> 1752
      [] name = "ARABIC SMALL HIGH LAM ALEF" -> 1753
      [] name = "ARABIC SMALL HIGH JEEM" -> 1754
      [] name = "ARABIC SMALL HIGH THREE DOTS" -> 1755
      [] name = "ARABIC SMALL HIGH SEEN" -> 1756
      [] name = "ARABIC END OF AYAH" -> 1757
      [] name = "ARABIC START OF RUB EL HIZB" -> 1758
      [] name = "ARABIC SMALL HIGH ROUNDED ZERO" -> 1759
      [] name = "ARABIC SMALL HIGH UPRIGHT RECTANGULAR ZERO" -> 1760
      [] name = "ARABIC SMALL HIGH DOTLESS HEAD OF KHAH" -> 1761
      [] name = "ARABIC SMALL HIGH MEEM ISOLATED FORM" -> 1762
      [] name = "ARABIC SMALL LOW SEEN" -> 1763
      [] name = "ARABIC SMALL HIGH MADDA" -> 1764
      [] name = "ARABIC SMALL WAW" -> 1765
      [] name = "ARABIC SMALL YEH" -> 1766
      [] name = "ARABIC SMALL HIGH YEH" -> 1767
      [] name = "ARABIC SMALL HIGH NOON" -> 1768
      [] name = "ARABIC PLACE OF SAJDAH" -> 1769
      [] name = "ARABIC EMPTY CENTRE LOW STOP" -> 1770
      [] name = "ARABIC EMPTY CENTRE HIGH STOP" -> 1771
      [] name = "ARABIC ROUNDED HIGH STOP WITH FILLED CENTRE" -> 1772
      [] name = "ARABIC SMALL LOW MEEM" -> 1773
      [] name = "ARABIC LETTER DAL WITH INVERTED V" -> 1774
      [] name = "ARABIC LETTER REH WITH INVERTED V" -> 1775
      [] name = "EXTENDED ARABIC-INDIC DIGIT ZERO" -> 1776
      [] name = "EXTENDED ARABIC-INDIC DIGIT ONE" -> 1777
      [] name = "EXTENDED ARABIC-INDIC DIGIT TWO" -> 1778
      [] name = "EXTENDED ARABIC-INDIC DIGIT THREE" -> 1779
      [] name = "EXTENDED ARABIC-INDIC DIGIT FOUR" -> 1780
      [] name = "EXTENDED ARABIC-INDIC DIGIT FIVE" -> 1781
      [] name = "EXTENDED ARABIC-INDIC DIGIT SIX" -> 1782
      [] name = "EXTENDED ARABIC-INDIC DIGIT SEVEN" -> 1783
      [] name = "EXTENDED ARABIC-INDIC DIGIT EIGHT" -> 1784
      [] name = "EXTENDED ARABIC-INDIC DIGIT NINE" -> 1785
      [] name = "ARABIC LETTER SHEEN WITH DOT BELOW" -> 1786
      [] name = "ARABIC LETTER DAD WITH DOT BELOW" -> 1787
      [] name = "ARABIC LETTER GHAIN WITH DOT BELOW" -> 1788
      [] name = "ARABIC SIGN SINDHI AMPERSAND" -> 1789
      [] name = "ARABIC SIGN SINDHI POSTPOSITION MEN" -> 1790
      [] name = "ARABIC LETTER HEH WITH INVERTED V" -> 1791
      [] name = "SYRIAC END OF PARAGRAPH" -> 1792
      [] name = "SYRIAC SUPRALINEAR FULL STOP" -> 1793
      [] name = "SYRIAC SUBLINEAR FULL STOP" -> 1794
      [] name = "SYRIAC SUPRALINEAR COLON" -> 1795
      [] name = "SYRIAC SUBLINEAR COLON" -> 1796
      [] name = "SYRIAC HORIZONTAL COLON" -> 1797
      [] name = "SYRIAC COLON SKEWED LEFT" -> 1798
      [] name = "SYRIAC COLON SKEWED RIGHT" -> 1799
      [] name = "SYRIAC SUPRALINEAR COLON SKEWED LEFT" -> 1800
      [] name = "SYRIAC SUBLINEAR COLON SKEWED LEFT" -> 1801
      [] name = "SYRIAC SUBLINEAR COLON SKEWED RIGHT" -> 1801
      [] name = "SYRIAC CONTRACTION" -> 1802
      [] name = "SYRIAC HARKLEAN OBELUS" -> 1803
      [] name = "SYRIAC HARKLEAN METOBELUS" -> 1804
      [] name = "SYRIAC HARKLEAN ASTERISCUS" -> 1805
      [] name = "SYRIAC ABBREVIATION MARK" -> 1807
      [] name = "SYRIAC LETTER ALAPH" -> 1808
      [] name = "SYRIAC LETTER SUPERSCRIPT ALAPH" -> 1809
      [] name = "SYRIAC LETTER BETH" -> 1810
      [] name = "SYRIAC LETTER GAMAL" -> 1811
      [] name = "SYRIAC LETTER GAMAL GARSHUNI" -> 1812
      [] name = "SYRIAC LETTER DALATH" -> 1813
      [] name = "SYRIAC LETTER DOTLESS DALATH RISH" -> 1814
      [] name = "SYRIAC LETTER HE" -> 1815
      [] name = "SYRIAC LETTER WAW" -> 1816
      [] name = "SYRIAC LETTER ZAIN" -> 1817
      [] name = "SYRIAC LETTER HETH" -> 1818
      [] name = "SYRIAC LETTER TETH" -> 1819
      [] name = "SYRIAC LETTER TETH GARSHUNI" -> 1820
      [] name = "SYRIAC LETTER YUDH" -> 1821
      [] name = "SYRIAC LETTER YUDH HE" -> 1822
      [] name = "SYRIAC LETTER KAPH" -> 1823
      [] name = "SYRIAC LETTER LAMADH" -> 1824
      [] name = "SYRIAC LETTER MIM" -> 1825
      [] name = "SYRIAC LETTER NUN" -> 1826
      [] name = "SYRIAC LETTER SEMKATH" -> 1827
      [] name = "SYRIAC LETTER FINAL SEMKATH" -> 1828
      [] name = "SYRIAC LETTER E" -> 1829
      [] name = "SYRIAC LETTER PE" -> 1830
      [] name = "SYRIAC LETTER REVERSED PE" -> 1831
      [] name = "SYRIAC LETTER SADHE" -> 1832
      [] name = "SYRIAC LETTER QAPH" -> 1833
      [] name = "SYRIAC LETTER RISH" -> 1834
      [] name = "SYRIAC LETTER SHIN" -> 1835
      [] name = "SYRIAC LETTER TAW" -> 1836
      [] name = "SYRIAC LETTER PERSIAN BHETH" -> 1837
      [] name = "SYRIAC LETTER PERSIAN GHAMAL" -> 1838
      [] name = "SYRIAC LETTER PERSIAN DHALATH" -> 1839
      [] name = "SYRIAC PTHAHA ABOVE" -> 1840
      [] name = "SYRIAC PTHAHA BELOW" -> 1841
      [] name = "SYRIAC PTHAHA DOTTED" -> 1842
      [] name = "SYRIAC ZQAPHA ABOVE" -> 1843
      [] name = "SYRIAC ZQAPHA BELOW" -> 1844
      [] name = "SYRIAC ZQAPHA DOTTED" -> 1845
      [] name = "SYRIAC RBASA ABOVE" -> 1846
      [] name = "SYRIAC RBASA BELOW" -> 1847
      [] name = "SYRIAC DOTTED ZLAMA HORIZONTAL" -> 1848
      [] name = "SYRIAC DOTTED ZLAMA ANGULAR" -> 1849
      [] name = "SYRIAC HBASA ABOVE" -> 1850
      [] name = "SYRIAC HBASA BELOW" -> 1851
      [] name = "SYRIAC HBASA-ESASA DOTTED" -> 1852
      [] name = "SYRIAC ESASA ABOVE" -> 1853
      [] name = "SYRIAC ESASA BELOW" -> 1854
      [] name = "SYRIAC RWAHA" -> 1855
      [] name = "SYRIAC FEMININE DOT" -> 1856
      [] name = "SYRIAC QUSHSHAYA" -> 1857
      [] name = "SYRIAC RUKKAKHA" -> 1858
      [] name = "SYRIAC TWO VERTICAL DOTS ABOVE" -> 1859
      [] name = "SYRIAC TWO VERTICAL DOTS BELOW" -> 1860
      [] name = "SYRIAC THREE DOTS ABOVE" -> 1861
      [] name = "SYRIAC THREE DOTS BELOW" -> 1862
      [] name = "SYRIAC OBLIQUE LINE ABOVE" -> 1863
      [] name = "SYRIAC OBLIQUE LINE BELOW" -> 1864
      [] name = "SYRIAC MUSIC" -> 1865
      [] name = "SYRIAC BARREKH" -> 1866
      [] name = "SYRIAC LETTER SOGDIAN ZHAIN" -> 1869
      [] name = "SYRIAC LETTER SOGDIAN KHAPH" -> 1870
      [] name = "SYRIAC LETTER SOGDIAN FE" -> 1871
      [] name = "ARABIC LETTER BEH WITH THREE DOTS HORIZONTALLY BELOW" -> 1872
      [] name = "ARABIC LETTER BEH WITH DOT BELOW AND THREE DOTS ABOVE" -> 1873
      [] name = "ARABIC LETTER BEH WITH THREE DOTS POINTING UPWARDS BELOW" -> 1874
      [] name = "ARABIC LETTER BEH WITH THREE DOTS POINTING UPWARDS BELOW AND TWO DOTS ABOVE" -> 1875
      [] name = "ARABIC LETTER BEH WITH TWO DOTS BELOW AND DOT ABOVE" -> 1876
      [] name = "ARABIC LETTER BEH WITH INVERTED SMALL V BELOW" -> 1877
      [] name = "ARABIC LETTER BEH WITH SMALL V" -> 1878
      [] name = "ARABIC LETTER HAH WITH TWO DOTS ABOVE" -> 1879
      [] name = "ARABIC LETTER HAH WITH THREE DOTS POINTING UPWARDS BELOW" -> 1880
      [] name = "ARABIC LETTER DAL WITH TWO DOTS VERTICALLY BELOW AND SMALL TAH" -> 1881
      [] name = "ARABIC LETTER DAL WITH INVERTED SMALL V BELOW" -> 1882
      [] name = "ARABIC LETTER REH WITH STROKE" -> 1883
      [] name = "ARABIC LETTER SEEN WITH FOUR DOTS ABOVE" -> 1884
      [] name = "ARABIC LETTER AIN WITH TWO DOTS ABOVE" -> 1885
      [] name = "ARABIC LETTER AIN WITH THREE DOTS POINTING DOWNWARDS ABOVE" -> 1886
      [] name = "ARABIC LETTER AIN WITH TWO DOTS VERTICALLY ABOVE" -> 1887
      [] name = "ARABIC LETTER FEH WITH TWO DOTS BELOW" -> 1888
      [] name = "ARABIC LETTER FEH WITH THREE DOTS POINTING UPWARDS BELOW" -> 1889
      [] name = "ARABIC LETTER KEHEH WITH DOT ABOVE" -> 1890
      [] name = "ARABIC LETTER KEHEH WITH THREE DOTS ABOVE" -> 1891
      [] name = "ARABIC LETTER KEHEH WITH THREE DOTS POINTING UPWARDS BELOW" -> 1892
      [] name = "ARABIC LETTER MEEM WITH DOT ABOVE" -> 1893
      [] name = "ARABIC LETTER MEEM WITH DOT BELOW" -> 1894
      [] name = "ARABIC LETTER NOON WITH TWO DOTS BELOW" -> 1895
      [] name = "ARABIC LETTER NOON WITH SMALL TAH" -> 1896
      [] name = "ARABIC LETTER NOON WITH SMALL V" -> 1897
      [] name = "ARABIC LETTER LAM WITH BAR" -> 1898
      [] name = "ARABIC LETTER REH WITH TWO DOTS VERTICALLY ABOVE" -> 1899
      [] name = "ARABIC LETTER REH WITH HAMZA ABOVE" -> 1900
      [] name = "ARABIC LETTER SEEN WITH TWO DOTS VERTICALLY ABOVE" -> 1901
      [] name = "ARABIC LETTER HAH WITH SMALL ARABIC LETTER TAH BELOW" -> 1902
      [] name = "ARABIC LETTER HAH WITH SMALL ARABIC LETTER TAH AND TWO DOTS" -> 1903
      [] name = "ARABIC LETTER SEEN WITH SMALL ARABIC LETTER TAH AND TWO DOTS" -> 1904
      [] name = "ARABIC LETTER REH WITH SMALL ARABIC LETTER TAH AND TWO DOTS" -> 1905
      [] name = "ARABIC LETTER HAH WITH SMALL ARABIC LETTER TAH ABOVE" -> 1906
      [] name = "ARABIC LETTER ALEF WITH EXTENDED ARABIC-INDIC DIGIT TWO ABOVE" -> 1907
      [] name = "ARABIC LETTER ALEF WITH EXTENDED ARABIC-INDIC DIGIT THREE ABOVE" -> 1908
      [] name = "ARABIC LETTER FARSI YEH WITH EXTENDED ARABIC-INDIC DIGIT TWO ABOVE" -> 1909
      [] name = "ARABIC LETTER FARSI YEH WITH EXTENDED ARABIC-INDIC DIGIT THREE ABOVE" -> 1910
      [] name = "ARABIC LETTER FARSI YEH WITH EXTENDED ARABIC-INDIC DIGIT FOUR BELOW" -> 1911
      [] name = "ARABIC LETTER WAW WITH EXTENDED ARABIC-INDIC DIGIT TWO ABOVE" -> 1912
      [] name = "ARABIC LETTER WAW WITH EXTENDED ARABIC-INDIC DIGIT THREE ABOVE" -> 1913
      [] name = "ARABIC LETTER YEH BARREE WITH EXTENDED ARABIC-INDIC DIGIT TWO ABOVE" -> 1914
      [] name = "ARABIC LETTER YEH BARREE WITH EXTENDED ARABIC-INDIC DIGIT THREE ABOVE" -> 1915
      [] name = "ARABIC LETTER HAH WITH EXTENDED ARABIC-INDIC DIGIT FOUR BELOW" -> 1916
      [] name = "ARABIC LETTER SEEN WITH EXTENDED ARABIC-INDIC DIGIT FOUR ABOVE" -> 1917
      [] name = "ARABIC LETTER SEEN WITH INVERTED V" -> 1918
      [] name = "ARABIC LETTER KAF WITH TWO DOTS ABOVE" -> 1919
      [] name = "THAANA LETTER HAA" -> 1920
      [] name = "THAANA LETTER SHAVIYANI" -> 1921
      [] name = "THAANA LETTER NOONU" -> 1922
      [] name = "THAANA LETTER RAA" -> 1923
      [] name = "THAANA LETTER BAA" -> 1924
      [] name = "THAANA LETTER LHAVIYANI" -> 1925
      [] name = "THAANA LETTER KAAFU" -> 1926
      [] name = "THAANA LETTER ALIFU" -> 1927
      [] name = "THAANA LETTER VAAVU" -> 1928
      [] name = "THAANA LETTER MEEMU" -> 1929
      [] name = "THAANA LETTER FAAFU" -> 1930
      [] name = "THAANA LETTER DHAALU" -> 1931
      [] name = "THAANA LETTER THAA" -> 1932
      [] name = "THAANA LETTER LAAMU" -> 1933
      [] name = "THAANA LETTER GAAFU" -> 1934
      [] name = "THAANA LETTER GNAVIYANI" -> 1935
      [] name = "THAANA LETTER SEENU" -> 1936
      [] name = "THAANA LETTER DAVIYANI" -> 1937
      [] name = "THAANA LETTER ZAVIYANI" -> 1938
      [] name = "THAANA LETTER TAVIYANI" -> 1939
      [] name = "THAANA LETTER YAA" -> 1940
      [] name = "THAANA LETTER PAVIYANI" -> 1941
      [] name = "THAANA LETTER JAVIYANI" -> 1942
      [] name = "THAANA LETTER CHAVIYANI" -> 1943
      [] name = "THAANA LETTER TTAA" -> 1944
      [] name = "THAANA LETTER HHAA" -> 1945
      [] name = "THAANA LETTER KHAA" -> 1946
      [] name = "THAANA LETTER THAALU" -> 1947
      [] name = "THAANA LETTER ZAA" -> 1948
      [] name = "THAANA LETTER SHEENU" -> 1949
      [] name = "THAANA LETTER SAADHU" -> 1950
      [] name = "THAANA LETTER DAADHU" -> 1951
      [] name = "THAANA LETTER TO" -> 1952
      [] name = "THAANA LETTER ZO" -> 1953
      [] name = "THAANA LETTER AINU" -> 1954
      [] name = "THAANA LETTER GHAINU" -> 1955
      [] name = "THAANA LETTER QAAFU" -> 1956
      [] name = "THAANA LETTER WAAVU" -> 1957
      [] name = "THAANA ABAFILI" -> 1958
      [] name = "THAANA AABAAFILI" -> 1959
      [] name = "THAANA IBIFILI" -> 1960
      [] name = "THAANA EEBEEFILI" -> 1961
      [] name = "THAANA UBUFILI" -> 1962
      [] name = "THAANA OOBOOFILI" -> 1963
      [] name = "THAANA EBEFILI" -> 1964
      [] name = "THAANA EYBEYFILI" -> 1965
      [] name = "THAANA OBOFILI" -> 1966
      [] name = "THAANA OABOAFILI" -> 1967
      [] name = "THAANA SUKUN" -> 1968
      [] name = "THAANA LETTER NAA" -> 1969
      [] name = "NKO DIGIT ZERO" -> 1984
      [] name = "NKO DIGIT ONE" -> 1985
      [] name = "NKO DIGIT TWO" -> 1986
      [] name = "NKO DIGIT THREE" -> 1987
      [] name = "NKO DIGIT FOUR" -> 1988
      [] name = "NKO DIGIT FIVE" -> 1989
      [] name = "NKO DIGIT SIX" -> 1990
      [] name = "NKO DIGIT SEVEN" -> 1991
      [] name = "NKO DIGIT EIGHT" -> 1992
      [] name = "NKO DIGIT NINE" -> 1993
      [] name = "NKO LETTER A" -> 1994
      [] name = "NKO LETTER EE" -> 1995
      [] name = "NKO LETTER I" -> 1996
      [] name = "NKO LETTER E" -> 1997
      [] name = "NKO LETTER U" -> 1998
      [] name = "NKO LETTER OO" -> 1999
      [] name = "NKO LETTER O" -> 2000
      [] name = "NKO LETTER DAGBASINNA" -> 2001
      [] name = "NKO LETTER N" -> 2002
      [] name = "NKO LETTER BA" -> 2003
      [] name = "NKO LETTER PA" -> 2004
      [] name = "NKO LETTER TA" -> 2005
      [] name = "NKO LETTER JA" -> 2006
      [] name = "NKO LETTER CHA" -> 2007
      [] name = "NKO LETTER DA" -> 2008
      [] name = "NKO LETTER RA" -> 2009
      [] name = "NKO LETTER RRA" -> 2010
      [] name = "NKO LETTER SA" -> 2011
      [] name = "NKO LETTER GBA" -> 2012
      [] name = "NKO LETTER FA" -> 2013
      [] name = "NKO LETTER KA" -> 2014
      [] name = "NKO LETTER LA" -> 2015
      [] name = "NKO LETTER NA WOLOSO" -> 2016
      [] name = "NKO LETTER MA" -> 2017
      [] name = "NKO LETTER NYA" -> 2018
      [] name = "NKO LETTER NA" -> 2019
      [] name = "NKO LETTER HA" -> 2020
      [] name = "NKO LETTER WA" -> 2021
      [] name = "NKO LETTER YA" -> 2022
      [] name = "NKO LETTER NYA WOLOSO" -> 2023
      [] name = "NKO LETTER JONA JA" -> 2024
      [] name = "NKO LETTER JONA CHA" -> 2025
      [] name = "NKO LETTER JONA RA" -> 2026
      [] name = "NKO COMBINING SHORT HIGH TONE" -> 2027
      [] name = "NKO COMBINING SHORT LOW TONE" -> 2028
      [] name = "NKO COMBINING SHORT RISING TONE" -> 2029
      [] name = "NKO COMBINING LONG DESCENDING TONE" -> 2030
      [] name = "NKO COMBINING LONG HIGH TONE" -> 2031
      [] name = "NKO COMBINING LONG LOW TONE" -> 2032
      [] name = "NKO COMBINING LONG RISING TONE" -> 2033
      [] name = "NKO COMBINING NASALIZATION MARK" -> 2034
      [] name = "NKO COMBINING DOUBLE DOT ABOVE" -> 2035
      [] name = "NKO HIGH TONE APOSTROPHE" -> 2036
      [] name = "NKO LOW TONE APOSTROPHE" -> 2037
      [] name = "NKO SYMBOL OO DENNEN" -> 2038
      [] name = "NKO SYMBOL GBAKURUNEN" -> 2039
      [] name = "NKO COMMA" -> 2040
      [] name = "NKO EXCLAMATION MARK" -> 2041
      [] name = "NKO LAJANYALAN" -> 2042
      [] name = "NKO DANTAYALAN" -> 2045
      [] name = "NKO DOROME SIGN" -> 2046
      [] name = "NKO TAMAN SIGN" -> 2047
      [] name = "SAMARITAN LETTER ALAF" -> 2048
      [] name = "SAMARITAN LETTER BIT" -> 2049
      [] name = "SAMARITAN LETTER GAMAN" -> 2050
      [] name = "SAMARITAN LETTER DALAT" -> 2051
      [] name = "SAMARITAN LETTER IY" -> 2052
      [] name = "SAMARITAN LETTER BAA" -> 2053
      [] name = "SAMARITAN LETTER ZEN" -> 2054
      [] name = "SAMARITAN LETTER IT" -> 2055
      [] name = "SAMARITAN LETTER TIT" -> 2056
      [] name = "SAMARITAN LETTER YUT" -> 2057
      [] name = "SAMARITAN LETTER KAAF" -> 2058
      [] name = "SAMARITAN LETTER LABAT" -> 2059
      [] name = "SAMARITAN LETTER MIM" -> 2060
      [] name = "SAMARITAN LETTER NUN" -> 2061
      [] name = "SAMARITAN LETTER SINGAAT" -> 2062
      [] name = "SAMARITAN LETTER IN" -> 2063
      [] name = "SAMARITAN LETTER FI" -> 2064
      [] name = "SAMARITAN LETTER TSAADIY" -> 2065
      [] name = "SAMARITAN LETTER QUF" -> 2066
      [] name = "SAMARITAN LETTER RISH" -> 2067
      [] name = "SAMARITAN LETTER SHAN" -> 2068
      [] name = "SAMARITAN LETTER TAAF" -> 2069
      [] name = "SAMARITAN MARK IN" -> 2070
      [] name = "SAMARITAN MARK IN-ALAF" -> 2071
      [] name = "SAMARITAN MARK OCCLUSION" -> 2072
      [] name = "SAMARITAN MARK DAGESH" -> 2073
      [] name = "SAMARITAN MODIFIER LETTER EPENTHETIC YUT" -> 2074
      [] name = "SAMARITAN MARK EPENTHETIC YUT" -> 2075
      [] name = "SAMARITAN VOWEL SIGN LONG E" -> 2076
      [] name = "SAMARITAN VOWEL SIGN E" -> 2077
      [] name = "SAMARITAN VOWEL SIGN OVERLONG AA" -> 2078
      [] name = "SAMARITAN VOWEL SIGN LONG AA" -> 2079
      [] name = "SAMARITAN VOWEL SIGN AA" -> 2080
      [] name = "SAMARITAN VOWEL SIGN OVERLONG A" -> 2081
      [] name = "SAMARITAN VOWEL SIGN LONG A" -> 2082
      [] name = "SAMARITAN VOWEL SIGN A" -> 2083
      [] name = "SAMARITAN MODIFIER LETTER SHORT A" -> 2084
      [] name = "SAMARITAN VOWEL SIGN SHORT A" -> 2085
      [] name = "SAMARITAN VOWEL SIGN LONG U" -> 2086
      [] name = "SAMARITAN VOWEL SIGN U" -> 2087
      [] name = "SAMARITAN MODIFIER LETTER I" -> 2088
      [] name = "SAMARITAN VOWEL SIGN LONG I" -> 2089
      [] name = "SAMARITAN VOWEL SIGN I" -> 2090
      [] name = "SAMARITAN VOWEL SIGN O" -> 2091
      [] name = "SAMARITAN VOWEL SIGN SUKUN" -> 2092
      [] name = "SAMARITAN MARK NEQUDAA" -> 2093
      [] name = "SAMARITAN PUNCTUATION NEQUDAA" -> 2096
      [] name = "SAMARITAN PUNCTUATION AFSAAQ" -> 2097
      [] name = "SAMARITAN PUNCTUATION ANGED" -> 2098
      [] name = "SAMARITAN PUNCTUATION BAU" -> 2099
      [] name = "SAMARITAN PUNCTUATION ATMAAU" -> 2100
      [] name = "SAMARITAN PUNCTUATION SHIYYAALAA" -> 2101
      [] name = "SAMARITAN ABBREVIATION MARK" -> 2102
      [] name = "SAMARITAN PUNCTUATION MELODIC QITSA" -> 2103
      [] name = "SAMARITAN PUNCTUATION ZIQAA" -> 2104
      [] name = "SAMARITAN PUNCTUATION QITSA" -> 2105
      [] name = "SAMARITAN PUNCTUATION ZAEF" -> 2106
      [] name = "SAMARITAN PUNCTUATION TURU" -> 2107
      [] name = "SAMARITAN PUNCTUATION ARKAANU" -> 2108
      [] name = "SAMARITAN PUNCTUATION SOF MASHFAAT" -> 2109
      [] name = "SAMARITAN PUNCTUATION ANNAAU" -> 2110
      [] name = "MANDAIC LETTER HALQA" -> 2112
      [] name = "MANDAIC LETTER AB" -> 2113
      [] name = "MANDAIC LETTER AG" -> 2114
      [] name = "MANDAIC LETTER AD" -> 2115
      [] name = "MANDAIC LETTER AH" -> 2116
      [] name = "MANDAIC LETTER USHENNA" -> 2117
      [] name = "MANDAIC LETTER AZ" -> 2118
      [] name = "MANDAIC LETTER IT" -> 2119
      [] name = "MANDAIC LETTER ATT" -> 2120
      [] name = "MANDAIC LETTER AKSA" -> 2121
      [] name = "MANDAIC LETTER AK" -> 2122
      [] name = "MANDAIC LETTER AL" -> 2123
      [] name = "MANDAIC LETTER AM" -> 2124
      [] name = "MANDAIC LETTER AN" -> 2125
      [] name = "MANDAIC LETTER AS" -> 2126
      [] name = "MANDAIC LETTER IN" -> 2127
      [] name = "MANDAIC LETTER AP" -> 2128
      [] name = "MANDAIC LETTER ASZ" -> 2129
      [] name = "MANDAIC LETTER AQ" -> 2130
      [] name = "MANDAIC LETTER AR" -> 2131
      [] name = "MANDAIC LETTER ASH" -> 2132
      [] name = "MANDAIC LETTER AT" -> 2133
      [] name = "MANDAIC LETTER DUSHENNA" -> 2134
      [] name = "MANDAIC LETTER KAD" -> 2135
      [] name = "MANDAIC LETTER AIN" -> 2136
      [] name = "MANDAIC AFFRICATION MARK" -> 2137
      [] name = "MANDAIC VOCALIZATION MARK" -> 2138
      [] name = "MANDAIC GEMINATION MARK" -> 2139
      [] name = "MANDAIC PUNCTUATION" -> 2142
      [] name = "SYRIAC LETTER MALAYALAM NGA" -> 2144
      [] name = "SYRIAC LETTER MALAYALAM JA" -> 2145
      [] name = "SYRIAC LETTER MALAYALAM NYA" -> 2146
      [] name = "SYRIAC LETTER MALAYALAM TTA" -> 2147
      [] name = "SYRIAC LETTER MALAYALAM NNA" -> 2148
      [] name = "SYRIAC LETTER MALAYALAM NNNA" -> 2149
      [] name = "SYRIAC LETTER MALAYALAM BHA" -> 2150
      [] name = "SYRIAC LETTER MALAYALAM RA" -> 2151
      [] name = "SYRIAC LETTER MALAYALAM LLA" -> 2152
      [] name = "SYRIAC LETTER MALAYALAM LLLA" -> 2153
      [] name = "SYRIAC LETTER MALAYALAM SSA" -> 2154
      [] name = "ARABIC LETTER ALEF WITH ATTACHED FATHA" -> 2160
      [] name = "ARABIC LETTER ALEF WITH ATTACHED TOP RIGHT FATHA" -> 2161
      [] name = "ARABIC LETTER ALEF WITH RIGHT MIDDLE STROKE" -> 2162
      [] name = "ARABIC LETTER ALEF WITH LEFT MIDDLE STROKE" -> 2163
      [] name = "ARABIC LETTER ALEF WITH ATTACHED KASRA" -> 2164
      [] name = "ARABIC LETTER ALEF WITH ATTACHED BOTTOM RIGHT KASRA" -> 2165
      [] name = "ARABIC LETTER ALEF WITH ATTACHED ROUND DOT ABOVE" -> 2166
      [] name = "ARABIC LETTER ALEF WITH ATTACHED RIGHT ROUND DOT" -> 2167
      [] name = "ARABIC LETTER ALEF WITH ATTACHED LEFT ROUND DOT" -> 2168
      [] name = "ARABIC LETTER ALEF WITH ATTACHED ROUND DOT BELOW" -> 2169
      [] name = "ARABIC LETTER ALEF WITH DOT ABOVE" -> 2170
      [] name = "ARABIC LETTER ALEF WITH ATTACHED TOP RIGHT FATHA AND DOT ABOVE" -> 2171
      [] name = "ARABIC LETTER ALEF WITH RIGHT MIDDLE STROKE AND DOT ABOVE" -> 2172
      [] name = "ARABIC LETTER ALEF WITH ATTACHED BOTTOM RIGHT KASRA AND DOT ABOVE" -> 2173
      [] name = "ARABIC LETTER ALEF WITH ATTACHED TOP RIGHT FATHA AND LEFT RING" -> 2174
      [] name = "ARABIC LETTER ALEF WITH RIGHT MIDDLE STROKE AND LEFT RING" -> 2175
      [] name = "ARABIC LETTER ALEF WITH ATTACHED BOTTOM RIGHT KASRA AND LEFT RING" -> 2176
      [] name = "ARABIC LETTER ALEF WITH ATTACHED RIGHT HAMZA" -> 2177
      [] name = "ARABIC LETTER ALEF WITH ATTACHED LEFT HAMZA" -> 2178
      [] name = "ARABIC TATWEEL WITH OVERSTRUCK HAMZA" -> 2179
      [] name = "ARABIC TATWEEL WITH OVERSTRUCK WAW" -> 2180
      [] name = "ARABIC TATWEEL WITH TWO DOTS BELOW" -> 2181
      [] name = "ARABIC LETTER THIN YEH" -> 2182
      [] name = "ARABIC BASELINE ROUND DOT" -> 2183
      [] name = "ARABIC RAISED ROUND DOT" -> 2184
      [] name = "ARABIC LETTER NOON WITH INVERTED SMALL V" -> 2185
      [] name = "ARABIC LETTER HAH WITH INVERTED SMALL V BELOW" -> 2186
      [] name = "ARABIC LETTER TAH WITH DOT BELOW" -> 2187
      [] name = "ARABIC LETTER TAH WITH THREE DOTS BELOW" -> 2188
      [] name = "ARABIC LETTER KEHEH WITH TWO DOTS VERTICALLY BELOW" -> 2189
      [] name = "ARABIC VERTICAL TAIL" -> 2190
      [] name = "ARABIC POUND MARK ABOVE" -> 2192
      [] name = "ARABIC PIASTRE MARK ABOVE" -> 2193
      [] name = "ARABIC SMALL HIGH WORD AL-JUZ" -> 2200
      [] name = "ARABIC SMALL LOW WORD ISHMAAM" -> 2201
      [] name = "ARABIC SMALL LOW WORD IMAALA" -> 2202
      [] name = "ARABIC SMALL LOW WORD TASHEEL" -> 2203
      [] name = "ARABIC MADDA WAAJIB" -> 2204
      [] name = "ARABIC SUPERSCRIPT ALEF MOKHASSAS" -> 2205
      [] name = "ARABIC DOUBLED MADDA" -> 2206
      [] name = "ARABIC HALF MADDA OVER MADDA" -> 2207
      [] name = "ARABIC LETTER BEH WITH SMALL V BELOW" -> 2208
      [] name = "ARABIC LETTER BEH WITH HAMZA ABOVE" -> 2209
      [] name = "ARABIC LETTER JEEM WITH TWO DOTS ABOVE" -> 2210
      [] name = "ARABIC LETTER TAH WITH TWO DOTS ABOVE" -> 2211
      [] name = "ARABIC LETTER FEH WITH DOT BELOW AND THREE DOTS ABOVE" -> 2212
      [] name = "ARABIC LETTER QAF WITH DOT BELOW" -> 2213
      [] name = "ARABIC LETTER LAM WITH DOUBLE BAR" -> 2214
      [] name = "ARABIC LETTER MEEM WITH THREE DOTS ABOVE" -> 2215
      [] name = "ARABIC LETTER YEH WITH TWO DOTS BELOW AND HAMZA ABOVE" -> 2216
      [] name = "ARABIC LETTER YEH WITH TWO DOTS BELOW AND DOT ABOVE" -> 2217
      [] name = "ARABIC LETTER REH WITH LOOP" -> 2218
      [] name = "ARABIC LETTER WAW WITH DOT WITHIN" -> 2219
      [] name = "ARABIC LETTER ROHINGYA YEH" -> 2220
      [] name = "ARABIC LETTER LOW ALEF" -> 2221
      [] name = "ARABIC LETTER DAL WITH THREE DOTS BELOW" -> 2222
      [] name = "ARABIC LETTER SAD WITH THREE DOTS BELOW" -> 2223
      [] name = "ARABIC LETTER GAF WITH INVERTED STROKE" -> 2224
      [] name = "ARABIC LETTER STRAIGHT WAW" -> 2225
      [] name = "ARABIC LETTER ZAIN WITH INVERTED V ABOVE" -> 2226
      [] name = "ARABIC LETTER AIN WITH THREE DOTS BELOW" -> 2227
      [] name = "ARABIC LETTER KAF WITH DOT BELOW" -> 2228
      [] name = "ARABIC LETTER QAF WITH DOT BELOW AND NO DOTS ABOVE" -> 2229
      [] name = "ARABIC LETTER BEH WITH SMALL MEEM ABOVE" -> 2230
      [] name = "ARABIC LETTER PEH WITH SMALL MEEM ABOVE" -> 2231
      [] name = "ARABIC LETTER TEH WITH SMALL TEH ABOVE" -> 2232
      [] name = "ARABIC LETTER REH WITH SMALL NOON ABOVE" -> 2233
      [] name = "ARABIC LETTER YEH WITH TWO DOTS BELOW AND SMALL NOON ABOVE" -> 2234
      [] name = "ARABIC LETTER AFRICAN FEH" -> 2235
      [] name = "ARABIC LETTER AFRICAN QAF" -> 2236
      [] name = "ARABIC LETTER AFRICAN NOON" -> 2237
      [] name = "ARABIC LETTER PEH WITH SMALL V" -> 2238
      [] name = "ARABIC LETTER TEH WITH SMALL V" -> 2239
      [] name = "ARABIC LETTER TTEH WITH SMALL V" -> 2240
      [] name = "ARABIC LETTER TCHEH WITH SMALL V" -> 2241
      [] name = "ARABIC LETTER KEHEH WITH SMALL V" -> 2242
      [] name = "ARABIC LETTER GHAIN WITH THREE DOTS ABOVE" -> 2243
      [] name = "ARABIC LETTER AFRICAN QAF WITH THREE DOTS ABOVE" -> 2244
      [] name = "ARABIC LETTER JEEM WITH THREE DOTS ABOVE" -> 2245
      [] name = "ARABIC LETTER JEEM WITH THREE DOTS BELOW" -> 2246
      [] name = "ARABIC LETTER LAM WITH SMALL ARABIC LETTER TAH ABOVE" -> 2247
      [] name = "ARABIC LETTER GRAF" -> 2248
      [] name = "ARABIC SMALL FARSI YEH" -> 2249
      [] name = "ARABIC SMALL HIGH FARSI YEH" -> 2250
      [] name = "ARABIC SMALL HIGH YEH BARREE WITH TWO DOTS BELOW" -> 2251
      [] name = "ARABIC SMALL HIGH WORD SAH" -> 2252
      [] name = "ARABIC SMALL HIGH ZAH" -> 2253
      [] name = "ARABIC LARGE ROUND DOT ABOVE" -> 2254
      [] name = "ARABIC LARGE ROUND DOT BELOW" -> 2255
      [] name = "ARABIC SUKUN BELOW" -> 2256
      [] name = "ARABIC LARGE CIRCLE BELOW" -> 2257
      [] name = "ARABIC LARGE ROUND DOT INSIDE CIRCLE BELOW" -> 2258
      [] name = "ARABIC SMALL LOW WAW" -> 2259
      [] name = "ARABIC SMALL HIGH WORD AR-RUB" -> 2260
      [] name = "ARABIC SMALL HIGH SAD" -> 2261
      [] name = "ARABIC SMALL HIGH AIN" -> 2262
      [] name = "ARABIC SMALL HIGH QAF" -> 2263
      [] name = "ARABIC SMALL HIGH NOON WITH KASRA" -> 2264
      [] name = "ARABIC SMALL LOW NOON WITH KASRA" -> 2265
      [] name = "ARABIC SMALL HIGH WORD ATH-THALATHA" -> 2266
      [] name = "ARABIC SMALL HIGH WORD AS-SAJDA" -> 2267
      [] name = "ARABIC SMALL HIGH WORD AN-NISF" -> 2268
      [] name = "ARABIC SMALL HIGH WORD SAKTA" -> 2269
      [] name = "ARABIC SMALL HIGH WORD QIF" -> 2270
      [] name = "ARABIC SMALL HIGH WORD WAQFA" -> 2271
      [] name = "ARABIC SMALL HIGH FOOTNOTE MARKER" -> 2272
      [] name = "ARABIC SMALL HIGH SIGN SAFHA" -> 2273
      [] name = "ARABIC DISPUTED END OF AYAH" -> 2274
      [] name = "ARABIC TURNED DAMMA BELOW" -> 2275
      [] name = "ARABIC CURLY FATHA" -> 2276
      [] name = "ARABIC CURLY DAMMA" -> 2277
      [] name = "ARABIC CURLY KASRA" -> 2278
      [] name = "ARABIC CURLY FATHATAN" -> 2279
      [] name = "ARABIC CURLY DAMMATAN" -> 2280
      [] name = "ARABIC CURLY KASRATAN" -> 2281
      [] name = "ARABIC TONE ONE DOT ABOVE" -> 2282
      [] name = "ARABIC TONE TWO DOTS ABOVE" -> 2283
      [] name = "ARABIC TONE LOOP ABOVE" -> 2284
      [] name = "ARABIC TONE ONE DOT BELOW" -> 2285
      [] name = "ARABIC TONE TWO DOTS BELOW" -> 2286
      [] name = "ARABIC TONE LOOP BELOW" -> 2287
      [] name = "ARABIC OPEN FATHATAN" -> 2288
      [] name = "ARABIC OPEN DAMMATAN" -> 2289
      [] name = "ARABIC OPEN KASRATAN" -> 2290
      [] name = "ARABIC SMALL HIGH WAW" -> 2291
      [] name = "ARABIC FATHA WITH RING" -> 2292
      [] name = "ARABIC FATHA WITH DOT ABOVE" -> 2293
      [] name = "ARABIC KASRA WITH DOT BELOW" -> 2294
      [] name = "ARABIC LEFT ARROWHEAD ABOVE" -> 2295
      [] name = "ARABIC RIGHT ARROWHEAD ABOVE" -> 2296
      [] name = "ARABIC LEFT ARROWHEAD BELOW" -> 2297
      [] name = "ARABIC RIGHT ARROWHEAD BELOW" -> 2298
      [] name = "ARABIC DOUBLE RIGHT ARROWHEAD ABOVE" -> 2299
      [] name = "ARABIC DOUBLE RIGHT ARROWHEAD ABOVE WITH DOT" -> 2300
      [] name = "ARABIC RIGHT ARROWHEAD ABOVE WITH DOT" -> 2301
      [] name = "ARABIC DAMMA WITH DOT" -> 2302
      [] name = "ARABIC MARK SIDEWAYS NOON GHUNNA" -> 2303
      [] name = "DEVANAGARI SIGN INVERTED CANDRABINDU" -> 2304
      [] name = "DEVANAGARI SIGN CANDRABINDU" -> 2305
      [] name = "DEVANAGARI SIGN ANUSVARA" -> 2306
      [] name = "DEVANAGARI SIGN VISARGA" -> 2307
      [] name = "DEVANAGARI LETTER SHORT A" -> 2308
      [] name = "DEVANAGARI LETTER A" -> 2309
      [] name = "DEVANAGARI LETTER AA" -> 2310
      [] name = "DEVANAGARI LETTER I" -> 2311
      [] name = "DEVANAGARI LETTER II" -> 2312
      [] name = "DEVANAGARI LETTER U" -> 2313
      [] name = "DEVANAGARI LETTER UU" -> 2314
      [] name = "DEVANAGARI LETTER VOCALIC R" -> 2315
      [] name = "DEVANAGARI LETTER VOCALIC L" -> 2316
      [] name = "DEVANAGARI LETTER CANDRA E" -> 2317
      [] name = "DEVANAGARI LETTER SHORT E" -> 2318
      [] name = "DEVANAGARI LETTER E" -> 2319
      [] name = "DEVANAGARI LETTER AI" -> 2320
      [] name = "DEVANAGARI LETTER CANDRA O" -> 2321
      [] name = "DEVANAGARI LETTER SHORT O" -> 2322
      [] name = "DEVANAGARI LETTER O" -> 2323
      [] name = "DEVANAGARI LETTER AU" -> 2324
      [] name = "DEVANAGARI LETTER KA" -> 2325
      [] name = "DEVANAGARI LETTER KHA" -> 2326
      [] name = "DEVANAGARI LETTER GA" -> 2327
      [] name = "DEVANAGARI LETTER GHA" -> 2328
      [] name = "DEVANAGARI LETTER NGA" -> 2329
      [] name = "DEVANAGARI LETTER CA" -> 2330
      [] name = "DEVANAGARI LETTER CHA" -> 2331
      [] name = "DEVANAGARI LETTER JA" -> 2332
      [] name = "DEVANAGARI LETTER JHA" -> 2333
      [] name = "DEVANAGARI LETTER NYA" -> 2334
      [] name = "DEVANAGARI LETTER TTA" -> 2335
      [] name = "DEVANAGARI LETTER TTHA" -> 2336
      [] name = "DEVANAGARI LETTER DDA" -> 2337
      [] name = "DEVANAGARI LETTER DDHA" -> 2338
      [] name = "DEVANAGARI LETTER NNA" -> 2339
      [] name = "DEVANAGARI LETTER TA" -> 2340
      [] name = "DEVANAGARI LETTER THA" -> 2341
      [] name = "DEVANAGARI LETTER DA" -> 2342
      [] name = "DEVANAGARI LETTER DHA" -> 2343
      [] name = "DEVANAGARI LETTER NA" -> 2344
      [] name = "DEVANAGARI LETTER NNNA" -> 2345
      [] name = "DEVANAGARI LETTER PA" -> 2346
      [] name = "DEVANAGARI LETTER PHA" -> 2347
      [] name = "DEVANAGARI LETTER BA" -> 2348
      [] name = "DEVANAGARI LETTER BHA" -> 2349
      [] name = "DEVANAGARI LETTER MA" -> 2350
      [] name = "DEVANAGARI LETTER YA" -> 2351
      [] name = "DEVANAGARI LETTER RA" -> 2352
      [] name = "DEVANAGARI LETTER RRA" -> 2353
      [] name = "DEVANAGARI LETTER LA" -> 2354
      [] name = "DEVANAGARI LETTER LLA" -> 2355
      [] name = "DEVANAGARI LETTER LLLA" -> 2356
      [] name = "DEVANAGARI LETTER VA" -> 2357
      [] name = "DEVANAGARI LETTER SHA" -> 2358
      [] name = "DEVANAGARI LETTER SSA" -> 2359
      [] name = "DEVANAGARI LETTER SA" -> 2360
      [] name = "DEVANAGARI LETTER HA" -> 2361
      [] name = "DEVANAGARI VOWEL SIGN OE" -> 2362
      [] name = "DEVANAGARI VOWEL SIGN OOE" -> 2363
      [] name = "DEVANAGARI SIGN NUKTA" -> 2364
      [] name = "DEVANAGARI SIGN AVAGRAHA" -> 2365
      [] name = "DEVANAGARI VOWEL SIGN AA" -> 2366
      [] name = "DEVANAGARI VOWEL SIGN I" -> 2367
      [] name = "DEVANAGARI VOWEL SIGN II" -> 2368
      [] name = "DEVANAGARI VOWEL SIGN U" -> 2369
      [] name = "DEVANAGARI VOWEL SIGN UU" -> 2370
      [] name = "DEVANAGARI VOWEL SIGN VOCALIC R" -> 2371
      [] name = "DEVANAGARI VOWEL SIGN VOCALIC RR" -> 2372
      [] name = "DEVANAGARI VOWEL SIGN CANDRA E" -> 2373
      [] name = "DEVANAGARI VOWEL SIGN SHORT E" -> 2374
      [] name = "DEVANAGARI VOWEL SIGN E" -> 2375
      [] name = "DEVANAGARI VOWEL SIGN AI" -> 2376
      [] name = "DEVANAGARI VOWEL SIGN CANDRA O" -> 2377
      [] name = "DEVANAGARI VOWEL SIGN SHORT O" -> 2378
      [] name = "DEVANAGARI VOWEL SIGN O" -> 2379
      [] name = "DEVANAGARI VOWEL SIGN AU" -> 2380
      [] name = "DEVANAGARI SIGN VIRAMA" -> 2381
      [] name = "DEVANAGARI VOWEL SIGN PRISHTHAMATRA E" -> 2382
      [] name = "DEVANAGARI VOWEL SIGN AW" -> 2383
      [] name = "DEVANAGARI OM" -> 2384
      [] name = "DEVANAGARI STRESS SIGN UDATTA" -> 2385
      [] name = "DEVANAGARI STRESS SIGN ANUDATTA" -> 2386
      [] name = "DEVANAGARI GRAVE ACCENT" -> 2387
      [] name = "DEVANAGARI ACUTE ACCENT" -> 2388
      [] name = "DEVANAGARI VOWEL SIGN CANDRA LONG E" -> 2389
      [] name = "DEVANAGARI VOWEL SIGN UE" -> 2390
      [] name = "DEVANAGARI VOWEL SIGN UUE" -> 2391
      [] name = "DEVANAGARI LETTER QA" -> 2392
      [] name = "DEVANAGARI LETTER KHHA" -> 2393
      [] name = "DEVANAGARI LETTER GHHA" -> 2394
      [] name = "DEVANAGARI LETTER ZA" -> 2395
      [] name = "DEVANAGARI LETTER DDDHA" -> 2396
      [] name = "DEVANAGARI LETTER RHA" -> 2397
      [] name = "DEVANAGARI LETTER FA" -> 2398
      [] name = "DEVANAGARI LETTER YYA" -> 2399
      [] name = "DEVANAGARI LETTER VOCALIC RR" -> 2400
      [] name = "DEVANAGARI LETTER VOCALIC LL" -> 2401
      [] name = "DEVANAGARI VOWEL SIGN VOCALIC L" -> 2402
      [] name = "DEVANAGARI VOWEL SIGN VOCALIC LL" -> 2403
      [] name = "DEVANAGARI DANDA" -> 2404
      [] name = "DEVANAGARI DOUBLE DANDA" -> 2405
      [] name = "DEVANAGARI DIGIT ZERO" -> 2406
      [] name = "DEVANAGARI DIGIT ONE" -> 2407
      [] name = "DEVANAGARI DIGIT TWO" -> 2408
      [] name = "DEVANAGARI DIGIT THREE" -> 2409
      [] name = "DEVANAGARI DIGIT FOUR" -> 2410
      [] name = "DEVANAGARI DIGIT FIVE" -> 2411
      [] name = "DEVANAGARI DIGIT SIX" -> 2412
      [] name = "DEVANAGARI DIGIT SEVEN" -> 2413
      [] name = "DEVANAGARI DIGIT EIGHT" -> 2414
      [] name = "DEVANAGARI DIGIT NINE" -> 2415
      [] name = "DEVANAGARI ABBREVIATION SIGN" -> 2416
      [] name = "DEVANAGARI SIGN HIGH SPACING DOT" -> 2417
      [] name = "DEVANAGARI LETTER CANDRA A" -> 2418
      [] name = "DEVANAGARI LETTER OE" -> 2419
      [] name = "DEVANAGARI LETTER OOE" -> 2420
      [] name = "DEVANAGARI LETTER AW" -> 2421
      [] name = "DEVANAGARI LETTER UE" -> 2422
      [] name = "DEVANAGARI LETTER UUE" -> 2423
      [] name = "DEVANAGARI LETTER MARWARI DDA" -> 2424
      [] name = "DEVANAGARI LETTER ZHA" -> 2425
      [] name = "DEVANAGARI LETTER HEAVY YA" -> 2426
      [] name = "DEVANAGARI LETTER GGA" -> 2427
      [] name = "DEVANAGARI LETTER JJA" -> 2428
      [] name = "DEVANAGARI LETTER GLOTTAL STOP" -> 2429
      [] name = "DEVANAGARI LETTER DDDA" -> 2430
      [] name = "DEVANAGARI LETTER BBA" -> 2431
      [] name = "BENGALI ANJI" -> 2432
      [] name = "BENGALI SIGN CANDRABINDU" -> 2433
      [] name = "BENGALI SIGN ANUSVARA" -> 2434
      [] name = "BENGALI SIGN VISARGA" -> 2435
      [] name = "BENGALI LETTER A" -> 2437
      [] name = "BENGALI LETTER AA" -> 2438
      [] name = "BENGALI LETTER I" -> 2439
      [] name = "BENGALI LETTER II" -> 2440
      [] name = "BENGALI LETTER U" -> 2441
      [] name = "BENGALI LETTER UU" -> 2442
      [] name = "BENGALI LETTER VOCALIC R" -> 2443
      [] name = "BENGALI LETTER VOCALIC L" -> 2444
      [] name = "BENGALI LETTER E" -> 2447
      [] name = "BENGALI LETTER AI" -> 2448
      [] name = "BENGALI LETTER O" -> 2451
      [] name = "BENGALI LETTER AU" -> 2452
      [] name = "BENGALI LETTER KA" -> 2453
      [] name = "BENGALI LETTER KHA" -> 2454
      [] name = "BENGALI LETTER GA" -> 2455
      [] name = "BENGALI LETTER GHA" -> 2456
      [] name = "BENGALI LETTER NGA" -> 2457
      [] name = "BENGALI LETTER CA" -> 2458
      [] name = "BENGALI LETTER CHA" -> 2459
      [] name = "BENGALI LETTER JA" -> 2460
      [] name = "BENGALI LETTER JHA" -> 2461
      [] name = "BENGALI LETTER NYA" -> 2462
      [] name = "BENGALI LETTER TTA" -> 2463
      [] name = "BENGALI LETTER TTHA" -> 2464
      [] name = "BENGALI LETTER DDA" -> 2465
      [] name = "BENGALI LETTER DDHA" -> 2466
      [] name = "BENGALI LETTER NNA" -> 2467
      [] name = "BENGALI LETTER TA" -> 2468
      [] name = "BENGALI LETTER THA" -> 2469
      [] name = "BENGALI LETTER DA" -> 2470
      [] name = "BENGALI LETTER DHA" -> 2471
      [] name = "BENGALI LETTER NA" -> 2472
      [] name = "BENGALI LETTER PA" -> 2474
      [] name = "BENGALI LETTER PHA" -> 2475
      [] name = "BENGALI LETTER BA" -> 2476
      [] name = "BENGALI LETTER BHA" -> 2477
      [] name = "BENGALI LETTER MA" -> 2478
      [] name = "BENGALI LETTER YA" -> 2479
      [] name = "BENGALI LETTER RA" -> 2480
      [] name = "BENGALI LETTER LA" -> 2482
      [] name = "BENGALI LETTER SHA" -> 2486
      [] name = "BENGALI LETTER SSA" -> 2487
      [] name = "BENGALI LETTER SA" -> 2488
      [] name = "BENGALI LETTER HA" -> 2489
      [] name = "BENGALI SIGN NUKTA" -> 2492
      [] name = "BENGALI SIGN AVAGRAHA" -> 2493
      [] name = "BENGALI VOWEL SIGN AA" -> 2494
      [] name = "BENGALI VOWEL SIGN I" -> 2495
      [] name = "BENGALI VOWEL SIGN II" -> 2496
      [] name = "BENGALI VOWEL SIGN U" -> 2497
      [] name = "BENGALI VOWEL SIGN UU" -> 2498
      [] name = "BENGALI VOWEL SIGN VOCALIC R" -> 2499
      [] name = "BENGALI VOWEL SIGN VOCALIC RR" -> 2500
      [] name = "BENGALI VOWEL SIGN E" -> 2503
      [] name = "BENGALI VOWEL SIGN AI" -> 2504
      [] name = "BENGALI VOWEL SIGN O" -> 2507
      [] name = "BENGALI VOWEL SIGN AU" -> 2508
      [] name = "BENGALI SIGN VIRAMA" -> 2509
      [] name = "BENGALI LETTER KHANDA TA" -> 2510
      [] name = "BENGALI AU LENGTH MARK" -> 2519
      [] name = "BENGALI LETTER RRA" -> 2524
      [] name = "BENGALI LETTER RHA" -> 2525
      [] name = "BENGALI LETTER YYA" -> 2527
      [] name = "BENGALI LETTER VOCALIC RR" -> 2528
      [] name = "BENGALI LETTER VOCALIC LL" -> 2529
      [] name = "BENGALI VOWEL SIGN VOCALIC L" -> 2530
      [] name = "BENGALI VOWEL SIGN VOCALIC LL" -> 2531
      [] name = "BENGALI DIGIT ZERO" -> 2534
      [] name = "BENGALI DIGIT ONE" -> 2535
      [] name = "BENGALI DIGIT TWO" -> 2536
      [] name = "BENGALI DIGIT THREE" -> 2537
      [] name = "BENGALI DIGIT FOUR" -> 2538
      [] name = "BENGALI DIGIT FIVE" -> 2539
      [] name = "BENGALI DIGIT SIX" -> 2540
      [] name = "BENGALI DIGIT SEVEN" -> 2541
      [] name = "BENGALI DIGIT EIGHT" -> 2542
      [] name = "BENGALI DIGIT NINE" -> 2543
      [] name = "BENGALI LETTER RA WITH MIDDLE DIAGONAL" -> 2544
      [] name = "BENGALI LETTER RA WITH LOWER DIAGONAL" -> 2545
      [] name = "BENGALI RUPEE MARK" -> 2546
      [] name = "BENGALI RUPEE SIGN" -> 2547
      [] name = "BENGALI CURRENCY NUMERATOR ONE" -> 2548
      [] name = "BENGALI CURRENCY NUMERATOR TWO" -> 2549
      [] name = "BENGALI CURRENCY NUMERATOR THREE" -> 2550
      [] name = "BENGALI CURRENCY NUMERATOR FOUR" -> 2551
      [] name = "BENGALI CURRENCY NUMERATOR ONE LESS THAN THE DENOMINATOR" -> 2552
      [] name = "BENGALI CURRENCY DENOMINATOR SIXTEEN" -> 2553
      [] name = "BENGALI ISSHAR" -> 2554
      [] name = "BENGALI GANDA MARK" -> 2555
      [] name = "BENGALI LETTER VEDIC ANUSVARA" -> 2556
      [] name = "BENGALI ABBREVIATION SIGN" -> 2557
      [] name = "BENGALI SANDHI MARK" -> 2558
      [] name = "GURMUKHI SIGN ADAK BINDI" -> 2561
      [] name = "GURMUKHI SIGN BINDI" -> 2562
      [] name = "GURMUKHI SIGN VISARGA" -> 2563
      [] name = "GURMUKHI LETTER A" -> 2565
      [] name = "GURMUKHI LETTER AA" -> 2566
      [] name = "GURMUKHI LETTER I" -> 2567
      [] name = "GURMUKHI LETTER II" -> 2568
      [] name = "GURMUKHI LETTER U" -> 2569
      [] name = "GURMUKHI LETTER UU" -> 2570
      [] name = "GURMUKHI LETTER EE" -> 2575
      [] name = "GURMUKHI LETTER AI" -> 2576
      [] name = "GURMUKHI LETTER OO" -> 2579
      [] name = "GURMUKHI LETTER AU" -> 2580
      [] name = "GURMUKHI LETTER KA" -> 2581
      [] name = "GURMUKHI LETTER KHA" -> 2582
      [] name = "GURMUKHI LETTER GA" -> 2583
      [] name = "GURMUKHI LETTER GHA" -> 2584
      [] name = "GURMUKHI LETTER NGA" -> 2585
      [] name = "GURMUKHI LETTER CA" -> 2586
      [] name = "GURMUKHI LETTER CHA" -> 2587
      [] name = "GURMUKHI LETTER JA" -> 2588
      [] name = "GURMUKHI LETTER JHA" -> 2589
      [] name = "GURMUKHI LETTER NYA" -> 2590
      [] name = "GURMUKHI LETTER TTA" -> 2591
      [] name = "GURMUKHI LETTER TTHA" -> 2592
      [] name = "GURMUKHI LETTER DDA" -> 2593
      [] name = "GURMUKHI LETTER DDHA" -> 2594
      [] name = "GURMUKHI LETTER NNA" -> 2595
      [] name = "GURMUKHI LETTER TA" -> 2596
      [] name = "GURMUKHI LETTER THA" -> 2597
      [] name = "GURMUKHI LETTER DA" -> 2598
      [] name = "GURMUKHI LETTER DHA" -> 2599
      [] name = "GURMUKHI LETTER NA" -> 2600
      [] name = "GURMUKHI LETTER PA" -> 2602
      [] name = "GURMUKHI LETTER PHA" -> 2603
      [] name = "GURMUKHI LETTER BA" -> 2604
      [] name = "GURMUKHI LETTER BHA" -> 2605
      [] name = "GURMUKHI LETTER MA" -> 2606
      [] name = "GURMUKHI LETTER YA" -> 2607
      [] name = "GURMUKHI LETTER RA" -> 2608
      [] name = "GURMUKHI LETTER LA" -> 2610
      [] name = "GURMUKHI LETTER LLA" -> 2611
      [] name = "GURMUKHI LETTER VA" -> 2613
      [] name = "GURMUKHI LETTER SHA" -> 2614
      [] name = "GURMUKHI LETTER SA" -> 2616
      [] name = "GURMUKHI LETTER HA" -> 2617
      [] name = "GURMUKHI SIGN NUKTA" -> 2620
      [] name = "GURMUKHI VOWEL SIGN AA" -> 2622
      [] name = "GURMUKHI VOWEL SIGN I" -> 2623
      [] name = "GURMUKHI VOWEL SIGN II" -> 2624
      [] name = "GURMUKHI VOWEL SIGN U" -> 2625
      [] name = "GURMUKHI VOWEL SIGN UU" -> 2626
      [] name = "GURMUKHI VOWEL SIGN EE" -> 2631
      [] name = "GURMUKHI VOWEL SIGN AI" -> 2632
      [] name = "GURMUKHI VOWEL SIGN OO" -> 2635
      [] name = "GURMUKHI VOWEL SIGN AU" -> 2636
      [] name = "GURMUKHI SIGN VIRAMA" -> 2637
      [] name = "GURMUKHI SIGN UDAAT" -> 2641
      [] name = "GURMUKHI LETTER KHHA" -> 2649
      [] name = "GURMUKHI LETTER GHHA" -> 2650
      [] name = "GURMUKHI LETTER ZA" -> 2651
      [] name = "GURMUKHI LETTER RRA" -> 2652
      [] name = "GURMUKHI LETTER FA" -> 2654
      [] name = "GURMUKHI DIGIT ZERO" -> 2662
      [] name = "GURMUKHI DIGIT ONE" -> 2663
      [] name = "GURMUKHI DIGIT TWO" -> 2664
      [] name = "GURMUKHI DIGIT THREE" -> 2665
      [] name = "GURMUKHI DIGIT FOUR" -> 2666
      [] name = "GURMUKHI DIGIT FIVE" -> 2667
      [] name = "GURMUKHI DIGIT SIX" -> 2668
      [] name = "GURMUKHI DIGIT SEVEN" -> 2669
      [] name = "GURMUKHI DIGIT EIGHT" -> 2670
      [] name = "GURMUKHI DIGIT NINE" -> 2671
      [] name = "GURMUKHI TIPPI" -> 2672
      [] name = "GURMUKHI ADDAK" -> 2673
      [] name = "GURMUKHI IRI" -> 2674
      [] name = "GURMUKHI URA" -> 2675
      [] name = "GURMUKHI EK ONKAR" -> 2676
      [] name = "GURMUKHI SIGN YAKASH" -> 2677
      [] name = "GURMUKHI ABBREVIATION SIGN" -> 2678
      [] name = "GUJARATI SIGN CANDRABINDU" -> 2689
      [] name = "GUJARATI SIGN ANUSVARA" -> 2690
      [] name = "GUJARATI SIGN VISARGA" -> 2691
      [] name = "GUJARATI LETTER A" -> 2693
      [] name = "GUJARATI LETTER AA" -> 2694
      [] name = "GUJARATI LETTER I" -> 2695
      [] name = "GUJARATI LETTER II" -> 2696
      [] name = "GUJARATI LETTER U" -> 2697
      [] name = "GUJARATI LETTER UU" -> 2698
      [] name = "GUJARATI LETTER VOCALIC R" -> 2699
      [] name = "GUJARATI LETTER VOCALIC L" -> 2700
      [] name = "GUJARATI VOWEL CANDRA E" -> 2701
      [] name = "GUJARATI LETTER E" -> 2703
      [] name = "GUJARATI LETTER AI" -> 2704
      [] name = "GUJARATI VOWEL CANDRA O" -> 2705
      [] name = "GUJARATI LETTER O" -> 2707
      [] name = "GUJARATI LETTER AU" -> 2708
      [] name = "GUJARATI LETTER KA" -> 2709
      [] name = "GUJARATI LETTER KHA" -> 2710
      [] name = "GUJARATI LETTER GA" -> 2711
      [] name = "GUJARATI LETTER GHA" -> 2712
      [] name = "GUJARATI LETTER NGA" -> 2713
      [] name = "GUJARATI LETTER CA" -> 2714
      [] name = "GUJARATI LETTER CHA" -> 2715
      [] name = "GUJARATI LETTER JA" -> 2716
      [] name = "GUJARATI LETTER JHA" -> 2717
      [] name = "GUJARATI LETTER NYA" -> 2718
      [] name = "GUJARATI LETTER TTA" -> 2719
      [] name = "GUJARATI LETTER TTHA" -> 2720
      [] name = "GUJARATI LETTER DDA" -> 2721
      [] name = "GUJARATI LETTER DDHA" -> 2722
      [] name = "GUJARATI LETTER NNA" -> 2723
      [] name = "GUJARATI LETTER TA" -> 2724
      [] name = "GUJARATI LETTER THA" -> 2725
      [] name = "GUJARATI LETTER DA" -> 2726
      [] name = "GUJARATI LETTER DHA" -> 2727
      [] name = "GUJARATI LETTER NA" -> 2728
      [] name = "GUJARATI LETTER PA" -> 2730
      [] name = "GUJARATI LETTER PHA" -> 2731
      [] name = "GUJARATI LETTER BA" -> 2732
      [] name = "GUJARATI LETTER BHA" -> 2733
      [] name = "GUJARATI LETTER MA" -> 2734
      [] name = "GUJARATI LETTER YA" -> 2735
      [] name = "GUJARATI LETTER RA" -> 2736
      [] name = "GUJARATI LETTER LA" -> 2738
      [] name = "GUJARATI LETTER LLA" -> 2739
      [] name = "GUJARATI LETTER VA" -> 2741
      [] name = "GUJARATI LETTER SHA" -> 2742
      [] name = "GUJARATI LETTER SSA" -> 2743
      [] name = "GUJARATI LETTER SA" -> 2744
      [] name = "GUJARATI LETTER HA" -> 2745
      [] name = "GUJARATI SIGN NUKTA" -> 2748
      [] name = "GUJARATI SIGN AVAGRAHA" -> 2749
      [] name = "GUJARATI VOWEL SIGN AA" -> 2750
      [] name = "GUJARATI VOWEL SIGN I" -> 2751
      [] name = "GUJARATI VOWEL SIGN II" -> 2752
      [] name = "GUJARATI VOWEL SIGN U" -> 2753
      [] name = "GUJARATI VOWEL SIGN UU" -> 2754
      [] name = "GUJARATI VOWEL SIGN VOCALIC R" -> 2755
      [] name = "GUJARATI VOWEL SIGN VOCALIC RR" -> 2756
      [] name = "GUJARATI VOWEL SIGN CANDRA E" -> 2757
      [] name = "GUJARATI VOWEL SIGN E" -> 2759
      [] name = "GUJARATI VOWEL SIGN AI" -> 2760
      [] name = "GUJARATI VOWEL SIGN CANDRA O" -> 2761
      [] name = "GUJARATI VOWEL SIGN O" -> 2763
      [] name = "GUJARATI VOWEL SIGN AU" -> 2764
      [] name = "GUJARATI SIGN VIRAMA" -> 2765
      [] name = "GUJARATI OM" -> 2768
      [] name = "GUJARATI LETTER VOCALIC RR" -> 2784
      [] name = "GUJARATI LETTER VOCALIC LL" -> 2785
      [] name = "GUJARATI VOWEL SIGN VOCALIC L" -> 2786
      [] name = "GUJARATI VOWEL SIGN VOCALIC LL" -> 2787
      [] name = "GUJARATI DIGIT ZERO" -> 2790
      [] name = "GUJARATI DIGIT ONE" -> 2791
      [] name = "GUJARATI DIGIT TWO" -> 2792
      [] name = "GUJARATI DIGIT THREE" -> 2793
      [] name = "GUJARATI DIGIT FOUR" -> 2794
      [] name = "GUJARATI DIGIT FIVE" -> 2795
      [] name = "GUJARATI DIGIT SIX" -> 2796
      [] name = "GUJARATI DIGIT SEVEN" -> 2797
      [] name = "GUJARATI DIGIT EIGHT" -> 2798
      [] name = "GUJARATI DIGIT NINE" -> 2799
      [] name = "GUJARATI ABBREVIATION SIGN" -> 2800
      [] name = "GUJARATI RUPEE SIGN" -> 2801
      [] name = "GUJARATI LETTER ZHA" -> 2809
      [] name = "GUJARATI SIGN SUKUN" -> 2810
      [] name = "GUJARATI SIGN SHADDA" -> 2811
      [] name = "GUJARATI SIGN MADDAH" -> 2812
      [] name = "GUJARATI SIGN THREE-DOT NUKTA ABOVE" -> 2813
      [] name = "GUJARATI SIGN CIRCLE NUKTA ABOVE" -> 2814
      [] name = "GUJARATI SIGN TWO-CIRCLE NUKTA ABOVE" -> 2815
      [] name = "ORIYA SIGN CANDRABINDU" -> 2817
      [] name = "ORIYA SIGN ANUSVARA" -> 2818
      [] name = "ORIYA SIGN VISARGA" -> 2819
      [] name = "ORIYA LETTER A" -> 2821
      [] name = "ORIYA LETTER AA" -> 2822
      [] name = "ORIYA LETTER I" -> 2823
      [] name = "ORIYA LETTER II" -> 2824
      [] name = "ORIYA LETTER U" -> 2825
      [] name = "ORIYA LETTER UU" -> 2826
      [] name = "ORIYA LETTER VOCALIC R" -> 2827
      [] name = "ORIYA LETTER VOCALIC L" -> 2828
      [] name = "ORIYA LETTER E" -> 2831
      [] name = "ORIYA LETTER AI" -> 2832
      [] name = "ORIYA LETTER O" -> 2835
      [] name = "ORIYA LETTER AU" -> 2836
      [] name = "ORIYA LETTER KA" -> 2837
      [] name = "ORIYA LETTER KHA" -> 2838
      [] name = "ORIYA LETTER GA" -> 2839
      [] name = "ORIYA LETTER GHA" -> 2840
      [] name = "ORIYA LETTER NGA" -> 2841
      [] name = "ORIYA LETTER CA" -> 2842
      [] name = "ORIYA LETTER CHA" -> 2843
      [] name = "ORIYA LETTER JA" -> 2844
      [] name = "ORIYA LETTER JHA" -> 2845
      [] name = "ORIYA LETTER NYA" -> 2846
      [] name = "ORIYA LETTER TTA" -> 2847
      [] name = "ORIYA LETTER TTHA" -> 2848
      [] name = "ORIYA LETTER DDA" -> 2849
      [] name = "ORIYA LETTER DDHA" -> 2850
      [] name = "ORIYA LETTER NNA" -> 2851
      [] name = "ORIYA LETTER TA" -> 2852
      [] name = "ORIYA LETTER THA" -> 2853
      [] name = "ORIYA LETTER DA" -> 2854
      [] name = "ORIYA LETTER DHA" -> 2855
      [] name = "ORIYA LETTER NA" -> 2856
      [] name = "ORIYA LETTER PA" -> 2858
      [] name = "ORIYA LETTER PHA" -> 2859
      [] name = "ORIYA LETTER BA" -> 2860
      [] name = "ORIYA LETTER BHA" -> 2861
      [] name = "ORIYA LETTER MA" -> 2862
      [] name = "ORIYA LETTER YA" -> 2863
      [] name = "ORIYA LETTER RA" -> 2864
      [] name = "ORIYA LETTER LA" -> 2866
      [] name = "ORIYA LETTER LLA" -> 2867
      [] name = "ORIYA LETTER VA" -> 2869
      [] name = "ORIYA LETTER SHA" -> 2870
      [] name = "ORIYA LETTER SSA" -> 2871
      [] name = "ORIYA LETTER SA" -> 2872
      [] name = "ORIYA LETTER HA" -> 2873
      [] name = "ORIYA SIGN NUKTA" -> 2876
      [] name = "ORIYA SIGN AVAGRAHA" -> 2877
      [] name = "ORIYA VOWEL SIGN AA" -> 2878
      [] name = "ORIYA VOWEL SIGN I" -> 2879
      [] name = "ORIYA VOWEL SIGN II" -> 2880
      [] name = "ORIYA VOWEL SIGN U" -> 2881
      [] name = "ORIYA VOWEL SIGN UU" -> 2882
      [] name = "ORIYA VOWEL SIGN VOCALIC R" -> 2883
      [] name = "ORIYA VOWEL SIGN VOCALIC RR" -> 2884
      [] name = "ORIYA VOWEL SIGN E" -> 2887
      [] name = "ORIYA VOWEL SIGN AI" -> 2888
      [] name = "ORIYA VOWEL SIGN O" -> 2891
      [] name = "ORIYA VOWEL SIGN AU" -> 2892
      [] name = "ORIYA SIGN VIRAMA" -> 2893
      [] name = "ORIYA SIGN OVERLINE" -> 2901
      [] name = "ORIYA AI LENGTH MARK" -> 2902
      [] name = "ORIYA AU LENGTH MARK" -> 2903
      [] name = "ORIYA LETTER RRA" -> 2908
      [] name = "ORIYA LETTER RHA" -> 2909
      [] name = "ORIYA LETTER YYA" -> 2911
      [] name = "ORIYA LETTER VOCALIC RR" -> 2912
      [] name = "ORIYA LETTER VOCALIC LL" -> 2913
      [] name = "ORIYA VOWEL SIGN VOCALIC L" -> 2914
      [] name = "ORIYA VOWEL SIGN VOCALIC LL" -> 2915
      [] name = "ORIYA DIGIT ZERO" -> 2918
      [] name = "ORIYA DIGIT ONE" -> 2919
      [] name = "ORIYA DIGIT TWO" -> 2920
      [] name = "ORIYA DIGIT THREE" -> 2921
      [] name = "ORIYA DIGIT FOUR" -> 2922
      [] name = "ORIYA DIGIT FIVE" -> 2923
      [] name = "ORIYA DIGIT SIX" -> 2924
      [] name = "ORIYA DIGIT SEVEN" -> 2925
      [] name = "ORIYA DIGIT EIGHT" -> 2926
      [] name = "ORIYA DIGIT NINE" -> 2927
      [] name = "ORIYA ISSHAR" -> 2928
      [] name = "ORIYA LETTER WA" -> 2929
      [] name = "ORIYA FRACTION ONE QUARTER" -> 2930
      [] name = "ORIYA FRACTION ONE HALF" -> 2931
      [] name = "ORIYA FRACTION THREE QUARTERS" -> 2932
      [] name = "ORIYA FRACTION ONE SIXTEENTH" -> 2933
      [] name = "ORIYA FRACTION ONE EIGHTH" -> 2934
      [] name = "ORIYA FRACTION THREE SIXTEENTHS" -> 2935
      [] name = "TAMIL SIGN ANUSVARA" -> 2946
      [] name = "TAMIL SIGN VISARGA" -> 2947
      [] name = "TAMIL LETTER A" -> 2949
      [] name = "TAMIL LETTER AA" -> 2950
      [] name = "TAMIL LETTER I" -> 2951
      [] name = "TAMIL LETTER II" -> 2952
      [] name = "TAMIL LETTER U" -> 2953
      [] name = "TAMIL LETTER UU" -> 2954
      [] name = "TAMIL LETTER E" -> 2958
      [] name = "TAMIL LETTER EE" -> 2959
      [] name = "TAMIL LETTER AI" -> 2960
      [] name = "TAMIL LETTER O" -> 2962
      [] name = "TAMIL LETTER OO" -> 2963
      [] name = "TAMIL LETTER AU" -> 2964
      [] name = "TAMIL LETTER KA" -> 2965
      [] name = "TAMIL LETTER NGA" -> 2969
      [] name = "TAMIL LETTER CA" -> 2970
      [] name = "TAMIL LETTER JA" -> 2972
      [] name = "TAMIL LETTER NYA" -> 2974
      [] name = "TAMIL LETTER TTA" -> 2975
      [] name = "TAMIL LETTER NNA" -> 2979
      [] name = "TAMIL LETTER TA" -> 2980
      [] name = "TAMIL LETTER NA" -> 2984
      [] name = "TAMIL LETTER NNNA" -> 2985
      [] name = "TAMIL LETTER PA" -> 2986
      [] name = "TAMIL LETTER MA" -> 2990
      [] name = "TAMIL LETTER YA" -> 2991
      [] name = "TAMIL LETTER RA" -> 2992
      [] name = "TAMIL LETTER RRA" -> 2993
      [] name = "TAMIL LETTER LA" -> 2994
      [] name = "TAMIL LETTER LLA" -> 2995
      [] name = "TAMIL LETTER LLLA" -> 2996
      [] name = "TAMIL LETTER VA" -> 2997
      [] name = "TAMIL LETTER SHA" -> 2998
      [] name = "TAMIL LETTER SSA" -> 2999
      [] name = "TAMIL LETTER SA" -> 3000
      [] name = "TAMIL LETTER HA" -> 3001
      [] name = "TAMIL VOWEL SIGN AA" -> 3006
      [] name = "TAMIL VOWEL SIGN I" -> 3007
      [] name = "TAMIL VOWEL SIGN II" -> 3008
      [] name = "TAMIL VOWEL SIGN U" -> 3009
      [] name = "TAMIL VOWEL SIGN UU" -> 3010
      [] name = "TAMIL VOWEL SIGN E" -> 3014
      [] name = "TAMIL VOWEL SIGN EE" -> 3015
      [] name = "TAMIL VOWEL SIGN AI" -> 3016
      [] name = "TAMIL VOWEL SIGN O" -> 3018
      [] name = "TAMIL VOWEL SIGN OO" -> 3019
      [] name = "TAMIL VOWEL SIGN AU" -> 3020
      [] name = "TAMIL SIGN VIRAMA" -> 3021
      [] name = "TAMIL OM" -> 3024
      [] name = "TAMIL AU LENGTH MARK" -> 3031
      [] name = "TAMIL DIGIT ZERO" -> 3046
      [] name = "TAMIL DIGIT ONE" -> 3047
      [] name = "TAMIL DIGIT TWO" -> 3048
      [] name = "TAMIL DIGIT THREE" -> 3049
      [] name = "TAMIL DIGIT FOUR" -> 3050
      [] name = "TAMIL DIGIT FIVE" -> 3051
      [] name = "TAMIL DIGIT SIX" -> 3052
      [] name = "TAMIL DIGIT SEVEN" -> 3053
      [] name = "TAMIL DIGIT EIGHT" -> 3054
      [] name = "TAMIL DIGIT NINE" -> 3055
      [] name = "TAMIL NUMBER TEN" -> 3056
      [] name = "TAMIL NUMBER ONE HUNDRED" -> 3057
      [] name = "TAMIL NUMBER ONE THOUSAND" -> 3058
      [] name = "TAMIL DAY SIGN" -> 3059
      [] name = "TAMIL MONTH SIGN" -> 3060
      [] name = "TAMIL YEAR SIGN" -> 3061
      [] name = "TAMIL DEBIT SIGN" -> 3062
      [] name = "TAMIL CREDIT SIGN" -> 3063
      [] name = "TAMIL AS ABOVE SIGN" -> 3064
      [] name = "TAMIL RUPEE SIGN" -> 3065
      [] name = "TAMIL NUMBER SIGN" -> 3066
      [] name = "TELUGU SIGN COMBINING CANDRABINDU ABOVE" -> 3072
      [] name = "TELUGU SIGN CANDRABINDU" -> 3073
      [] name = "TELUGU SIGN ANUSVARA" -> 3074
      [] name = "TELUGU SIGN VISARGA" -> 3075
      [] name = "TELUGU SIGN COMBINING ANUSVARA ABOVE" -> 3076
      [] name = "TELUGU LETTER A" -> 3077
      [] name = "TELUGU LETTER AA" -> 3078
      [] name = "TELUGU LETTER I" -> 3079
      [] name = "TELUGU LETTER II" -> 3080
      [] name = "TELUGU LETTER U" -> 3081
      [] name = "TELUGU LETTER UU" -> 3082
      [] name = "TELUGU LETTER VOCALIC R" -> 3083
      [] name = "TELUGU LETTER VOCALIC L" -> 3084
      [] name = "TELUGU LETTER E" -> 3086
      [] name = "TELUGU LETTER EE" -> 3087
      [] name = "TELUGU LETTER AI" -> 3088
      [] name = "TELUGU LETTER O" -> 3090
      [] name = "TELUGU LETTER OO" -> 3091
      [] name = "TELUGU LETTER AU" -> 3092
      [] name = "TELUGU LETTER KA" -> 3093
      [] name = "TELUGU LETTER KHA" -> 3094
      [] name = "TELUGU LETTER GA" -> 3095
      [] name = "TELUGU LETTER GHA" -> 3096
      [] name = "TELUGU LETTER NGA" -> 3097
      [] name = "TELUGU LETTER CA" -> 3098
      [] name = "TELUGU LETTER CHA" -> 3099
      [] name = "TELUGU LETTER JA" -> 3100
      [] name = "TELUGU LETTER JHA" -> 3101
      [] name = "TELUGU LETTER NYA" -> 3102
      [] name = "TELUGU LETTER TTA" -> 3103
      [] name = "TELUGU LETTER TTHA" -> 3104
      [] name = "TELUGU LETTER DDA" -> 3105
      [] name = "TELUGU LETTER DDHA" -> 3106
      [] name = "TELUGU LETTER NNA" -> 3107
      [] name = "TELUGU LETTER TA" -> 3108
      [] name = "TELUGU LETTER THA" -> 3109
      [] name = "TELUGU LETTER DA" -> 3110
      [] name = "TELUGU LETTER DHA" -> 3111
      [] name = "TELUGU LETTER NA" -> 3112
      [] name = "TELUGU LETTER PA" -> 3114
      [] name = "TELUGU LETTER PHA" -> 3115
      [] name = "TELUGU LETTER BA" -> 3116
      [] name = "TELUGU LETTER BHA" -> 3117
      [] name = "TELUGU LETTER MA" -> 3118
      [] name = "TELUGU LETTER YA" -> 3119
      [] name = "TELUGU LETTER RA" -> 3120
      [] name = "TELUGU LETTER RRA" -> 3121
      [] name = "TELUGU LETTER LA" -> 3122
      [] name = "TELUGU LETTER LLA" -> 3123
      [] name = "TELUGU LETTER LLLA" -> 3124
      [] name = "TELUGU LETTER VA" -> 3125
      [] name = "TELUGU LETTER SHA" -> 3126
      [] name = "TELUGU LETTER SSA" -> 3127
      [] name = "TELUGU LETTER SA" -> 3128
      [] name = "TELUGU LETTER HA" -> 3129
      [] name = "TELUGU SIGN NUKTA" -> 3132
      [] name = "TELUGU SIGN AVAGRAHA" -> 3133
      [] name = "TELUGU VOWEL SIGN AA" -> 3134
      [] name = "TELUGU VOWEL SIGN I" -> 3135
      [] name = "TELUGU VOWEL SIGN II" -> 3136
      [] name = "TELUGU VOWEL SIGN U" -> 3137
      [] name = "TELUGU VOWEL SIGN UU" -> 3138
      [] name = "TELUGU VOWEL SIGN VOCALIC R" -> 3139
      [] name = "TELUGU VOWEL SIGN VOCALIC RR" -> 3140
      [] name = "TELUGU VOWEL SIGN E" -> 3142
      [] name = "TELUGU VOWEL SIGN EE" -> 3143
      [] name = "TELUGU VOWEL SIGN AI" -> 3144
      [] name = "TELUGU VOWEL SIGN O" -> 3146
      [] name = "TELUGU VOWEL SIGN OO" -> 3147
      [] name = "TELUGU VOWEL SIGN AU" -> 3148
      [] name = "TELUGU SIGN VIRAMA" -> 3149
      [] name = "TELUGU LENGTH MARK" -> 3157
      [] name = "TELUGU AI LENGTH MARK" -> 3158
      [] name = "TELUGU LETTER TSA" -> 3160
      [] name = "TELUGU LETTER DZA" -> 3161
      [] name = "TELUGU LETTER RRRA" -> 3162
      [] name = "TELUGU LETTER NAKAARA POLLU" -> 3165
      [] name = "TELUGU LETTER VOCALIC RR" -> 3168
      [] name = "TELUGU LETTER VOCALIC LL" -> 3169
      [] name = "TELUGU VOWEL SIGN VOCALIC L" -> 3170
      [] name = "TELUGU VOWEL SIGN VOCALIC LL" -> 3171
      [] name = "TELUGU DIGIT ZERO" -> 3174
      [] name = "TELUGU DIGIT ONE" -> 3175
      [] name = "TELUGU DIGIT TWO" -> 3176
      [] name = "TELUGU DIGIT THREE" -> 3177
      [] name = "TELUGU DIGIT FOUR" -> 3178
      [] name = "TELUGU DIGIT FIVE" -> 3179
      [] name = "TELUGU DIGIT SIX" -> 3180
      [] name = "TELUGU DIGIT SEVEN" -> 3181
      [] name = "TELUGU DIGIT EIGHT" -> 3182
      [] name = "TELUGU DIGIT NINE" -> 3183
      [] name = "TELUGU SIGN SIDDHAM" -> 3191
      [] name = "TELUGU FRACTION DIGIT ZERO FOR ODD POWERS OF FOUR" -> 3192
      [] name = "TELUGU FRACTION DIGIT ONE FOR ODD POWERS OF FOUR" -> 3193
      [] name = "TELUGU FRACTION DIGIT TWO FOR ODD POWERS OF FOUR" -> 3194
      [] name = "TELUGU FRACTION DIGIT THREE FOR ODD POWERS OF FOUR" -> 3195
      [] name = "TELUGU FRACTION DIGIT ONE FOR EVEN POWERS OF FOUR" -> 3196
      [] name = "TELUGU FRACTION DIGIT TWO FOR EVEN POWERS OF FOUR" -> 3197
      [] name = "TELUGU FRACTION DIGIT THREE FOR EVEN POWERS OF FOUR" -> 3198
      [] name = "TELUGU SIGN TUUMU" -> 3199
      [] name = "KANNADA SIGN SPACING CANDRABINDU" -> 3200
      [] name = "KANNADA SIGN CANDRABINDU" -> 3201
      [] name = "KANNADA SIGN ANUSVARA" -> 3202
      [] name = "KANNADA SIGN VISARGA" -> 3203
      [] name = "KANNADA SIGN SIDDHAM" -> 3204
      [] name = "KANNADA LETTER A" -> 3205
      [] name = "KANNADA LETTER AA" -> 3206
      [] name = "KANNADA LETTER I" -> 3207
      [] name = "KANNADA LETTER II" -> 3208
      [] name = "KANNADA LETTER U" -> 3209
      [] name = "KANNADA LETTER UU" -> 3210
      [] name = "KANNADA LETTER VOCALIC R" -> 3211
      [] name = "KANNADA LETTER VOCALIC L" -> 3212
      [] name = "KANNADA LETTER E" -> 3214
      [] name = "KANNADA LETTER EE" -> 3215
      [] name = "KANNADA LETTER AI" -> 3216
      [] name = "KANNADA LETTER O" -> 3218
      [] name = "KANNADA LETTER OO" -> 3219
      [] name = "KANNADA LETTER AU" -> 3220
      [] name = "KANNADA LETTER KA" -> 3221
      [] name = "KANNADA LETTER KHA" -> 3222
      [] name = "KANNADA LETTER GA" -> 3223
      [] name = "KANNADA LETTER GHA" -> 3224
      [] name = "KANNADA LETTER NGA" -> 3225
      [] name = "KANNADA LETTER CA" -> 3226
      [] name = "KANNADA LETTER CHA" -> 3227
      [] name = "KANNADA LETTER JA" -> 3228
      [] name = "KANNADA LETTER JHA" -> 3229
      [] name = "KANNADA LETTER NYA" -> 3230
      [] name = "KANNADA LETTER TTA" -> 3231
      [] name = "KANNADA LETTER TTHA" -> 3232
      [] name = "KANNADA LETTER DDA" -> 3233
      [] name = "KANNADA LETTER DDHA" -> 3234
      [] name = "KANNADA LETTER NNA" -> 3235
      [] name = "KANNADA LETTER TA" -> 3236
      [] name = "KANNADA LETTER THA" -> 3237
      [] name = "KANNADA LETTER DA" -> 3238
      [] name = "KANNADA LETTER DHA" -> 3239
      [] name = "KANNADA LETTER NA" -> 3240
      [] name = "KANNADA LETTER PA" -> 3242
      [] name = "KANNADA LETTER PHA" -> 3243
      [] name = "KANNADA LETTER BA" -> 3244
      [] name = "KANNADA LETTER BHA" -> 3245
      [] name = "KANNADA LETTER MA" -> 3246
      [] name = "KANNADA LETTER YA" -> 3247
      [] name = "KANNADA LETTER RA" -> 3248
      [] name = "KANNADA LETTER RRA" -> 3249
      [] name = "KANNADA LETTER LA" -> 3250
      [] name = "KANNADA LETTER LLA" -> 3251
      [] name = "KANNADA LETTER VA" -> 3253
      [] name = "KANNADA LETTER SHA" -> 3254
      [] name = "KANNADA LETTER SSA" -> 3255
      [] name = "KANNADA LETTER SA" -> 3256
      [] name = "KANNADA LETTER HA" -> 3257
      [] name = "KANNADA SIGN NUKTA" -> 3260
      [] name = "KANNADA SIGN AVAGRAHA" -> 3261
      [] name = "KANNADA VOWEL SIGN AA" -> 3262
      [] name = "KANNADA VOWEL SIGN I" -> 3263
      [] name = "KANNADA VOWEL SIGN II" -> 3264
      [] name = "KANNADA VOWEL SIGN U" -> 3265
      [] name = "KANNADA VOWEL SIGN UU" -> 3266
      [] name = "KANNADA VOWEL SIGN VOCALIC R" -> 3267
      [] name = "KANNADA VOWEL SIGN VOCALIC RR" -> 3268
      [] name = "KANNADA VOWEL SIGN E" -> 3270
      [] name = "KANNADA VOWEL SIGN EE" -> 3271
      [] name = "KANNADA VOWEL SIGN AI" -> 3272
      [] name = "KANNADA VOWEL SIGN O" -> 3274
      [] name = "KANNADA VOWEL SIGN OO" -> 3275
      [] name = "KANNADA VOWEL SIGN AU" -> 3276
      [] name = "KANNADA SIGN VIRAMA" -> 3277
      [] name = "KANNADA LENGTH MARK" -> 3285
      [] name = "KANNADA AI LENGTH MARK" -> 3286
      [] name = "KANNADA LETTER NAKAARA POLLU" -> 3293
      [] name = "KANNADA LETTER FA" -> 3294
      [] name = "KANNADA LETTER LLLA" -> 3294
      [] name = "KANNADA LETTER VOCALIC RR" -> 3296
      [] name = "KANNADA LETTER VOCALIC LL" -> 3297
      [] name = "KANNADA VOWEL SIGN VOCALIC L" -> 3298
      [] name = "KANNADA VOWEL SIGN VOCALIC LL" -> 3299
      [] name = "KANNADA DIGIT ZERO" -> 3302
      [] name = "KANNADA DIGIT ONE" -> 3303
      [] name = "KANNADA DIGIT TWO" -> 3304
      [] name = "KANNADA DIGIT THREE" -> 3305
      [] name = "KANNADA DIGIT FOUR" -> 3306
      [] name = "KANNADA DIGIT FIVE" -> 3307
      [] name = "KANNADA DIGIT SIX" -> 3308
      [] name = "KANNADA DIGIT SEVEN" -> 3309
      [] name = "KANNADA DIGIT EIGHT" -> 3310
      [] name = "KANNADA DIGIT NINE" -> 3311
      [] name = "KANNADA SIGN JIHVAMULIYA" -> 3313
      [] name = "KANNADA SIGN UPADHMANIYA" -> 3314
      [] name = "MALAYALAM SIGN COMBINING ANUSVARA ABOVE" -> 3328
      [] name = "MALAYALAM SIGN CANDRABINDU" -> 3329
      [] name = "MALAYALAM SIGN ANUSVARA" -> 3330
      [] name = "MALAYALAM SIGN VISARGA" -> 3331
      [] name = "MALAYALAM LETTER VEDIC ANUSVARA" -> 3332
      [] name = "MALAYALAM LETTER A" -> 3333
      [] name = "MALAYALAM LETTER AA" -> 3334
      [] name = "MALAYALAM LETTER I" -> 3335
      [] name = "MALAYALAM LETTER II" -> 3336
      [] name = "MALAYALAM LETTER U" -> 3337
      [] name = "MALAYALAM LETTER UU" -> 3338
      [] name = "MALAYALAM LETTER VOCALIC R" -> 3339
      [] name = "MALAYALAM LETTER VOCALIC L" -> 3340
      [] name = "MALAYALAM LETTER E" -> 3342
      [] name = "MALAYALAM LETTER EE" -> 3343
      [] name = "MALAYALAM LETTER AI" -> 3344
      [] name = "MALAYALAM LETTER O" -> 3346
      [] name = "MALAYALAM LETTER OO" -> 3347
      [] name = "MALAYALAM LETTER AU" -> 3348
      [] name = "MALAYALAM LETTER KA" -> 3349
      [] name = "MALAYALAM LETTER KHA" -> 3350
      [] name = "MALAYALAM LETTER GA" -> 3351
      [] name = "MALAYALAM LETTER GHA" -> 3352
      [] name = "MALAYALAM LETTER NGA" -> 3353
      [] name = "MALAYALAM LETTER CA" -> 3354
      [] name = "MALAYALAM LETTER CHA" -> 3355
      [] name = "MALAYALAM LETTER JA" -> 3356
      [] name = "MALAYALAM LETTER JHA" -> 3357
      [] name = "MALAYALAM LETTER NYA" -> 3358
      [] name = "MALAYALAM LETTER TTA" -> 3359
      [] name = "MALAYALAM LETTER TTHA" -> 3360
      [] name = "MALAYALAM LETTER DDA" -> 3361
      [] name = "MALAYALAM LETTER DDHA" -> 3362
      [] name = "MALAYALAM LETTER NNA" -> 3363
      [] name = "MALAYALAM LETTER TA" -> 3364
      [] name = "MALAYALAM LETTER THA" -> 3365
      [] name = "MALAYALAM LETTER DA" -> 3366
      [] name = "MALAYALAM LETTER DHA" -> 3367
      [] name = "MALAYALAM LETTER NA" -> 3368
      [] name = "MALAYALAM LETTER NNNA" -> 3369
      [] name = "MALAYALAM LETTER PA" -> 3370
      [] name = "MALAYALAM LETTER PHA" -> 3371
      [] name = "MALAYALAM LETTER BA" -> 3372
      [] name = "MALAYALAM LETTER BHA" -> 3373
      [] name = "MALAYALAM LETTER MA" -> 3374
      [] name = "MALAYALAM LETTER YA" -> 3375
      [] name = "MALAYALAM LETTER RA" -> 3376
      [] name = "MALAYALAM LETTER RRA" -> 3377
      [] name = "MALAYALAM LETTER LA" -> 3378
      [] name = "MALAYALAM LETTER LLA" -> 3379
      [] name = "MALAYALAM LETTER LLLA" -> 3380
      [] name = "MALAYALAM LETTER VA" -> 3381
      [] name = "MALAYALAM LETTER SHA" -> 3382
      [] name = "MALAYALAM LETTER SSA" -> 3383
      [] name = "MALAYALAM LETTER SA" -> 3384
      [] name = "MALAYALAM LETTER HA" -> 3385
      [] name = "MALAYALAM LETTER TTTA" -> 3386
      [] name = "MALAYALAM SIGN VERTICAL BAR VIRAMA" -> 3387
      [] name = "MALAYALAM SIGN CIRCULAR VIRAMA" -> 3388
      [] name = "MALAYALAM SIGN AVAGRAHA" -> 3389
      [] name = "MALAYALAM VOWEL SIGN AA" -> 3390
      [] name = "MALAYALAM VOWEL SIGN I" -> 3391
      [] name = "MALAYALAM VOWEL SIGN II" -> 3392
      [] name = "MALAYALAM VOWEL SIGN U" -> 3393
      [] name = "MALAYALAM VOWEL SIGN UU" -> 3394
      [] name = "MALAYALAM VOWEL SIGN VOCALIC R" -> 3395
      [] name = "MALAYALAM VOWEL SIGN VOCALIC RR" -> 3396
      [] name = "MALAYALAM VOWEL SIGN E" -> 3398
      [] name = "MALAYALAM VOWEL SIGN EE" -> 3399
      [] name = "MALAYALAM VOWEL SIGN AI" -> 3400
      [] name = "MALAYALAM VOWEL SIGN O" -> 3402
      [] name = "MALAYALAM VOWEL SIGN OO" -> 3403
      [] name = "MALAYALAM VOWEL SIGN AU" -> 3404
      [] name = "MALAYALAM SIGN VIRAMA" -> 3405
      [] name = "MALAYALAM LETTER DOT REPH" -> 3406
      [] name = "MALAYALAM SIGN PARA" -> 3407
      [] name = "MALAYALAM LETTER CHILLU M" -> 3412
      [] name = "MALAYALAM LETTER CHILLU Y" -> 3413
      [] name = "MALAYALAM LETTER CHILLU LLL" -> 3414
      [] name = "MALAYALAM AU LENGTH MARK" -> 3415
      [] name = "MALAYALAM FRACTION ONE ONE-HUNDRED-AND-SIXTIETH" -> 3416
      [] name = "MALAYALAM FRACTION ONE FORTIETH" -> 3417
      [] name = "MALAYALAM FRACTION THREE EIGHTIETHS" -> 3418
      [] name = "MALAYALAM FRACTION ONE TWENTIETH" -> 3419
      [] name = "MALAYALAM FRACTION ONE TENTH" -> 3420
      [] name = "MALAYALAM FRACTION THREE TWENTIETHS" -> 3421
      [] name = "MALAYALAM FRACTION ONE FIFTH" -> 3422
      [] name = "MALAYALAM LETTER ARCHAIC II" -> 3423
      [] name = "MALAYALAM LETTER VOCALIC RR" -> 3424
      [] name = "MALAYALAM LETTER VOCALIC LL" -> 3425
      [] name = "MALAYALAM VOWEL SIGN VOCALIC L" -> 3426
      [] name = "MALAYALAM VOWEL SIGN VOCALIC LL" -> 3427
      [] name = "MALAYALAM DIGIT ZERO" -> 3430
      [] name = "MALAYALAM DIGIT ONE" -> 3431
      [] name = "MALAYALAM DIGIT TWO" -> 3432
      [] name = "MALAYALAM DIGIT THREE" -> 3433
      [] name = "MALAYALAM DIGIT FOUR" -> 3434
      [] name = "MALAYALAM DIGIT FIVE" -> 3435
      [] name = "MALAYALAM DIGIT SIX" -> 3436
      [] name = "MALAYALAM DIGIT SEVEN" -> 3437
      [] name = "MALAYALAM DIGIT EIGHT" -> 3438
      [] name = "MALAYALAM DIGIT NINE" -> 3439
      [] name = "MALAYALAM NUMBER TEN" -> 3440
      [] name = "MALAYALAM NUMBER ONE HUNDRED" -> 3441
      [] name = "MALAYALAM NUMBER ONE THOUSAND" -> 3442
      [] name = "MALAYALAM FRACTION ONE QUARTER" -> 3443
      [] name = "MALAYALAM FRACTION ONE HALF" -> 3444
      [] name = "MALAYALAM FRACTION THREE QUARTERS" -> 3445
      [] name = "MALAYALAM FRACTION ONE SIXTEENTH" -> 3446
      [] name = "MALAYALAM FRACTION ONE EIGHTH" -> 3447
      [] name = "MALAYALAM FRACTION THREE SIXTEENTHS" -> 3448
      [] name = "MALAYALAM DATE MARK" -> 3449
      [] name = "MALAYALAM LETTER CHILLU NN" -> 3450
      [] name = "MALAYALAM LETTER CHILLU N" -> 3451
      [] name = "MALAYALAM LETTER CHILLU RR" -> 3452
      [] name = "MALAYALAM LETTER CHILLU L" -> 3453
      [] name = "MALAYALAM LETTER CHILLU LL" -> 3454
      [] name = "MALAYALAM LETTER CHILLU K" -> 3455
      [] name = "SINHALA SIGN CANDRABINDU" -> 3457
      [] name = "SINHALA SIGN ANUSVARAYA" -> 3458
      [] name = "SINHALA SIGN VISARGAYA" -> 3459
      [] name = "SINHALA LETTER AYANNA" -> 3461
      [] name = "SINHALA LETTER AAYANNA" -> 3462
      [] name = "SINHALA LETTER AEYANNA" -> 3463
      [] name = "SINHALA LETTER AEEYANNA" -> 3464
      [] name = "SINHALA LETTER IYANNA" -> 3465
      [] name = "SINHALA LETTER IIYANNA" -> 3466
      [] name = "SINHALA LETTER UYANNA" -> 3467
      [] name = "SINHALA LETTER UUYANNA" -> 3468
      [] name = "SINHALA LETTER IRUYANNA" -> 3469
      [] name = "SINHALA LETTER IRUUYANNA" -> 3470
      [] name = "SINHALA LETTER ILUYANNA" -> 3471
      [] name = "SINHALA LETTER ILUUYANNA" -> 3472
      [] name = "SINHALA LETTER EYANNA" -> 3473
      [] name = "SINHALA LETTER EEYANNA" -> 3474
      [] name = "SINHALA LETTER AIYANNA" -> 3475
      [] name = "SINHALA LETTER OYANNA" -> 3476
      [] name = "SINHALA LETTER OOYANNA" -> 3477
      [] name = "SINHALA LETTER AUYANNA" -> 3478
      [] name = "SINHALA LETTER ALPAPRAANA KAYANNA" -> 3482
      [] name = "SINHALA LETTER MAHAAPRAANA KAYANNA" -> 3483
      [] name = "SINHALA LETTER ALPAPRAANA GAYANNA" -> 3484
      [] name = "SINHALA LETTER MAHAAPRAANA GAYANNA" -> 3485
      [] name = "SINHALA LETTER KANTAJA NAASIKYAYA" -> 3486
      [] name = "SINHALA LETTER SANYAKA GAYANNA" -> 3487
      [] name = "SINHALA LETTER ALPAPRAANA CAYANNA" -> 3488
      [] name = "SINHALA LETTER MAHAAPRAANA CAYANNA" -> 3489
      [] name = "SINHALA LETTER ALPAPRAANA JAYANNA" -> 3490
      [] name = "SINHALA LETTER MAHAAPRAANA JAYANNA" -> 3491
      [] name = "SINHALA LETTER TAALUJA NAASIKYAYA" -> 3492
      [] name = "SINHALA LETTER TAALUJA SANYOOGA NAAKSIKYAYA" -> 3493
      [] name = "SINHALA LETTER SANYAKA JAYANNA" -> 3494
      [] name = "SINHALA LETTER ALPAPRAANA TTAYANNA" -> 3495
      [] name = "SINHALA LETTER MAHAAPRAANA TTAYANNA" -> 3496
      [] name = "SINHALA LETTER ALPAPRAANA DDAYANNA" -> 3497
      [] name = "SINHALA LETTER MAHAAPRAANA DDAYANNA" -> 3498
      [] name = "SINHALA LETTER MUURDHAJA NAYANNA" -> 3499
      [] name = "SINHALA LETTER SANYAKA DDAYANNA" -> 3500
      [] name = "SINHALA LETTER ALPAPRAANA TAYANNA" -> 3501
      [] name = "SINHALA LETTER MAHAAPRAANA TAYANNA" -> 3502
      [] name = "SINHALA LETTER ALPAPRAANA DAYANNA" -> 3503
      [] name = "SINHALA LETTER MAHAAPRAANA DAYANNA" -> 3504
      [] name = "SINHALA LETTER DANTAJA NAYANNA" -> 3505
      [] name = "SINHALA LETTER SANYAKA DAYANNA" -> 3507
      [] name = "SINHALA LETTER ALPAPRAANA PAYANNA" -> 3508
      [] name = "SINHALA LETTER MAHAAPRAANA PAYANNA" -> 3509
      [] name = "SINHALA LETTER ALPAPRAANA BAYANNA" -> 3510
      [] name = "SINHALA LETTER MAHAAPRAANA BAYANNA" -> 3511
      [] name = "SINHALA LETTER MAYANNA" -> 3512
      [] name = "SINHALA LETTER AMBA BAYANNA" -> 3513
      [] name = "SINHALA LETTER YAYANNA" -> 3514
      [] name = "SINHALA LETTER RAYANNA" -> 3515
      [] name = "SINHALA LETTER DANTAJA LAYANNA" -> 3517
      [] name = "SINHALA LETTER VAYANNA" -> 3520
      [] name = "SINHALA LETTER TAALUJA SAYANNA" -> 3521
      [] name = "SINHALA LETTER MUURDHAJA SAYANNA" -> 3522
      [] name = "SINHALA LETTER DANTAJA SAYANNA" -> 3523
      [] name = "SINHALA LETTER HAYANNA" -> 3524
      [] name = "SINHALA LETTER MUURDHAJA LAYANNA" -> 3525
      [] name = "SINHALA LETTER FAYANNA" -> 3526
      [] name = "SINHALA SIGN AL-LAKUNA" -> 3530
      [] name = "SINHALA VOWEL SIGN AELA-PILLA" -> 3535
      [] name = "SINHALA VOWEL SIGN KETTI AEDA-PILLA" -> 3536
      [] name = "SINHALA VOWEL SIGN DIGA AEDA-PILLA" -> 3537
      [] name = "SINHALA VOWEL SIGN KETTI IS-PILLA" -> 3538
      [] name = "SINHALA VOWEL SIGN DIGA IS-PILLA" -> 3539
      [] name = "SINHALA VOWEL SIGN KETTI PAA-PILLA" -> 3540
      [] name = "SINHALA VOWEL SIGN DIGA PAA-PILLA" -> 3542
      [] name = "SINHALA VOWEL SIGN GAETTA-PILLA" -> 3544
      [] name = "SINHALA VOWEL SIGN KOMBUVA" -> 3545
      [] name = "SINHALA VOWEL SIGN DIGA KOMBUVA" -> 3546
      [] name = "SINHALA VOWEL SIGN KOMBU DEKA" -> 3547
      [] name = "SINHALA VOWEL SIGN KOMBUVA HAA AELA-PILLA" -> 3548
      [] name = "SINHALA VOWEL SIGN KOMBUVA HAA DIGA AELA-PILLA" -> 3549
      [] name = "SINHALA VOWEL SIGN KOMBUVA HAA GAYANUKITTA" -> 3550
      [] name = "SINHALA VOWEL SIGN GAYANUKITTA" -> 3551
      [] name = "SINHALA LITH DIGIT ZERO" -> 3558
      [] name = "SINHALA LITH DIGIT ONE" -> 3559
      [] name = "SINHALA LITH DIGIT TWO" -> 3560
      [] name = "SINHALA LITH DIGIT THREE" -> 3561
      [] name = "SINHALA LITH DIGIT FOUR" -> 3562
      [] name = "SINHALA LITH DIGIT FIVE" -> 3563
      [] name = "SINHALA LITH DIGIT SIX" -> 3564
      [] name = "SINHALA LITH DIGIT SEVEN" -> 3565
      [] name = "SINHALA LITH DIGIT EIGHT" -> 3566
      [] name = "SINHALA LITH DIGIT NINE" -> 3567
      [] name = "SINHALA VOWEL SIGN DIGA GAETTA-PILLA" -> 3570
      [] name = "SINHALA VOWEL SIGN DIGA GAYANUKITTA" -> 3571
      [] name = "SINHALA PUNCTUATION KUNDDALIYA" -> 3572
      [] name = "THAI CHARACTER KO KAI" -> 3585
      [] name = "THAI CHARACTER KHO KHAI" -> 3586
      [] name = "THAI CHARACTER KHO KHUAT" -> 3587
      [] name = "THAI CHARACTER KHO KHWAI" -> 3588
      [] name = "THAI CHARACTER KHO KHON" -> 3589
      [] name = "THAI CHARACTER KHO RAKHANG" -> 3590
      [] name = "THAI CHARACTER NGO NGU" -> 3591
      [] name = "THAI CHARACTER CHO CHAN" -> 3592
      [] name = "THAI CHARACTER CHO CHING" -> 3593
      [] name = "THAI CHARACTER CHO CHANG" -> 3594
      [] name = "THAI CHARACTER SO SO" -> 3595
      [] name = "THAI CHARACTER CHO CHOE" -> 3596
      [] name = "THAI CHARACTER YO YING" -> 3597
      [] name = "THAI CHARACTER DO CHADA" -> 3598
      [] name = "THAI CHARACTER TO PATAK" -> 3599
      [] name = "THAI CHARACTER THO THAN" -> 3600
      [] name = "THAI CHARACTER THO NANGMONTHO" -> 3601
      [] name = "THAI CHARACTER THO PHUTHAO" -> 3602
      [] name = "THAI CHARACTER NO NEN" -> 3603
      [] name = "THAI CHARACTER DO DEK" -> 3604
      [] name = "THAI CHARACTER TO TAO" -> 3605
      [] name = "THAI CHARACTER THO THUNG" -> 3606
      [] name = "THAI CHARACTER THO THAHAN" -> 3607
      [] name = "THAI CHARACTER THO THONG" -> 3608
      [] name = "THAI CHARACTER NO NU" -> 3609
      [] name = "THAI CHARACTER BO BAIMAI" -> 3610
      [] name = "THAI CHARACTER PO PLA" -> 3611
      [] name = "THAI CHARACTER PHO PHUNG" -> 3612
      [] name = "THAI CHARACTER FO FA" -> 3613
      [] name = "THAI CHARACTER PHO PHAN" -> 3614
      [] name = "THAI CHARACTER FO FAN" -> 3615
      [] name = "THAI CHARACTER PHO SAMPHAO" -> 3616
      [] name = "THAI CHARACTER MO MA" -> 3617
      [] name = "THAI CHARACTER YO YAK" -> 3618
      [] name = "THAI CHARACTER RO RUA" -> 3619
      [] name = "THAI CHARACTER RU" -> 3620
      [] name = "THAI CHARACTER LO LING" -> 3621
      [] name = "THAI CHARACTER LU" -> 3622
      [] name = "THAI CHARACTER WO WAEN" -> 3623
      [] name = "THAI CHARACTER SO SALA" -> 3624
      [] name = "THAI CHARACTER SO RUSI" -> 3625
      [] name = "THAI CHARACTER SO SUA" -> 3626
      [] name = "THAI CHARACTER HO HIP" -> 3627
      [] name = "THAI CHARACTER LO CHULA" -> 3628
      [] name = "THAI CHARACTER O ANG" -> 3629
      [] name = "THAI CHARACTER HO NOKHUK" -> 3630
      [] name = "THAI CHARACTER PAIYANNOI" -> 3631
      [] name = "THAI CHARACTER SARA A" -> 3632
      [] name = "THAI CHARACTER MAI HAN-AKAT" -> 3633
      [] name = "THAI CHARACTER SARA AA" -> 3634
      [] name = "THAI CHARACTER SARA AM" -> 3635
      [] name = "THAI CHARACTER SARA I" -> 3636
      [] name = "THAI CHARACTER SARA II" -> 3637
      [] name = "THAI CHARACTER SARA UE" -> 3638
      [] name = "THAI CHARACTER SARA UEE" -> 3639
      [] name = "THAI CHARACTER SARA U" -> 3640
      [] name = "THAI CHARACTER SARA UU" -> 3641
      [] name = "THAI CHARACTER PHINTHU" -> 3642
      [] name = "THAI CURRENCY SYMBOL BAHT" -> 3647
      [] name = "THAI CHARACTER SARA E" -> 3648
      [] name = "THAI CHARACTER SARA AE" -> 3649
      [] name = "THAI CHARACTER SARA O" -> 3650
      [] name = "THAI CHARACTER SARA AI MAIMUAN" -> 3651
      [] name = "THAI CHARACTER SARA AI MAIMALAI" -> 3652
      [] name = "THAI CHARACTER LAKKHANGYAO" -> 3653
      [] name = "THAI CHARACTER MAIYAMOK" -> 3654
      [] name = "THAI CHARACTER MAITAIKHU" -> 3655
      [] name = "THAI CHARACTER MAI EK" -> 3656
      [] name = "THAI CHARACTER MAI THO" -> 3657
      [] name = "THAI CHARACTER MAI TRI" -> 3658
      [] name = "THAI CHARACTER MAI CHATTAWA" -> 3659
      [] name = "THAI CHARACTER THANTHAKHAT" -> 3660
      [] name = "THAI CHARACTER NIKHAHIT" -> 3661
      [] name = "THAI CHARACTER YAMAKKAN" -> 3662
      [] name = "THAI CHARACTER FONGMAN" -> 3663
      [] name = "THAI DIGIT ZERO" -> 3664
      [] name = "THAI DIGIT ONE" -> 3665
      [] name = "THAI DIGIT TWO" -> 3666
      [] name = "THAI DIGIT THREE" -> 3667
      [] name = "THAI DIGIT FOUR" -> 3668
      [] name = "THAI DIGIT FIVE" -> 3669
      [] name = "THAI DIGIT SIX" -> 3670
      [] name = "THAI DIGIT SEVEN" -> 3671
      [] name = "THAI DIGIT EIGHT" -> 3672
      [] name = "THAI DIGIT NINE" -> 3673
      [] name = "THAI CHARACTER ANGKHANKHU" -> 3674
      [] name = "THAI CHARACTER KHOMUT" -> 3675
      [] name = "LAO LETTER KO" -> 3713
      [] name = "LAO LETTER KHO SUNG" -> 3714
      [] name = "LAO LETTER KHO TAM" -> 3716
      [] name = "LAO LETTER PALI GHA" -> 3718
      [] name = "LAO LETTER NGO" -> 3719
      [] name = "LAO LETTER CO" -> 3720
      [] name = "LAO LETTER PALI CHA" -> 3721
      [] name = "LAO LETTER SO TAM" -> 3722
      [] name = "LAO LETTER PALI JHA" -> 3724
      [] name = "LAO LETTER NYO" -> 3725
      [] name = "LAO LETTER PALI NYA" -> 3726
      [] name = "LAO LETTER PALI TTA" -> 3727
      [] name = "LAO LETTER PALI TTHA" -> 3728
      [] name = "LAO LETTER PALI DDA" -> 3729
      [] name = "LAO LETTER PALI DDHA" -> 3730
      [] name = "LAO LETTER PALI NNA" -> 3731
      [] name = "LAO LETTER DO" -> 3732
      [] name = "LAO LETTER TO" -> 3733
      [] name = "LAO LETTER THO SUNG" -> 3734
      [] name = "LAO LETTER THO TAM" -> 3735
      [] name = "LAO LETTER PALI DHA" -> 3736
      [] name = "LAO LETTER NO" -> 3737
      [] name = "LAO LETTER BO" -> 3738
      [] name = "LAO LETTER PO" -> 3739
      [] name = "LAO LETTER PHO SUNG" -> 3740
      [] name = "LAO LETTER FO FON" -> 3741
      [] name = "LAO LETTER FO TAM" -> 3741
      [] name = "LAO LETTER PHO TAM" -> 3742
      [] name = "LAO LETTER FO FAY" -> 3743
      [] name = "LAO LETTER FO SUNG" -> 3743
      [] name = "LAO LETTER PALI BHA" -> 3744
      [] name = "LAO LETTER MO" -> 3745
      [] name = "LAO LETTER YO" -> 3746
      [] name = "LAO LETTER LO LING" -> 3747
      [] name = "LAO LETTER RO" -> 3747
      [] name = "LAO LETTER LO" -> 3749
      [] name = "LAO LETTER LO LOOT" -> 3749
      [] name = "LAO LETTER WO" -> 3751
      [] name = "LAO LETTER SANSKRIT SHA" -> 3752
      [] name = "LAO LETTER SANSKRIT SSA" -> 3753
      [] name = "LAO LETTER SO SUNG" -> 3754
      [] name = "LAO LETTER HO SUNG" -> 3755
      [] name = "LAO LETTER PALI LLA" -> 3756
      [] name = "LAO LETTER O" -> 3757
      [] name = "LAO LETTER HO TAM" -> 3758
      [] name = "LAO ELLIPSIS" -> 3759
      [] name = "LAO VOWEL SIGN A" -> 3760
      [] name = "LAO VOWEL SIGN MAI KAN" -> 3761
      [] name = "LAO VOWEL SIGN AA" -> 3762
      [] name = "LAO VOWEL SIGN AM" -> 3763
      [] name = "LAO VOWEL SIGN I" -> 3764
      [] name = "LAO VOWEL SIGN II" -> 3765
      [] name = "LAO VOWEL SIGN Y" -> 3766
      [] name = "LAO VOWEL SIGN YY" -> 3767
      [] name = "LAO VOWEL SIGN U" -> 3768
      [] name = "LAO VOWEL SIGN UU" -> 3769
      [] name = "LAO SIGN PALI VIRAMA" -> 3770
      [] name = "LAO VOWEL SIGN MAI KON" -> 3771
      [] name = "LAO SEMIVOWEL SIGN LO" -> 3772
      [] name = "LAO SEMIVOWEL SIGN NYO" -> 3773
      [] name = "LAO VOWEL SIGN E" -> 3776
      [] name = "LAO VOWEL SIGN EI" -> 3777
      [] name = "LAO VOWEL SIGN O" -> 3778
      [] name = "LAO VOWEL SIGN AY" -> 3779
      [] name = "LAO VOWEL SIGN AI" -> 3780
      [] name = "LAO KO LA" -> 3782
      [] name = "LAO TONE MAI EK" -> 3784
      [] name = "LAO TONE MAI THO" -> 3785
      [] name = "LAO TONE MAI TI" -> 3786
      [] name = "LAO TONE MAI CATAWA" -> 3787
      [] name = "LAO CANCELLATION MARK" -> 3788
      [] name = "LAO NIGGAHITA" -> 3789
      [] name = "LAO DIGIT ZERO" -> 3792
      [] name = "LAO DIGIT ONE" -> 3793
      [] name = "LAO DIGIT TWO" -> 3794
      [] name = "LAO DIGIT THREE" -> 3795
      [] name = "LAO DIGIT FOUR" -> 3796
      [] name = "LAO DIGIT FIVE" -> 3797
      [] name = "LAO DIGIT SIX" -> 3798
      [] name = "LAO DIGIT SEVEN" -> 3799
      [] name = "LAO DIGIT EIGHT" -> 3800
      [] name = "LAO DIGIT NINE" -> 3801
      [] name = "LAO HO NO" -> 3804
      [] name = "LAO HO MO" -> 3805
      [] name = "LAO LETTER KHMU GO" -> 3806
      [] name = "LAO LETTER KHMU NYO" -> 3807
      [] name = "TIBETAN SYLLABLE OM" -> 3840
      [] name = "TIBETAN MARK GTER YIG MGO TRUNCATED A" -> 3841
      [] name = "TIBETAN MARK GTER YIG MGO -UM RNAM BCAD MA" -> 3842
      [] name = "TIBETAN MARK GTER YIG MGO -UM GTER TSHEG MA" -> 3843
      [] name = "TIBETAN MARK INITIAL YIG MGO MDUN MA" -> 3844
      [] name = "TIBETAN MARK CLOSING YIG MGO SGAB MA" -> 3845
      [] name = "TIBETAN MARK CARET YIG MGO PHUR SHAD MA" -> 3846
      [] name = "TIBETAN MARK YIG MGO TSHEG SHAD MA" -> 3847
      [] name = "TIBETAN MARK SBRUL SHAD" -> 3848
      [] name = "TIBETAN MARK BSKUR YIG MGO" -> 3849
      [] name = "TIBETAN MARK BKA- SHOG YIG MGO" -> 3850
      [] name = "TIBETAN MARK INTERSYLLABIC TSHEG" -> 3851
      [] name = "TIBETAN MARK DELIMITER TSHEG BSTAR" -> 3852
      [] name = "TIBETAN MARK SHAD" -> 3853
      [] name = "TIBETAN MARK NYIS SHAD" -> 3854
      [] name = "TIBETAN MARK TSHEG SHAD" -> 3855
      [] name = "TIBETAN MARK NYIS TSHEG SHAD" -> 3856
      [] name = "TIBETAN MARK RIN CHEN SPUNGS SHAD" -> 3857
      [] name = "TIBETAN MARK RGYA GRAM SHAD" -> 3858
      [] name = "TIBETAN MARK CARET -DZUD RTAGS ME LONG CAN" -> 3859
      [] name = "TIBETAN MARK GTER TSHEG" -> 3860
      [] name = "TIBETAN LOGOTYPE SIGN CHAD RTAGS" -> 3861
      [] name = "TIBETAN LOGOTYPE SIGN LHAG RTAGS" -> 3862
      [] name = "TIBETAN ASTROLOGICAL SIGN SGRA GCAN -CHAR RTAGS" -> 3863
      [] name = "TIBETAN ASTROLOGICAL SIGN -KHYUD PA" -> 3864
      [] name = "TIBETAN ASTROLOGICAL SIGN SDONG TSHUGS" -> 3865
      [] name = "TIBETAN SIGN RDEL DKAR GCIG" -> 3866
      [] name = "TIBETAN SIGN RDEL DKAR GNYIS" -> 3867
      [] name = "TIBETAN SIGN RDEL DKAR GSUM" -> 3868
      [] name = "TIBETAN SIGN RDEL NAG GCIG" -> 3869
      [] name = "TIBETAN SIGN RDEL NAG GNYIS" -> 3870
      [] name = "TIBETAN SIGN RDEL DKAR RDEL NAG" -> 3871
      [] name = "TIBETAN DIGIT ZERO" -> 3872
      [] name = "TIBETAN DIGIT ONE" -> 3873
      [] name = "TIBETAN DIGIT TWO" -> 3874
      [] name = "TIBETAN DIGIT THREE" -> 3875
      [] name = "TIBETAN DIGIT FOUR" -> 3876
      [] name = "TIBETAN DIGIT FIVE" -> 3877
      [] name = "TIBETAN DIGIT SIX" -> 3878
      [] name = "TIBETAN DIGIT SEVEN" -> 3879
      [] name = "TIBETAN DIGIT EIGHT" -> 3880
      [] name = "TIBETAN DIGIT NINE" -> 3881
      [] name = "TIBETAN DIGIT HALF ONE" -> 3882
      [] name = "TIBETAN DIGIT HALF TWO" -> 3883
      [] name = "TIBETAN DIGIT HALF THREE" -> 3884
      [] name = "TIBETAN DIGIT HALF FOUR" -> 3885
      [] name = "TIBETAN DIGIT HALF FIVE" -> 3886
      [] name = "TIBETAN DIGIT HALF SIX" -> 3887
      [] name = "TIBETAN DIGIT HALF SEVEN" -> 3888
      [] name = "TIBETAN DIGIT HALF EIGHT" -> 3889
      [] name = "TIBETAN DIGIT HALF NINE" -> 3890
      [] name = "TIBETAN DIGIT HALF ZERO" -> 3891
      [] name = "TIBETAN MARK BSDUS RTAGS" -> 3892
      [] name = "TIBETAN MARK NGAS BZUNG NYI ZLA" -> 3893
      [] name = "TIBETAN MARK CARET -DZUD RTAGS BZHI MIG CAN" -> 3894
      [] name = "TIBETAN MARK NGAS BZUNG SGOR RTAGS" -> 3895
      [] name = "TIBETAN MARK CHE MGO" -> 3896
      [] name = "TIBETAN MARK TSA -PHRU" -> 3897
      [] name = "TIBETAN MARK GUG RTAGS GYON" -> 3898
      [] name = "TIBETAN MARK GUG RTAGS GYAS" -> 3899
      [] name = "TIBETAN MARK ANG KHANG GYON" -> 3900
      [] name = "TIBETAN MARK ANG KHANG GYAS" -> 3901
      [] name = "TIBETAN SIGN YAR TSHES" -> 3902
      [] name = "TIBETAN SIGN MAR TSHES" -> 3903
      [] name = "TIBETAN LETTER KA" -> 3904
      [] name = "TIBETAN LETTER KHA" -> 3905
      [] name = "TIBETAN LETTER GA" -> 3906
      [] name = "TIBETAN LETTER GHA" -> 3907
      [] name = "TIBETAN LETTER NGA" -> 3908
      [] name = "TIBETAN LETTER CA" -> 3909
      [] name = "TIBETAN LETTER CHA" -> 3910
      [] name = "TIBETAN LETTER JA" -> 3911
      [] name = "TIBETAN LETTER NYA" -> 3913
      [] name = "TIBETAN LETTER TTA" -> 3914
      [] name = "TIBETAN LETTER TTHA" -> 3915
      [] name = "TIBETAN LETTER DDA" -> 3916
      [] name = "TIBETAN LETTER DDHA" -> 3917
      [] name = "TIBETAN LETTER NNA" -> 3918
      [] name = "TIBETAN LETTER TA" -> 3919
      [] name = "TIBETAN LETTER THA" -> 3920
      [] name = "TIBETAN LETTER DA" -> 3921
      [] name = "TIBETAN LETTER DHA" -> 3922
      [] name = "TIBETAN LETTER NA" -> 3923
      [] name = "TIBETAN LETTER PA" -> 3924
      [] name = "TIBETAN LETTER PHA" -> 3925
      [] name = "TIBETAN LETTER BA" -> 3926
      [] name = "TIBETAN LETTER BHA" -> 3927
      [] name = "TIBETAN LETTER MA" -> 3928
      [] name = "TIBETAN LETTER TSA" -> 3929
      [] name = "TIBETAN LETTER TSHA" -> 3930
      [] name = "TIBETAN LETTER DZA" -> 3931
      [] name = "TIBETAN LETTER DZHA" -> 3932
      [] name = "TIBETAN LETTER WA" -> 3933
      [] name = "TIBETAN LETTER ZHA" -> 3934
      [] name = "TIBETAN LETTER ZA" -> 3935
      [] name = "TIBETAN LETTER -A" -> 3936
      [] name = "TIBETAN LETTER YA" -> 3937
      [] name = "TIBETAN LETTER RA" -> 3938
      [] name = "TIBETAN LETTER LA" -> 3939
      [] name = "TIBETAN LETTER SHA" -> 3940
      [] name = "TIBETAN LETTER SSA" -> 3941
      [] name = "TIBETAN LETTER SA" -> 3942
      [] name = "TIBETAN LETTER HA" -> 3943
      [] name = "TIBETAN LETTER A" -> 3944
      [] name = "TIBETAN LETTER KSSA" -> 3945
      [] name = "TIBETAN LETTER FIXED-FORM RA" -> 3946
      [] name = "TIBETAN LETTER KKA" -> 3947
      [] name = "TIBETAN LETTER RRA" -> 3948
      [] name = "TIBETAN VOWEL SIGN AA" -> 3953
      [] name = "TIBETAN VOWEL SIGN I" -> 3954
      [] name = "TIBETAN VOWEL SIGN II" -> 3955
      [] name = "TIBETAN VOWEL SIGN U" -> 3956
      [] name = "TIBETAN VOWEL SIGN UU" -> 3957
      [] name = "TIBETAN VOWEL SIGN VOCALIC R" -> 3958
      [] name = "TIBETAN VOWEL SIGN VOCALIC RR" -> 3959
      [] name = "TIBETAN VOWEL SIGN VOCALIC L" -> 3960
      [] name = "TIBETAN VOWEL SIGN VOCALIC LL" -> 3961
      [] name = "TIBETAN VOWEL SIGN E" -> 3962
      [] name = "TIBETAN VOWEL SIGN EE" -> 3963
      [] name = "TIBETAN VOWEL SIGN O" -> 3964
      [] name = "TIBETAN VOWEL SIGN OO" -> 3965
      [] name = "TIBETAN SIGN RJES SU NGA RO" -> 3966
      [] name = "TIBETAN SIGN RNAM BCAD" -> 3967
      [] name = "TIBETAN VOWEL SIGN REVERSED I" -> 3968
      [] name = "TIBETAN VOWEL SIGN REVERSED II" -> 3969
      [] name = "TIBETAN SIGN NYI ZLA NAA DA" -> 3970
      [] name = "TIBETAN SIGN SNA LDAN" -> 3971
      [] name = "TIBETAN MARK HALANTA" -> 3972
      [] name = "TIBETAN MARK PALUTA" -> 3973
      [] name = "TIBETAN SIGN LCI RTAGS" -> 3974
      [] name = "TIBETAN SIGN YANG RTAGS" -> 3975
      [] name = "TIBETAN SIGN LCE TSA CAN" -> 3976
      [] name = "TIBETAN SIGN MCHU CAN" -> 3977
      [] name = "TIBETAN SIGN GRU CAN RGYINGS" -> 3978
      [] name = "TIBETAN SIGN GRU MED RGYINGS" -> 3979
      [] name = "TIBETAN SIGN INVERTED MCHU CAN" -> 3980
      [] name = "TIBETAN SUBJOINED SIGN LCE TSA CAN" -> 3981
      [] name = "TIBETAN SUBJOINED SIGN MCHU CAN" -> 3982
      [] name = "TIBETAN SUBJOINED SIGN INVERTED MCHU CAN" -> 3983
      [] name = "TIBETAN SUBJOINED LETTER KA" -> 3984
      [] name = "TIBETAN SUBJOINED LETTER KHA" -> 3985
      [] name = "TIBETAN SUBJOINED LETTER GA" -> 3986
      [] name = "TIBETAN SUBJOINED LETTER GHA" -> 3987
      [] name = "TIBETAN SUBJOINED LETTER NGA" -> 3988
      [] name = "TIBETAN SUBJOINED LETTER CA" -> 3989
      [] name = "TIBETAN SUBJOINED LETTER CHA" -> 3990
      [] name = "TIBETAN SUBJOINED LETTER JA" -> 3991
      [] name = "TIBETAN SUBJOINED LETTER NYA" -> 3993
      [] name = "TIBETAN SUBJOINED LETTER TTA" -> 3994
      [] name = "TIBETAN SUBJOINED LETTER TTHA" -> 3995
      [] name = "TIBETAN SUBJOINED LETTER DDA" -> 3996
      [] name = "TIBETAN SUBJOINED LETTER DDHA" -> 3997
      [] name = "TIBETAN SUBJOINED LETTER NNA" -> 3998
      [] name = "TIBETAN SUBJOINED LETTER TA" -> 3999
      [] name = "TIBETAN SUBJOINED LETTER THA" -> 4000
      [] name = "TIBETAN SUBJOINED LETTER DA" -> 4001
      [] name = "TIBETAN SUBJOINED LETTER DHA" -> 4002
      [] name = "TIBETAN SUBJOINED LETTER NA" -> 4003
      [] name = "TIBETAN SUBJOINED LETTER PA" -> 4004
      [] name = "TIBETAN SUBJOINED LETTER PHA" -> 4005
      [] name = "TIBETAN SUBJOINED LETTER BA" -> 4006
      [] name = "TIBETAN SUBJOINED LETTER BHA" -> 4007
      [] name = "TIBETAN SUBJOINED LETTER MA" -> 4008
      [] name = "TIBETAN SUBJOINED LETTER TSA" -> 4009
      [] name = "TIBETAN SUBJOINED LETTER TSHA" -> 4010
      [] name = "TIBETAN SUBJOINED LETTER DZA" -> 4011
      [] name = "TIBETAN SUBJOINED LETTER DZHA" -> 4012
      [] name = "TIBETAN SUBJOINED LETTER WA" -> 4013
      [] name = "TIBETAN SUBJOINED LETTER ZHA" -> 4014
      [] name = "TIBETAN SUBJOINED LETTER ZA" -> 4015
      [] name = "TIBETAN SUBJOINED LETTER -A" -> 4016
      [] name = "TIBETAN SUBJOINED LETTER YA" -> 4017
      [] name = "TIBETAN SUBJOINED LETTER RA" -> 4018
      [] name = "TIBETAN SUBJOINED LETTER LA" -> 4019
      [] name = "TIBETAN SUBJOINED LETTER SHA" -> 4020
      [] name = "TIBETAN SUBJOINED LETTER SSA" -> 4021
      [] name = "TIBETAN SUBJOINED LETTER SA" -> 4022
      [] name = "TIBETAN SUBJOINED LETTER HA" -> 4023
      [] name = "TIBETAN SUBJOINED LETTER A" -> 4024
      [] name = "TIBETAN SUBJOINED LETTER KSSA" -> 4025
      [] name = "TIBETAN SUBJOINED LETTER FIXED-FORM WA" -> 4026
      [] name = "TIBETAN SUBJOINED LETTER FIXED-FORM YA" -> 4027
      [] name = "TIBETAN SUBJOINED LETTER FIXED-FORM RA" -> 4028
      [] name = "TIBETAN KU RU KHA" -> 4030
      [] name = "TIBETAN KU RU KHA BZHI MIG CAN" -> 4031
      [] name = "TIBETAN CANTILLATION SIGN HEAVY BEAT" -> 4032
      [] name = "TIBETAN CANTILLATION SIGN LIGHT BEAT" -> 4033
      [] name = "TIBETAN CANTILLATION SIGN CANG TE-U" -> 4034
      [] name = "TIBETAN CANTILLATION SIGN SBUB -CHAL" -> 4035
      [] name = "TIBETAN SYMBOL DRIL BU" -> 4036
      [] name = "TIBETAN SYMBOL RDO RJE" -> 4037
      [] name = "TIBETAN SYMBOL PADMA GDAN" -> 4038
      [] name = "TIBETAN SYMBOL RDO RJE RGYA GRAM" -> 4039
      [] name = "TIBETAN SYMBOL PHUR PA" -> 4040
      [] name = "TIBETAN SYMBOL NOR BU" -> 4041
      [] name = "TIBETAN SYMBOL NOR BU NYIS -KHYIL" -> 4042
      [] name = "TIBETAN SYMBOL NOR BU GSUM -KHYIL" -> 4043
      [] name = "TIBETAN SYMBOL NOR BU BZHI -KHYIL" -> 4044
      [] name = "TIBETAN SIGN RDEL NAG RDEL DKAR" -> 4046
      [] name = "TIBETAN SIGN RDEL NAG GSUM" -> 4047
      [] name = "TIBETAN MARK BKA- SHOG GI MGO RGYAN" -> 4048
      [] name = "TIBETAN MARK BSKA- SHOG GI MGO RGYAN" -> 4048
      [] name = "TIBETAN MARK MNYAM YIG GI MGO RGYAN" -> 4049
      [] name = "TIBETAN MARK NYIS TSHEG" -> 4050
      [] name = "TIBETAN MARK INITIAL BRDA RNYING YIG MGO MDUN MA" -> 4051
      [] name = "TIBETAN MARK CLOSING BRDA RNYING YIG MGO SGAB MA" -> 4052
      [] name = "RIGHT-FACING SVASTI SIGN" -> 4053
      [] name = "LEFT-FACING SVASTI SIGN" -> 4054
      [] name = "RIGHT-FACING SVASTI SIGN WITH DOTS" -> 4055
      [] name = "LEFT-FACING SVASTI SIGN WITH DOTS" -> 4056
      [] name = "TIBETAN MARK LEADING MCHAN RTAGS" -> 4057
      [] name = "TIBETAN MARK TRAILING MCHAN RTAGS" -> 4058
      [] name = "MYANMAR LETTER KA" -> 4096
      [] name = "MYANMAR LETTER KHA" -> 4097
      [] name = "MYANMAR LETTER GA" -> 4098
      [] name = "MYANMAR LETTER GHA" -> 4099
      [] name = "MYANMAR LETTER NGA" -> 4100
      [] name = "MYANMAR LETTER CA" -> 4101
      [] name = "MYANMAR LETTER CHA" -> 4102
      [] name = "MYANMAR LETTER JA" -> 4103
      [] name = "MYANMAR LETTER JHA" -> 4104
      [] name = "MYANMAR LETTER NYA" -> 4105
      [] name = "MYANMAR LETTER NNYA" -> 4106
      [] name = "MYANMAR LETTER TTA" -> 4107
      [] name = "MYANMAR LETTER TTHA" -> 4108
      [] name = "MYANMAR LETTER DDA" -> 4109
      [] name = "MYANMAR LETTER DDHA" -> 4110
      [] name = "MYANMAR LETTER NNA" -> 4111
      [] name = "MYANMAR LETTER TA" -> 4112
      [] name = "MYANMAR LETTER THA" -> 4113
      [] name = "MYANMAR LETTER DA" -> 4114
      [] name = "MYANMAR LETTER DHA" -> 4115
      [] name = "MYANMAR LETTER NA" -> 4116
      [] name = "MYANMAR LETTER PA" -> 4117
      [] name = "MYANMAR LETTER PHA" -> 4118
      [] name = "MYANMAR LETTER BA" -> 4119
      [] name = "MYANMAR LETTER BHA" -> 4120
      [] name = "MYANMAR LETTER MA" -> 4121
      [] name = "MYANMAR LETTER YA" -> 4122
      [] name = "MYANMAR LETTER RA" -> 4123
      [] name = "MYANMAR LETTER LA" -> 4124
      [] name = "MYANMAR LETTER WA" -> 4125
      [] name = "MYANMAR LETTER SA" -> 4126
      [] name = "MYANMAR LETTER HA" -> 4127
      [] name = "MYANMAR LETTER LLA" -> 4128
      [] name = "MYANMAR LETTER A" -> 4129
      [] name = "MYANMAR LETTER SHAN A" -> 4130
      [] name = "MYANMAR LETTER I" -> 4131
      [] name = "MYANMAR LETTER II" -> 4132
      [] name = "MYANMAR LETTER U" -> 4133
      [] name = "MYANMAR LETTER UU" -> 4134
      [] name = "MYANMAR LETTER E" -> 4135
      [] name = "MYANMAR LETTER MON E" -> 4136
      [] name = "MYANMAR LETTER O" -> 4137
      [] name = "MYANMAR LETTER AU" -> 4138
      [] name = "MYANMAR VOWEL SIGN TALL AA" -> 4139
      [] name = "MYANMAR VOWEL SIGN AA" -> 4140
      [] name = "MYANMAR VOWEL SIGN I" -> 4141
      [] name = "MYANMAR VOWEL SIGN II" -> 4142
      [] name = "MYANMAR VOWEL SIGN U" -> 4143
      [] name = "MYANMAR VOWEL SIGN UU" -> 4144
      [] name = "MYANMAR VOWEL SIGN E" -> 4145
      [] name = "MYANMAR VOWEL SIGN AI" -> 4146
      [] name = "MYANMAR VOWEL SIGN MON II" -> 4147
      [] name = "MYANMAR VOWEL SIGN MON O" -> 4148
      [] name = "MYANMAR VOWEL SIGN E ABOVE" -> 4149
      [] name = "MYANMAR SIGN ANUSVARA" -> 4150
      [] name = "MYANMAR SIGN DOT BELOW" -> 4151
      [] name = "MYANMAR SIGN VISARGA" -> 4152
      [] name = "MYANMAR SIGN VIRAMA" -> 4153
      [] name = "MYANMAR SIGN ASAT" -> 4154
      [] name = "MYANMAR CONSONANT SIGN MEDIAL YA" -> 4155
      [] name = "MYANMAR CONSONANT SIGN MEDIAL RA" -> 4156
      [] name = "MYANMAR CONSONANT SIGN MEDIAL WA" -> 4157
      [] name = "MYANMAR CONSONANT SIGN MEDIAL HA" -> 4158
      [] name = "MYANMAR LETTER GREAT SA" -> 4159
      [] name = "MYANMAR DIGIT ZERO" -> 4160
      [] name = "MYANMAR DIGIT ONE" -> 4161
      [] name = "MYANMAR DIGIT TWO" -> 4162
      [] name = "MYANMAR DIGIT THREE" -> 4163
      [] name = "MYANMAR DIGIT FOUR" -> 4164
      [] name = "MYANMAR DIGIT FIVE" -> 4165
      [] name = "MYANMAR DIGIT SIX" -> 4166
      [] name = "MYANMAR DIGIT SEVEN" -> 4167
      [] name = "MYANMAR DIGIT EIGHT" -> 4168
      [] name = "MYANMAR DIGIT NINE" -> 4169
      [] name = "MYANMAR SIGN LITTLE SECTION" -> 4170
      [] name = "MYANMAR SIGN SECTION" -> 4171
      [] name = "MYANMAR SYMBOL LOCATIVE" -> 4172
      [] name = "MYANMAR SYMBOL COMPLETED" -> 4173
      [] name = "MYANMAR SYMBOL AFOREMENTIONED" -> 4174
      [] name = "MYANMAR SYMBOL GENITIVE" -> 4175
      [] name = "MYANMAR LETTER SHA" -> 4176
      [] name = "MYANMAR LETTER SSA" -> 4177
      [] name = "MYANMAR LETTER VOCALIC R" -> 4178
      [] name = "MYANMAR LETTER VOCALIC RR" -> 4179
      [] name = "MYANMAR LETTER VOCALIC L" -> 4180
      [] name = "MYANMAR LETTER VOCALIC LL" -> 4181
      [] name = "MYANMAR VOWEL SIGN VOCALIC R" -> 4182
      [] name = "MYANMAR VOWEL SIGN VOCALIC RR" -> 4183
      [] name = "MYANMAR VOWEL SIGN VOCALIC L" -> 4184
      [] name = "MYANMAR VOWEL SIGN VOCALIC LL" -> 4185
      [] name = "MYANMAR LETTER MON NGA" -> 4186
      [] name = "MYANMAR LETTER MON JHA" -> 4187
      [] name = "MYANMAR LETTER MON BBA" -> 4188
      [] name = "MYANMAR LETTER MON BBE" -> 4189
      [] name = "MYANMAR CONSONANT SIGN MON MEDIAL NA" -> 4190
      [] name = "MYANMAR CONSONANT SIGN MON MEDIAL MA" -> 4191
      [] name = "MYANMAR CONSONANT SIGN MON MEDIAL LA" -> 4192
      [] name = "MYANMAR LETTER SGAW KAREN SHA" -> 4193
      [] name = "MYANMAR VOWEL SIGN SGAW KAREN EU" -> 4194
      [] name = "MYANMAR TONE MARK SGAW KAREN HATHI" -> 4195
      [] name = "MYANMAR TONE MARK SGAW KAREN KE PHO" -> 4196
      [] name = "MYANMAR LETTER WESTERN PWO KAREN THA" -> 4197
      [] name = "MYANMAR LETTER WESTERN PWO KAREN PWA" -> 4198
      [] name = "MYANMAR VOWEL SIGN WESTERN PWO KAREN EU" -> 4199
      [] name = "MYANMAR VOWEL SIGN WESTERN PWO KAREN UE" -> 4200
      [] name = "MYANMAR SIGN WESTERN PWO KAREN TONE-1" -> 4201
      [] name = "MYANMAR SIGN WESTERN PWO KAREN TONE-2" -> 4202
      [] name = "MYANMAR SIGN WESTERN PWO KAREN TONE-3" -> 4203
      [] name = "MYANMAR SIGN WESTERN PWO KAREN TONE-4" -> 4204
      [] name = "MYANMAR SIGN WESTERN PWO KAREN TONE-5" -> 4205
      [] name = "MYANMAR LETTER EASTERN PWO KAREN NNA" -> 4206
      [] name = "MYANMAR LETTER EASTERN PWO KAREN YWA" -> 4207
      [] name = "MYANMAR LETTER EASTERN PWO KAREN GHWA" -> 4208
      [] name = "MYANMAR VOWEL SIGN GEBA KAREN I" -> 4209
      [] name = "MYANMAR VOWEL SIGN KAYAH OE" -> 4210
      [] name = "MYANMAR VOWEL SIGN KAYAH U" -> 4211
      [] name = "MYANMAR VOWEL SIGN KAYAH EE" -> 4212
      [] name = "MYANMAR LETTER SHAN KA" -> 4213
      [] name = "MYANMAR LETTER SHAN KHA" -> 4214
      [] name = "MYANMAR LETTER SHAN GA" -> 4215
      [] name = "MYANMAR LETTER SHAN CA" -> 4216
      [] name = "MYANMAR LETTER SHAN ZA" -> 4217
      [] name = "MYANMAR LETTER SHAN NYA" -> 4218
      [] name = "MYANMAR LETTER SHAN DA" -> 4219
      [] name = "MYANMAR LETTER SHAN NA" -> 4220
      [] name = "MYANMAR LETTER SHAN PHA" -> 4221
      [] name = "MYANMAR LETTER SHAN FA" -> 4222
      [] name = "MYANMAR LETTER SHAN BA" -> 4223
      [] name = "MYANMAR LETTER SHAN THA" -> 4224
      [] name = "MYANMAR LETTER SHAN HA" -> 4225
      [] name = "MYANMAR CONSONANT SIGN SHAN MEDIAL WA" -> 4226
      [] name = "MYANMAR VOWEL SIGN SHAN AA" -> 4227
      [] name = "MYANMAR VOWEL SIGN SHAN E" -> 4228
      [] name = "MYANMAR VOWEL SIGN SHAN E ABOVE" -> 4229
      [] name = "MYANMAR VOWEL SIGN SHAN FINAL Y" -> 4230
      [] name = "MYANMAR SIGN SHAN TONE-2" -> 4231
      [] name = "MYANMAR SIGN SHAN TONE-3" -> 4232
      [] name = "MYANMAR SIGN SHAN TONE-5" -> 4233
      [] name = "MYANMAR SIGN SHAN TONE-6" -> 4234
      [] name = "MYANMAR SIGN SHAN COUNCIL TONE-2" -> 4235
      [] name = "MYANMAR SIGN SHAN COUNCIL TONE-3" -> 4236
      [] name = "MYANMAR SIGN SHAN COUNCIL EMPHATIC TONE" -> 4237
      [] name = "MYANMAR LETTER RUMAI PALAUNG FA" -> 4238
      [] name = "MYANMAR SIGN RUMAI PALAUNG TONE-5" -> 4239
      [] name = "MYANMAR SHAN DIGIT ZERO" -> 4240
      [] name = "MYANMAR SHAN DIGIT ONE" -> 4241
      [] name = "MYANMAR SHAN DIGIT TWO" -> 4242
      [] name = "MYANMAR SHAN DIGIT THREE" -> 4243
      [] name = "MYANMAR SHAN DIGIT FOUR" -> 4244
      [] name = "MYANMAR SHAN DIGIT FIVE" -> 4245
      [] name = "MYANMAR SHAN DIGIT SIX" -> 4246
      [] name = "MYANMAR SHAN DIGIT SEVEN" -> 4247
      [] name = "MYANMAR SHAN DIGIT EIGHT" -> 4248
      [] name = "MYANMAR SHAN DIGIT NINE" -> 4249
      [] name = "MYANMAR SIGN KHAMTI TONE-1" -> 4250
      [] name = "MYANMAR SIGN KHAMTI TONE-3" -> 4251
      [] name = "MYANMAR VOWEL SIGN AITON A" -> 4252
      [] name = "MYANMAR VOWEL SIGN AITON AI" -> 4253
      [] name = "MYANMAR SYMBOL SHAN ONE" -> 4254
      [] name = "MYANMAR SYMBOL SHAN EXCLAMATION" -> 4255
      [] name = "GEORGIAN CAPITAL LETTER AN" -> 4256
      [] name = "GEORGIAN CAPITAL LETTER BAN" -> 4257
      [] name = "GEORGIAN CAPITAL LETTER GAN" -> 4258
      [] name = "GEORGIAN CAPITAL LETTER DON" -> 4259
      [] name = "GEORGIAN CAPITAL LETTER EN" -> 4260
      [] name = "GEORGIAN CAPITAL LETTER VIN" -> 4261
      [] name = "GEORGIAN CAPITAL LETTER ZEN" -> 4262
      [] name = "GEORGIAN CAPITAL LETTER TAN" -> 4263
      [] name = "GEORGIAN CAPITAL LETTER IN" -> 4264
      [] name = "GEORGIAN CAPITAL LETTER KAN" -> 4265
      [] name = "GEORGIAN CAPITAL LETTER LAS" -> 4266
      [] name = "GEORGIAN CAPITAL LETTER MAN" -> 4267
      [] name = "GEORGIAN CAPITAL LETTER NAR" -> 4268
      [] name = "GEORGIAN CAPITAL LETTER ON" -> 4269
      [] name = "GEORGIAN CAPITAL LETTER PAR" -> 4270
      [] name = "GEORGIAN CAPITAL LETTER ZHAR" -> 4271
      [] name = "GEORGIAN CAPITAL LETTER RAE" -> 4272
      [] name = "GEORGIAN CAPITAL LETTER SAN" -> 4273
      [] name = "GEORGIAN CAPITAL LETTER TAR" -> 4274
      [] name = "GEORGIAN CAPITAL LETTER UN" -> 4275
      [] name = "GEORGIAN CAPITAL LETTER PHAR" -> 4276
      [] name = "GEORGIAN CAPITAL LETTER KHAR" -> 4277
      [] name = "GEORGIAN CAPITAL LETTER GHAN" -> 4278
      [] name = "GEORGIAN CAPITAL LETTER QAR" -> 4279
      [] name = "GEORGIAN CAPITAL LETTER SHIN" -> 4280
      [] name = "GEORGIAN CAPITAL LETTER CHIN" -> 4281
      [] name = "GEORGIAN CAPITAL LETTER CAN" -> 4282
      [] name = "GEORGIAN CAPITAL LETTER JIL" -> 4283
      [] name = "GEORGIAN CAPITAL LETTER CIL" -> 4284
      [] name = "GEORGIAN CAPITAL LETTER CHAR" -> 4285
      [] name = "GEORGIAN CAPITAL LETTER XAN" -> 4286
      [] name = "GEORGIAN CAPITAL LETTER JHAN" -> 4287
      [] name = "GEORGIAN CAPITAL LETTER HAE" -> 4288
      [] name = "GEORGIAN CAPITAL LETTER HE" -> 4289
      [] name = "GEORGIAN CAPITAL LETTER HIE" -> 4290
      [] name = "GEORGIAN CAPITAL LETTER WE" -> 4291
      [] name = "GEORGIAN CAPITAL LETTER HAR" -> 4292
      [] name = "GEORGIAN CAPITAL LETTER HOE" -> 4293
      [] name = "GEORGIAN CAPITAL LETTER YN" -> 4295
      [] name = "GEORGIAN CAPITAL LETTER AEN" -> 4301
      [] name = "GEORGIAN LETTER AN" -> 4304
      [] name = "GEORGIAN LETTER BAN" -> 4305
      [] name = "GEORGIAN LETTER GAN" -> 4306
      [] name = "GEORGIAN LETTER DON" -> 4307
      [] name = "GEORGIAN LETTER EN" -> 4308
      [] name = "GEORGIAN LETTER VIN" -> 4309
      [] name = "GEORGIAN LETTER ZEN" -> 4310
      [] name = "GEORGIAN LETTER TAN" -> 4311
      [] name = "GEORGIAN LETTER IN" -> 4312
      [] name = "GEORGIAN LETTER KAN" -> 4313
      [] name = "GEORGIAN LETTER LAS" -> 4314
      [] name = "GEORGIAN LETTER MAN" -> 4315
      [] name = "GEORGIAN LETTER NAR" -> 4316
      [] name = "GEORGIAN LETTER ON" -> 4317
      [] name = "GEORGIAN LETTER PAR" -> 4318
      [] name = "GEORGIAN LETTER ZHAR" -> 4319
      [] name = "GEORGIAN LETTER RAE" -> 4320
      [] name = "GEORGIAN LETTER SAN" -> 4321
      [] name = "GEORGIAN LETTER TAR" -> 4322
      [] name = "GEORGIAN LETTER UN" -> 4323
      [] name = "GEORGIAN LETTER PHAR" -> 4324
      [] name = "GEORGIAN LETTER KHAR" -> 4325
      [] name = "GEORGIAN LETTER GHAN" -> 4326
      [] name = "GEORGIAN LETTER QAR" -> 4327
      [] name = "GEORGIAN LETTER SHIN" -> 4328
      [] name = "GEORGIAN LETTER CHIN" -> 4329
      [] name = "GEORGIAN LETTER CAN" -> 4330
      [] name = "GEORGIAN LETTER JIL" -> 4331
      [] name = "GEORGIAN LETTER CIL" -> 4332
      [] name = "GEORGIAN LETTER CHAR" -> 4333
      [] name = "GEORGIAN LETTER XAN" -> 4334
      [] name = "GEORGIAN LETTER JHAN" -> 4335
      [] name = "GEORGIAN LETTER HAE" -> 4336
      [] name = "GEORGIAN LETTER HE" -> 4337
      [] name = "GEORGIAN LETTER HIE" -> 4338
      [] name = "GEORGIAN LETTER WE" -> 4339
      [] name = "GEORGIAN LETTER HAR" -> 4340
      [] name = "GEORGIAN LETTER HOE" -> 4341
      [] name = "GEORGIAN LETTER FI" -> 4342
      [] name = "GEORGIAN LETTER YN" -> 4343
      [] name = "GEORGIAN LETTER ELIFI" -> 4344
      [] name = "GEORGIAN LETTER TURNED GAN" -> 4345
      [] name = "GEORGIAN LETTER AIN" -> 4346
      [] name = "GEORGIAN PARAGRAPH SEPARATOR" -> 4347
      [] name = "MODIFIER LETTER GEORGIAN NAR" -> 4348
      [] name = "GEORGIAN LETTER AEN" -> 4349
      [] name = "GEORGIAN LETTER HARD SIGN" -> 4350
      [] name = "GEORGIAN LETTER LABIAL SIGN" -> 4351
      [] name = "HANGUL CHOSEONG KIYEOK" -> 4352
      [] name = "HANGUL CHOSEONG SSANGKIYEOK" -> 4353
      [] name = "HANGUL CHOSEONG NIEUN" -> 4354
      [] name = "HANGUL CHOSEONG TIKEUT" -> 4355
      [] name = "HANGUL CHOSEONG SSANGTIKEUT" -> 4356
      [] name = "HANGUL CHOSEONG RIEUL" -> 4357
      [] name = "HANGUL CHOSEONG MIEUM" -> 4358
      [] name = "HANGUL CHOSEONG PIEUP" -> 4359
      [] name = "HANGUL CHOSEONG SSANGPIEUP" -> 4360
      [] name = "HANGUL CHOSEONG SIOS" -> 4361
      [] name = "HANGUL CHOSEONG SSANGSIOS" -> 4362
      [] name = "HANGUL CHOSEONG IEUNG" -> 4363
      [] name = "HANGUL CHOSEONG CIEUC" -> 4364
      [] name = "HANGUL CHOSEONG SSANGCIEUC" -> 4365
      [] name = "HANGUL CHOSEONG CHIEUCH" -> 4366
      [] name = "HANGUL CHOSEONG KHIEUKH" -> 4367
      [] name = "HANGUL CHOSEONG THIEUTH" -> 4368
      [] name = "HANGUL CHOSEONG PHIEUPH" -> 4369
      [] name = "HANGUL CHOSEONG HIEUH" -> 4370
      [] name = "HANGUL CHOSEONG NIEUN-KIYEOK" -> 4371
      [] name = "HANGUL CHOSEONG SSANGNIEUN" -> 4372
      [] name = "HANGUL CHOSEONG NIEUN-TIKEUT" -> 4373
      [] name = "HANGUL CHOSEONG NIEUN-PIEUP" -> 4374
      [] name = "HANGUL CHOSEONG TIKEUT-KIYEOK" -> 4375
      [] name = "HANGUL CHOSEONG RIEUL-NIEUN" -> 4376
      [] name = "HANGUL CHOSEONG SSANGRIEUL" -> 4377
      [] name = "HANGUL CHOSEONG RIEUL-HIEUH" -> 4378
      [] name = "HANGUL CHOSEONG KAPYEOUNRIEUL" -> 4379
      [] name = "HANGUL CHOSEONG MIEUM-PIEUP" -> 4380
      [] name = "HANGUL CHOSEONG KAPYEOUNMIEUM" -> 4381
      [] name = "HANGUL CHOSEONG PIEUP-KIYEOK" -> 4382
      [] name = "HANGUL CHOSEONG PIEUP-NIEUN" -> 4383
      [] name = "HANGUL CHOSEONG PIEUP-TIKEUT" -> 4384
      [] name = "HANGUL CHOSEONG PIEUP-SIOS" -> 4385
      [] name = "HANGUL CHOSEONG PIEUP-SIOS-KIYEOK" -> 4386
      [] name = "HANGUL CHOSEONG PIEUP-SIOS-TIKEUT" -> 4387
      [] name = "HANGUL CHOSEONG PIEUP-SIOS-PIEUP" -> 4388
      [] name = "HANGUL CHOSEONG PIEUP-SSANGSIOS" -> 4389
      [] name = "HANGUL CHOSEONG PIEUP-SIOS-CIEUC" -> 4390
      [] name = "HANGUL CHOSEONG PIEUP-CIEUC" -> 4391
      [] name = "HANGUL CHOSEONG PIEUP-CHIEUCH" -> 4392
      [] name = "HANGUL CHOSEONG PIEUP-THIEUTH" -> 4393
      [] name = "HANGUL CHOSEONG PIEUP-PHIEUPH" -> 4394
      [] name = "HANGUL CHOSEONG KAPYEOUNPIEUP" -> 4395
      [] name = "HANGUL CHOSEONG KAPYEOUNSSANGPIEUP" -> 4396
      [] name = "HANGUL CHOSEONG SIOS-KIYEOK" -> 4397
      [] name = "HANGUL CHOSEONG SIOS-NIEUN" -> 4398
      [] name = "HANGUL CHOSEONG SIOS-TIKEUT" -> 4399
      [] name = "HANGUL CHOSEONG SIOS-RIEUL" -> 4400
      [] name = "HANGUL CHOSEONG SIOS-MIEUM" -> 4401
      [] name = "HANGUL CHOSEONG SIOS-PIEUP" -> 4402
      [] name = "HANGUL CHOSEONG SIOS-PIEUP-KIYEOK" -> 4403
      [] name = "HANGUL CHOSEONG SIOS-SSANGSIOS" -> 4404
      [] name = "HANGUL CHOSEONG SIOS-IEUNG" -> 4405
      [] name = "HANGUL CHOSEONG SIOS-CIEUC" -> 4406
      [] name = "HANGUL CHOSEONG SIOS-CHIEUCH" -> 4407
      [] name = "HANGUL CHOSEONG SIOS-KHIEUKH" -> 4408
      [] name = "HANGUL CHOSEONG SIOS-THIEUTH" -> 4409
      [] name = "HANGUL CHOSEONG SIOS-PHIEUPH" -> 4410
      [] name = "HANGUL CHOSEONG SIOS-HIEUH" -> 4411
      [] name = "HANGUL CHOSEONG CHITUEUMSIOS" -> 4412
      [] name = "HANGUL CHOSEONG CHITUEUMSSANGSIOS" -> 4413
      [] name = "HANGUL CHOSEONG CEONGCHIEUMSIOS" -> 4414
      [] name = "HANGUL CHOSEONG CEONGCHIEUMSSANGSIOS" -> 4415
      [] name = "HANGUL CHOSEONG PANSIOS" -> 4416
      [] name = "HANGUL CHOSEONG IEUNG-KIYEOK" -> 4417
      [] name = "HANGUL CHOSEONG IEUNG-TIKEUT" -> 4418
      [] name = "HANGUL CHOSEONG IEUNG-MIEUM" -> 4419
      [] name = "HANGUL CHOSEONG IEUNG-PIEUP" -> 4420
      [] name = "HANGUL CHOSEONG IEUNG-SIOS" -> 4421
      [] name = "HANGUL CHOSEONG IEUNG-PANSIOS" -> 4422
      [] name = "HANGUL CHOSEONG SSANGIEUNG" -> 4423
      [] name = "HANGUL CHOSEONG IEUNG-CIEUC" -> 4424
      [] name = "HANGUL CHOSEONG IEUNG-CHIEUCH" -> 4425
      [] name = "HANGUL CHOSEONG IEUNG-THIEUTH" -> 4426
      [] name = "HANGUL CHOSEONG IEUNG-PHIEUPH" -> 4427
      [] name = "HANGUL CHOSEONG YESIEUNG" -> 4428
      [] name = "HANGUL CHOSEONG CIEUC-IEUNG" -> 4429
      [] name = "HANGUL CHOSEONG CHITUEUMCIEUC" -> 4430
      [] name = "HANGUL CHOSEONG CHITUEUMSSANGCIEUC" -> 4431
      [] name = "HANGUL CHOSEONG CEONGCHIEUMCIEUC" -> 4432
      [] name = "HANGUL CHOSEONG CEONGCHIEUMSSANGCIEUC" -> 4433
      [] name = "HANGUL CHOSEONG CHIEUCH-KHIEUKH" -> 4434
      [] name = "HANGUL CHOSEONG CHIEUCH-HIEUH" -> 4435
      [] name = "HANGUL CHOSEONG CHITUEUMCHIEUCH" -> 4436
      [] name = "HANGUL CHOSEONG CEONGCHIEUMCHIEUCH" -> 4437
      [] name = "HANGUL CHOSEONG PHIEUPH-PIEUP" -> 4438
      [] name = "HANGUL CHOSEONG KAPYEOUNPHIEUPH" -> 4439
      [] name = "HANGUL CHOSEONG SSANGHIEUH" -> 4440
      [] name = "HANGUL CHOSEONG YEORINHIEUH" -> 4441
      [] name = "HANGUL CHOSEONG KIYEOK-TIKEUT" -> 4442
      [] name = "HANGUL CHOSEONG NIEUN-SIOS" -> 4443
      [] name = "HANGUL CHOSEONG NIEUN-CIEUC" -> 4444
      [] name = "HANGUL CHOSEONG NIEUN-HIEUH" -> 4445
      [] name = "HANGUL CHOSEONG TIKEUT-RIEUL" -> 4446
      [] name = "HANGUL CHOSEONG FILLER" -> 4447
      [] name = "HANGUL JUNGSEONG FILLER" -> 4448
      [] name = "HANGUL JUNGSEONG A" -> 4449
      [] name = "HANGUL JUNGSEONG AE" -> 4450
      [] name = "HANGUL JUNGSEONG YA" -> 4451
      [] name = "HANGUL JUNGSEONG YAE" -> 4452
      [] name = "HANGUL JUNGSEONG EO" -> 4453
      [] name = "HANGUL JUNGSEONG E" -> 4454
      [] name = "HANGUL JUNGSEONG YEO" -> 4455
      [] name = "HANGUL JUNGSEONG YE" -> 4456
      [] name = "HANGUL JUNGSEONG O" -> 4457
      [] name = "HANGUL JUNGSEONG WA" -> 4458
      [] name = "HANGUL JUNGSEONG WAE" -> 4459
      [] name = "HANGUL JUNGSEONG OE" -> 4460
      [] name = "HANGUL JUNGSEONG YO" -> 4461
      [] name = "HANGUL JUNGSEONG U" -> 4462
      [] name = "HANGUL JUNGSEONG WEO" -> 4463
      [] name = "HANGUL JUNGSEONG WE" -> 4464
      [] name = "HANGUL JUNGSEONG WI" -> 4465
      [] name = "HANGUL JUNGSEONG YU" -> 4466
      [] name = "HANGUL JUNGSEONG EU" -> 4467
      [] name = "HANGUL JUNGSEONG YI" -> 4468
      [] name = "HANGUL JUNGSEONG I" -> 4469
      [] name = "HANGUL JUNGSEONG A-O" -> 4470
      [] name = "HANGUL JUNGSEONG A-U" -> 4471
      [] name = "HANGUL JUNGSEONG YA-O" -> 4472
      [] name = "HANGUL JUNGSEONG YA-YO" -> 4473
      [] name = "HANGUL JUNGSEONG EO-O" -> 4474
      [] name = "HANGUL JUNGSEONG EO-U" -> 4475
      [] name = "HANGUL JUNGSEONG EO-EU" -> 4476
      [] name = "HANGUL JUNGSEONG YEO-O" -> 4477
      [] name = "HANGUL JUNGSEONG YEO-U" -> 4478
      [] name = "HANGUL JUNGSEONG O-EO" -> 4479
      [] name = "HANGUL JUNGSEONG O-E" -> 4480
      [] name = "HANGUL JUNGSEONG O-YE" -> 4481
      [] name = "HANGUL JUNGSEONG O-O" -> 4482
      [] name = "HANGUL JUNGSEONG O-U" -> 4483
      [] name = "HANGUL JUNGSEONG YO-YA" -> 4484
      [] name = "HANGUL JUNGSEONG YO-YAE" -> 4485
      [] name = "HANGUL JUNGSEONG YO-YEO" -> 4486
      [] name = "HANGUL JUNGSEONG YO-O" -> 4487
      [] name = "HANGUL JUNGSEONG YO-I" -> 4488
      [] name = "HANGUL JUNGSEONG U-A" -> 4489
      [] name = "HANGUL JUNGSEONG U-AE" -> 4490
      [] name = "HANGUL JUNGSEONG U-EO-EU" -> 4491
      [] name = "HANGUL JUNGSEONG U-YE" -> 4492
      [] name = "HANGUL JUNGSEONG U-U" -> 4493
      [] name = "HANGUL JUNGSEONG YU-A" -> 4494
      [] name = "HANGUL JUNGSEONG YU-EO" -> 4495
      [] name = "HANGUL JUNGSEONG YU-E" -> 4496
      [] name = "HANGUL JUNGSEONG YU-YEO" -> 4497
      [] name = "HANGUL JUNGSEONG YU-YE" -> 4498
      [] name = "HANGUL JUNGSEONG YU-U" -> 4499
      [] name = "HANGUL JUNGSEONG YU-I" -> 4500
      [] name = "HANGUL JUNGSEONG EU-U" -> 4501
      [] name = "HANGUL JUNGSEONG EU-EU" -> 4502
      [] name = "HANGUL JUNGSEONG YI-U" -> 4503
      [] name = "HANGUL JUNGSEONG I-A" -> 4504
      [] name = "HANGUL JUNGSEONG I-YA" -> 4505
      [] name = "HANGUL JUNGSEONG I-O" -> 4506
      [] name = "HANGUL JUNGSEONG I-U" -> 4507
      [] name = "HANGUL JUNGSEONG I-EU" -> 4508
      [] name = "HANGUL JUNGSEONG I-ARAEA" -> 4509
      [] name = "HANGUL JUNGSEONG ARAEA" -> 4510
      [] name = "HANGUL JUNGSEONG ARAEA-EO" -> 4511
      [] name = "HANGUL JUNGSEONG ARAEA-U" -> 4512
      [] name = "HANGUL JUNGSEONG ARAEA-I" -> 4513
      [] name = "HANGUL JUNGSEONG SSANGARAEA" -> 4514
      [] name = "HANGUL JUNGSEONG A-EU" -> 4515
      [] name = "HANGUL JUNGSEONG YA-U" -> 4516
      [] name = "HANGUL JUNGSEONG YEO-YA" -> 4517
      [] name = "HANGUL JUNGSEONG O-YA" -> 4518
      [] name = "HANGUL JUNGSEONG O-YAE" -> 4519
      [] name = "HANGUL JONGSEONG KIYEOK" -> 4520
      [] name = "HANGUL JONGSEONG SSANGKIYEOK" -> 4521
      [] name = "HANGUL JONGSEONG KIYEOK-SIOS" -> 4522
      [] name = "HANGUL JONGSEONG NIEUN" -> 4523
      [] name = "HANGUL JONGSEONG NIEUN-CIEUC" -> 4524
      [] name = "HANGUL JONGSEONG NIEUN-HIEUH" -> 4525
      [] name = "HANGUL JONGSEONG TIKEUT" -> 4526
      [] name = "HANGUL JONGSEONG RIEUL" -> 4527
      [] name = "HANGUL JONGSEONG RIEUL-KIYEOK" -> 4528
      [] name = "HANGUL JONGSEONG RIEUL-MIEUM" -> 4529
      [] name = "HANGUL JONGSEONG RIEUL-PIEUP" -> 4530
      [] name = "HANGUL JONGSEONG RIEUL-SIOS" -> 4531
      [] name = "HANGUL JONGSEONG RIEUL-THIEUTH" -> 4532
      [] name = "HANGUL JONGSEONG RIEUL-PHIEUPH" -> 4533
      [] name = "HANGUL JONGSEONG RIEUL-HIEUH" -> 4534
      [] name = "HANGUL JONGSEONG MIEUM" -> 4535
      [] name = "HANGUL JONGSEONG PIEUP" -> 4536
      [] name = "HANGUL JONGSEONG PIEUP-SIOS" -> 4537
      [] name = "HANGUL JONGSEONG SIOS" -> 4538
      [] name = "HANGUL JONGSEONG SSANGSIOS" -> 4539
      [] name = "HANGUL JONGSEONG IEUNG" -> 4540
      [] name = "HANGUL JONGSEONG CIEUC" -> 4541
      [] name = "HANGUL JONGSEONG CHIEUCH" -> 4542
      [] name = "HANGUL JONGSEONG KHIEUKH" -> 4543
      [] name = "HANGUL JONGSEONG THIEUTH" -> 4544
      [] name = "HANGUL JONGSEONG PHIEUPH" -> 4545
      [] name = "HANGUL JONGSEONG HIEUH" -> 4546
      [] name = "HANGUL JONGSEONG KIYEOK-RIEUL" -> 4547
      [] name = "HANGUL JONGSEONG KIYEOK-SIOS-KIYEOK" -> 4548
      [] name = "HANGUL JONGSEONG NIEUN-KIYEOK" -> 4549
      [] name = "HANGUL JONGSEONG NIEUN-TIKEUT" -> 4550
      [] name = "HANGUL JONGSEONG NIEUN-SIOS" -> 4551
      [] name = "HANGUL JONGSEONG NIEUN-PANSIOS" -> 4552
      [] name = "HANGUL JONGSEONG NIEUN-THIEUTH" -> 4553
      [] name = "HANGUL JONGSEONG TIKEUT-KIYEOK" -> 4554
      [] name = "HANGUL JONGSEONG TIKEUT-RIEUL" -> 4555
      [] name = "HANGUL JONGSEONG RIEUL-KIYEOK-SIOS" -> 4556
      [] name = "HANGUL JONGSEONG RIEUL-NIEUN" -> 4557
      [] name = "HANGUL JONGSEONG RIEUL-TIKEUT" -> 4558
      [] name = "HANGUL JONGSEONG RIEUL-TIKEUT-HIEUH" -> 4559
      [] name = "HANGUL JONGSEONG SSANGRIEUL" -> 4560
      [] name = "HANGUL JONGSEONG RIEUL-MIEUM-KIYEOK" -> 4561
      [] name = "HANGUL JONGSEONG RIEUL-MIEUM-SIOS" -> 4562
      [] name = "HANGUL JONGSEONG RIEUL-PIEUP-SIOS" -> 4563
      [] name = "HANGUL JONGSEONG RIEUL-PIEUP-HIEUH" -> 4564
      [] name = "HANGUL JONGSEONG RIEUL-KAPYEOUNPIEUP" -> 4565
      [] name = "HANGUL JONGSEONG RIEUL-SSANGSIOS" -> 4566
      [] name = "HANGUL JONGSEONG RIEUL-PANSIOS" -> 4567
      [] name = "HANGUL JONGSEONG RIEUL-KHIEUKH" -> 4568
      [] name = "HANGUL JONGSEONG RIEUL-YEORINHIEUH" -> 4569
      [] name = "HANGUL JONGSEONG MIEUM-KIYEOK" -> 4570
      [] name = "HANGUL JONGSEONG MIEUM-RIEUL" -> 4571
      [] name = "HANGUL JONGSEONG MIEUM-PIEUP" -> 4572
      [] name = "HANGUL JONGSEONG MIEUM-SIOS" -> 4573
      [] name = "HANGUL JONGSEONG MIEUM-SSANGSIOS" -> 4574
      [] name = "HANGUL JONGSEONG MIEUM-PANSIOS" -> 4575
      [] name = "HANGUL JONGSEONG MIEUM-CHIEUCH" -> 4576
      [] name = "HANGUL JONGSEONG MIEUM-HIEUH" -> 4577
      [] name = "HANGUL JONGSEONG KAPYEOUNMIEUM" -> 4578
      [] name = "HANGUL JONGSEONG PIEUP-RIEUL" -> 4579
      [] name = "HANGUL JONGSEONG PIEUP-PHIEUPH" -> 4580
      [] name = "HANGUL JONGSEONG PIEUP-HIEUH" -> 4581
      [] name = "HANGUL JONGSEONG KAPYEOUNPIEUP" -> 4582
      [] name = "HANGUL JONGSEONG SIOS-KIYEOK" -> 4583
      [] name = "HANGUL JONGSEONG SIOS-TIKEUT" -> 4584
      [] name = "HANGUL JONGSEONG SIOS-RIEUL" -> 4585
      [] name = "HANGUL JONGSEONG SIOS-PIEUP" -> 4586
      [] name = "HANGUL JONGSEONG PANSIOS" -> 4587
      [] name = "HANGUL JONGSEONG IEUNG-KIYEOK" -> 4588
      [] name = "HANGUL JONGSEONG YESIEUNG-KIYEOK" -> 4588
      [] name = "HANGUL JONGSEONG IEUNG-SSANGKIYEOK" -> 4589
      [] name = "HANGUL JONGSEONG YESIEUNG-SSANGKIYEOK" -> 4589
      [] name = "HANGUL JONGSEONG SSANGIEUNG" -> 4590
      [] name = "HANGUL JONGSEONG SSANGYESIEUNG" -> 4590
      [] name = "HANGUL JONGSEONG IEUNG-KHIEUKH" -> 4591
      [] name = "HANGUL JONGSEONG YESIEUNG-KHIEUKH" -> 4591
      [] name = "HANGUL JONGSEONG YESIEUNG" -> 4592
      [] name = "HANGUL JONGSEONG YESIEUNG-SIOS" -> 4593
      [] name = "HANGUL JONGSEONG YESIEUNG-PANSIOS" -> 4594
      [] name = "HANGUL JONGSEONG PHIEUPH-PIEUP" -> 4595
      [] name = "HANGUL JONGSEONG KAPYEOUNPHIEUPH" -> 4596
      [] name = "HANGUL JONGSEONG HIEUH-NIEUN" -> 4597
      [] name = "HANGUL JONGSEONG HIEUH-RIEUL" -> 4598
      [] name = "HANGUL JONGSEONG HIEUH-MIEUM" -> 4599
      [] name = "HANGUL JONGSEONG HIEUH-PIEUP" -> 4600
      [] name = "HANGUL JONGSEONG YEORINHIEUH" -> 4601
      [] name = "HANGUL JONGSEONG KIYEOK-NIEUN" -> 4602
      [] name = "HANGUL JONGSEONG KIYEOK-PIEUP" -> 4603
      [] name = "HANGUL JONGSEONG KIYEOK-CHIEUCH" -> 4604
      [] name = "HANGUL JONGSEONG KIYEOK-KHIEUKH" -> 4605
      [] name = "HANGUL JONGSEONG KIYEOK-HIEUH" -> 4606
      [] name = "HANGUL JONGSEONG SSANGNIEUN" -> 4607
      [] name = "ETHIOPIC SYLLABLE HA" -> 4608
      [] name = "ETHIOPIC SYLLABLE HU" -> 4609
      [] name = "ETHIOPIC SYLLABLE HI" -> 4610
      [] name = "ETHIOPIC SYLLABLE HAA" -> 4611
      [] name = "ETHIOPIC SYLLABLE HEE" -> 4612
      [] name = "ETHIOPIC SYLLABLE HE" -> 4613
      [] name = "ETHIOPIC SYLLABLE HO" -> 4614
      [] name = "ETHIOPIC SYLLABLE HOA" -> 4615
      [] name = "ETHIOPIC SYLLABLE LA" -> 4616
      [] name = "ETHIOPIC SYLLABLE LU" -> 4617
      [] name = "ETHIOPIC SYLLABLE LI" -> 4618
      [] name = "ETHIOPIC SYLLABLE LAA" -> 4619
      [] name = "ETHIOPIC SYLLABLE LEE" -> 4620
      [] name = "ETHIOPIC SYLLABLE LE" -> 4621
      [] name = "ETHIOPIC SYLLABLE LO" -> 4622
      [] name = "ETHIOPIC SYLLABLE LWA" -> 4623
      [] name = "ETHIOPIC SYLLABLE HHA" -> 4624
      [] name = "ETHIOPIC SYLLABLE HHU" -> 4625
      [] name = "ETHIOPIC SYLLABLE HHI" -> 4626
      [] name = "ETHIOPIC SYLLABLE HHAA" -> 4627
      [] name = "ETHIOPIC SYLLABLE HHEE" -> 4628
      [] name = "ETHIOPIC SYLLABLE HHE" -> 4629
      [] name = "ETHIOPIC SYLLABLE HHO" -> 4630
      [] name = "ETHIOPIC SYLLABLE HHWA" -> 4631
      [] name = "ETHIOPIC SYLLABLE MA" -> 4632
      [] name = "ETHIOPIC SYLLABLE MU" -> 4633
      [] name = "ETHIOPIC SYLLABLE MI" -> 4634
      [] name = "ETHIOPIC SYLLABLE MAA" -> 4635
      [] name = "ETHIOPIC SYLLABLE MEE" -> 4636
      [] name = "ETHIOPIC SYLLABLE ME" -> 4637
      [] name = "ETHIOPIC SYLLABLE MO" -> 4638
      [] name = "ETHIOPIC SYLLABLE MWA" -> 4639
      [] name = "ETHIOPIC SYLLABLE SZA" -> 4640
      [] name = "ETHIOPIC SYLLABLE SZU" -> 4641
      [] name = "ETHIOPIC SYLLABLE SZI" -> 4642
      [] name = "ETHIOPIC SYLLABLE SZAA" -> 4643
      [] name = "ETHIOPIC SYLLABLE SZEE" -> 4644
      [] name = "ETHIOPIC SYLLABLE SZE" -> 4645
      [] name = "ETHIOPIC SYLLABLE SZO" -> 4646
      [] name = "ETHIOPIC SYLLABLE SZWA" -> 4647
      [] name = "ETHIOPIC SYLLABLE RA" -> 4648
      [] name = "ETHIOPIC SYLLABLE RU" -> 4649
      [] name = "ETHIOPIC SYLLABLE RI" -> 4650
      [] name = "ETHIOPIC SYLLABLE RAA" -> 4651
      [] name = "ETHIOPIC SYLLABLE REE" -> 4652
      [] name = "ETHIOPIC SYLLABLE RE" -> 4653
      [] name = "ETHIOPIC SYLLABLE RO" -> 4654
      [] name = "ETHIOPIC SYLLABLE RWA" -> 4655
      [] name = "ETHIOPIC SYLLABLE SA" -> 4656
      [] name = "ETHIOPIC SYLLABLE SU" -> 4657
      [] name = "ETHIOPIC SYLLABLE SI" -> 4658
      [] name = "ETHIOPIC SYLLABLE SAA" -> 4659
      [] name = "ETHIOPIC SYLLABLE SEE" -> 4660
      [] name = "ETHIOPIC SYLLABLE SE" -> 4661
      [] name = "ETHIOPIC SYLLABLE SO" -> 4662
      [] name = "ETHIOPIC SYLLABLE SWA" -> 4663
      [] name = "ETHIOPIC SYLLABLE SHA" -> 4664
      [] name = "ETHIOPIC SYLLABLE SHU" -> 4665
      [] name = "ETHIOPIC SYLLABLE SHI" -> 4666
      [] name = "ETHIOPIC SYLLABLE SHAA" -> 4667
      [] name = "ETHIOPIC SYLLABLE SHEE" -> 4668
      [] name = "ETHIOPIC SYLLABLE SHE" -> 4669
      [] name = "ETHIOPIC SYLLABLE SHO" -> 4670
      [] name = "ETHIOPIC SYLLABLE SHWA" -> 4671
      [] name = "ETHIOPIC SYLLABLE QA" -> 4672
      [] name = "ETHIOPIC SYLLABLE QU" -> 4673
      [] name = "ETHIOPIC SYLLABLE QI" -> 4674
      [] name = "ETHIOPIC SYLLABLE QAA" -> 4675
      [] name = "ETHIOPIC SYLLABLE QEE" -> 4676
      [] name = "ETHIOPIC SYLLABLE QE" -> 4677
      [] name = "ETHIOPIC SYLLABLE QO" -> 4678
      [] name = "ETHIOPIC SYLLABLE QOA" -> 4679
      [] name = "ETHIOPIC SYLLABLE QWA" -> 4680
      [] name = "ETHIOPIC SYLLABLE QWI" -> 4682
      [] name = "ETHIOPIC SYLLABLE QWAA" -> 4683
      [] name = "ETHIOPIC SYLLABLE QWEE" -> 4684
      [] name = "ETHIOPIC SYLLABLE QWE" -> 4685
      [] name = "ETHIOPIC SYLLABLE QHA" -> 4688
      [] name = "ETHIOPIC SYLLABLE QHU" -> 4689
      [] name = "ETHIOPIC SYLLABLE QHI" -> 4690
      [] name = "ETHIOPIC SYLLABLE QHAA" -> 4691
      [] name = "ETHIOPIC SYLLABLE QHEE" -> 4692
      [] name = "ETHIOPIC SYLLABLE QHE" -> 4693
      [] name = "ETHIOPIC SYLLABLE QHO" -> 4694
      [] name = "ETHIOPIC SYLLABLE QHWA" -> 4696
      [] name = "ETHIOPIC SYLLABLE QHWI" -> 4698
      [] name = "ETHIOPIC SYLLABLE QHWAA" -> 4699
      [] name = "ETHIOPIC SYLLABLE QHWEE" -> 4700
      [] name = "ETHIOPIC SYLLABLE QHWE" -> 4701
      [] name = "ETHIOPIC SYLLABLE BA" -> 4704
      [] name = "ETHIOPIC SYLLABLE BU" -> 4705
      [] name = "ETHIOPIC SYLLABLE BI" -> 4706
      [] name = "ETHIOPIC SYLLABLE BAA" -> 4707
      [] name = "ETHIOPIC SYLLABLE BEE" -> 4708
      [] name = "ETHIOPIC SYLLABLE BE" -> 4709
      [] name = "ETHIOPIC SYLLABLE BO" -> 4710
      [] name = "ETHIOPIC SYLLABLE BWA" -> 4711
      [] name = "ETHIOPIC SYLLABLE VA" -> 4712
      [] name = "ETHIOPIC SYLLABLE VU" -> 4713
      [] name = "ETHIOPIC SYLLABLE VI" -> 4714
      [] name = "ETHIOPIC SYLLABLE VAA" -> 4715
      [] name = "ETHIOPIC SYLLABLE VEE" -> 4716
      [] name = "ETHIOPIC SYLLABLE VE" -> 4717
      [] name = "ETHIOPIC SYLLABLE VO" -> 4718
      [] name = "ETHIOPIC SYLLABLE VWA" -> 4719
      [] name = "ETHIOPIC SYLLABLE TA" -> 4720
      [] name = "ETHIOPIC SYLLABLE TU" -> 4721
      [] name = "ETHIOPIC SYLLABLE TI" -> 4722
      [] name = "ETHIOPIC SYLLABLE TAA" -> 4723
      [] name = "ETHIOPIC SYLLABLE TEE" -> 4724
      [] name = "ETHIOPIC SYLLABLE TE" -> 4725
      [] name = "ETHIOPIC SYLLABLE TO" -> 4726
      [] name = "ETHIOPIC SYLLABLE TWA" -> 4727
      [] name = "ETHIOPIC SYLLABLE CA" -> 4728
      [] name = "ETHIOPIC SYLLABLE CU" -> 4729
      [] name = "ETHIOPIC SYLLABLE CI" -> 4730
      [] name = "ETHIOPIC SYLLABLE CAA" -> 4731
      [] name = "ETHIOPIC SYLLABLE CEE" -> 4732
      [] name = "ETHIOPIC SYLLABLE CE" -> 4733
      [] name = "ETHIOPIC SYLLABLE CO" -> 4734
      [] name = "ETHIOPIC SYLLABLE CWA" -> 4735
      [] name = "ETHIOPIC SYLLABLE XA" -> 4736
      [] name = "ETHIOPIC SYLLABLE XU" -> 4737
      [] name = "ETHIOPIC SYLLABLE XI" -> 4738
      [] name = "ETHIOPIC SYLLABLE XAA" -> 4739
      [] name = "ETHIOPIC SYLLABLE XEE" -> 4740
      [] name = "ETHIOPIC SYLLABLE XE" -> 4741
      [] name = "ETHIOPIC SYLLABLE XO" -> 4742
      [] name = "ETHIOPIC SYLLABLE XOA" -> 4743
      [] name = "ETHIOPIC SYLLABLE XWA" -> 4744
      [] name = "ETHIOPIC SYLLABLE XWI" -> 4746
      [] name = "ETHIOPIC SYLLABLE XWAA" -> 4747
      [] name = "ETHIOPIC SYLLABLE XWEE" -> 4748
      [] name = "ETHIOPIC SYLLABLE XWE" -> 4749
      [] name = "ETHIOPIC SYLLABLE NA" -> 4752
      [] name = "ETHIOPIC SYLLABLE NU" -> 4753
      [] name = "ETHIOPIC SYLLABLE NI" -> 4754
      [] name = "ETHIOPIC SYLLABLE NAA" -> 4755
      [] name = "ETHIOPIC SYLLABLE NEE" -> 4756
      [] name = "ETHIOPIC SYLLABLE NE" -> 4757
      [] name = "ETHIOPIC SYLLABLE NO" -> 4758
      [] name = "ETHIOPIC SYLLABLE NWA" -> 4759
      [] name = "ETHIOPIC SYLLABLE NYA" -> 4760
      [] name = "ETHIOPIC SYLLABLE NYU" -> 4761
      [] name = "ETHIOPIC SYLLABLE NYI" -> 4762
      [] name = "ETHIOPIC SYLLABLE NYAA" -> 4763
      [] name = "ETHIOPIC SYLLABLE NYEE" -> 4764
      [] name = "ETHIOPIC SYLLABLE NYE" -> 4765
      [] name = "ETHIOPIC SYLLABLE NYO" -> 4766
      [] name = "ETHIOPIC SYLLABLE NYWA" -> 4767
      [] name = "ETHIOPIC SYLLABLE GLOTTAL A" -> 4768
      [] name = "ETHIOPIC SYLLABLE GLOTTAL U" -> 4769
      [] name = "ETHIOPIC SYLLABLE GLOTTAL I" -> 4770
      [] name = "ETHIOPIC SYLLABLE GLOTTAL AA" -> 4771
      [] name = "ETHIOPIC SYLLABLE GLOTTAL EE" -> 4772
      [] name = "ETHIOPIC SYLLABLE GLOTTAL E" -> 4773
      [] name = "ETHIOPIC SYLLABLE GLOTTAL O" -> 4774
      [] name = "ETHIOPIC SYLLABLE GLOTTAL WA" -> 4775
      [] name = "ETHIOPIC SYLLABLE KA" -> 4776
      [] name = "ETHIOPIC SYLLABLE KU" -> 4777
      [] name = "ETHIOPIC SYLLABLE KI" -> 4778
      [] name = "ETHIOPIC SYLLABLE KAA" -> 4779
      [] name = "ETHIOPIC SYLLABLE KEE" -> 4780
      [] name = "ETHIOPIC SYLLABLE KE" -> 4781
      [] name = "ETHIOPIC SYLLABLE KO" -> 4782
      [] name = "ETHIOPIC SYLLABLE KOA" -> 4783
      [] name = "ETHIOPIC SYLLABLE KWA" -> 4784
      [] name = "ETHIOPIC SYLLABLE KWI" -> 4786
      [] name = "ETHIOPIC SYLLABLE KWAA" -> 4787
      [] name = "ETHIOPIC SYLLABLE KWEE" -> 4788
      [] name = "ETHIOPIC SYLLABLE KWE" -> 4789
      [] name = "ETHIOPIC SYLLABLE KXA" -> 4792
      [] name = "ETHIOPIC SYLLABLE KXU" -> 4793
      [] name = "ETHIOPIC SYLLABLE KXI" -> 4794
      [] name = "ETHIOPIC SYLLABLE KXAA" -> 4795
      [] name = "ETHIOPIC SYLLABLE KXEE" -> 4796
      [] name = "ETHIOPIC SYLLABLE KXE" -> 4797
      [] name = "ETHIOPIC SYLLABLE KXO" -> 4798
      [] name = "ETHIOPIC SYLLABLE KXWA" -> 4800
      [] name = "ETHIOPIC SYLLABLE KXWI" -> 4802
      [] name = "ETHIOPIC SYLLABLE KXWAA" -> 4803
      [] name = "ETHIOPIC SYLLABLE KXWEE" -> 4804
      [] name = "ETHIOPIC SYLLABLE KXWE" -> 4805
      [] name = "ETHIOPIC SYLLABLE WA" -> 4808
      [] name = "ETHIOPIC SYLLABLE WU" -> 4809
      [] name = "ETHIOPIC SYLLABLE WI" -> 4810
      [] name = "ETHIOPIC SYLLABLE WAA" -> 4811
      [] name = "ETHIOPIC SYLLABLE WEE" -> 4812
      [] name = "ETHIOPIC SYLLABLE WE" -> 4813
      [] name = "ETHIOPIC SYLLABLE WO" -> 4814
      [] name = "ETHIOPIC SYLLABLE WOA" -> 4815
      [] name = "ETHIOPIC SYLLABLE PHARYNGEAL A" -> 4816
      [] name = "ETHIOPIC SYLLABLE PHARYNGEAL U" -> 4817
      [] name = "ETHIOPIC SYLLABLE PHARYNGEAL I" -> 4818
      [] name = "ETHIOPIC SYLLABLE PHARYNGEAL AA" -> 4819
      [] name = "ETHIOPIC SYLLABLE PHARYNGEAL EE" -> 4820
      [] name = "ETHIOPIC SYLLABLE PHARYNGEAL E" -> 4821
      [] name = "ETHIOPIC SYLLABLE PHARYNGEAL O" -> 4822
      [] name = "ETHIOPIC SYLLABLE ZA" -> 4824
      [] name = "ETHIOPIC SYLLABLE ZU" -> 4825
      [] name = "ETHIOPIC SYLLABLE ZI" -> 4826
      [] name = "ETHIOPIC SYLLABLE ZAA" -> 4827
      [] name = "ETHIOPIC SYLLABLE ZEE" -> 4828
      [] name = "ETHIOPIC SYLLABLE ZE" -> 4829
      [] name = "ETHIOPIC SYLLABLE ZO" -> 4830
      [] name = "ETHIOPIC SYLLABLE ZWA" -> 4831
      [] name = "ETHIOPIC SYLLABLE ZHA" -> 4832
      [] name = "ETHIOPIC SYLLABLE ZHU" -> 4833
      [] name = "ETHIOPIC SYLLABLE ZHI" -> 4834
      [] name = "ETHIOPIC SYLLABLE ZHAA" -> 4835
      [] name = "ETHIOPIC SYLLABLE ZHEE" -> 4836
      [] name = "ETHIOPIC SYLLABLE ZHE" -> 4837
      [] name = "ETHIOPIC SYLLABLE ZHO" -> 4838
      [] name = "ETHIOPIC SYLLABLE ZHWA" -> 4839
      [] name = "ETHIOPIC SYLLABLE YA" -> 4840
      [] name = "ETHIOPIC SYLLABLE YU" -> 4841
      [] name = "ETHIOPIC SYLLABLE YI" -> 4842
      [] name = "ETHIOPIC SYLLABLE YAA" -> 4843
      [] name = "ETHIOPIC SYLLABLE YEE" -> 4844
      [] name = "ETHIOPIC SYLLABLE YE" -> 4845
      [] name = "ETHIOPIC SYLLABLE YO" -> 4846
      [] name = "ETHIOPIC SYLLABLE YOA" -> 4847
      [] name = "ETHIOPIC SYLLABLE DA" -> 4848
      [] name = "ETHIOPIC SYLLABLE DU" -> 4849
      [] name = "ETHIOPIC SYLLABLE DI" -> 4850
      [] name = "ETHIOPIC SYLLABLE DAA" -> 4851
      [] name = "ETHIOPIC SYLLABLE DEE" -> 4852
      [] name = "ETHIOPIC SYLLABLE DE" -> 4853
      [] name = "ETHIOPIC SYLLABLE DO" -> 4854
      [] name = "ETHIOPIC SYLLABLE DWA" -> 4855
      [] name = "ETHIOPIC SYLLABLE DDA" -> 4856
      [] name = "ETHIOPIC SYLLABLE DDU" -> 4857
      [] name = "ETHIOPIC SYLLABLE DDI" -> 4858
      [] name = "ETHIOPIC SYLLABLE DDAA" -> 4859
      [] name = "ETHIOPIC SYLLABLE DDEE" -> 4860
      [] name = "ETHIOPIC SYLLABLE DDE" -> 4861
      [] name = "ETHIOPIC SYLLABLE DDO" -> 4862
      [] name = "ETHIOPIC SYLLABLE DDWA" -> 4863
      [] name = "ETHIOPIC SYLLABLE JA" -> 4864
      [] name = "ETHIOPIC SYLLABLE JU" -> 4865
      [] name = "ETHIOPIC SYLLABLE JI" -> 4866
      [] name = "ETHIOPIC SYLLABLE JAA" -> 4867
      [] name = "ETHIOPIC SYLLABLE JEE" -> 4868
      [] name = "ETHIOPIC SYLLABLE JE" -> 4869
      [] name = "ETHIOPIC SYLLABLE JO" -> 4870
      [] name = "ETHIOPIC SYLLABLE JWA" -> 4871
      [] name = "ETHIOPIC SYLLABLE GA" -> 4872
      [] name = "ETHIOPIC SYLLABLE GU" -> 4873
      [] name = "ETHIOPIC SYLLABLE GI" -> 4874
      [] name = "ETHIOPIC SYLLABLE GAA" -> 4875
      [] name = "ETHIOPIC SYLLABLE GEE" -> 4876
      [] name = "ETHIOPIC SYLLABLE GE" -> 4877
      [] name = "ETHIOPIC SYLLABLE GO" -> 4878
      [] name = "ETHIOPIC SYLLABLE GOA" -> 4879
      [] name = "ETHIOPIC SYLLABLE GWA" -> 4880
      [] name = "ETHIOPIC SYLLABLE GWI" -> 4882
      [] name = "ETHIOPIC SYLLABLE GWAA" -> 4883
      [] name = "ETHIOPIC SYLLABLE GWEE" -> 4884
      [] name = "ETHIOPIC SYLLABLE GWE" -> 4885
      [] name = "ETHIOPIC SYLLABLE GGA" -> 4888
      [] name = "ETHIOPIC SYLLABLE GGU" -> 4889
      [] name = "ETHIOPIC SYLLABLE GGI" -> 4890
      [] name = "ETHIOPIC SYLLABLE GGAA" -> 4891
      [] name = "ETHIOPIC SYLLABLE GGEE" -> 4892
      [] name = "ETHIOPIC SYLLABLE GGE" -> 4893
      [] name = "ETHIOPIC SYLLABLE GGO" -> 4894
      [] name = "ETHIOPIC SYLLABLE GGWAA" -> 4895
      [] name = "ETHIOPIC SYLLABLE THA" -> 4896
      [] name = "ETHIOPIC SYLLABLE THU" -> 4897
      [] name = "ETHIOPIC SYLLABLE THI" -> 4898
      [] name = "ETHIOPIC SYLLABLE THAA" -> 4899
      [] name = "ETHIOPIC SYLLABLE THEE" -> 4900
      [] name = "ETHIOPIC SYLLABLE THE" -> 4901
      [] name = "ETHIOPIC SYLLABLE THO" -> 4902
      [] name = "ETHIOPIC SYLLABLE THWA" -> 4903
      [] name = "ETHIOPIC SYLLABLE CHA" -> 4904
      [] name = "ETHIOPIC SYLLABLE CHU" -> 4905
      [] name = "ETHIOPIC SYLLABLE CHI" -> 4906
      [] name = "ETHIOPIC SYLLABLE CHAA" -> 4907
      [] name = "ETHIOPIC SYLLABLE CHEE" -> 4908
      [] name = "ETHIOPIC SYLLABLE CHE" -> 4909
      [] name = "ETHIOPIC SYLLABLE CHO" -> 4910
      [] name = "ETHIOPIC SYLLABLE CHWA" -> 4911
      [] name = "ETHIOPIC SYLLABLE PHA" -> 4912
      [] name = "ETHIOPIC SYLLABLE PHU" -> 4913
      [] name = "ETHIOPIC SYLLABLE PHI" -> 4914
      [] name = "ETHIOPIC SYLLABLE PHAA" -> 4915
      [] name = "ETHIOPIC SYLLABLE PHEE" -> 4916
      [] name = "ETHIOPIC SYLLABLE PHE" -> 4917
      [] name = "ETHIOPIC SYLLABLE PHO" -> 4918
      [] name = "ETHIOPIC SYLLABLE PHWA" -> 4919
      [] name = "ETHIOPIC SYLLABLE TSA" -> 4920
      [] name = "ETHIOPIC SYLLABLE TSU" -> 4921
      [] name = "ETHIOPIC SYLLABLE TSI" -> 4922
      [] name = "ETHIOPIC SYLLABLE TSAA" -> 4923
      [] name = "ETHIOPIC SYLLABLE TSEE" -> 4924
      [] name = "ETHIOPIC SYLLABLE TSE" -> 4925
      [] name = "ETHIOPIC SYLLABLE TSO" -> 4926
      [] name = "ETHIOPIC SYLLABLE TSWA" -> 4927
      [] name = "ETHIOPIC SYLLABLE TZA" -> 4928
      [] name = "ETHIOPIC SYLLABLE TZU" -> 4929
      [] name = "ETHIOPIC SYLLABLE TZI" -> 4930
      [] name = "ETHIOPIC SYLLABLE TZAA" -> 4931
      [] name = "ETHIOPIC SYLLABLE TZEE" -> 4932
      [] name = "ETHIOPIC SYLLABLE TZE" -> 4933
      [] name = "ETHIOPIC SYLLABLE TZO" -> 4934
      [] name = "ETHIOPIC SYLLABLE TZOA" -> 4935
      [] name = "ETHIOPIC SYLLABLE FA" -> 4936
      [] name = "ETHIOPIC SYLLABLE FU" -> 4937
      [] name = "ETHIOPIC SYLLABLE FI" -> 4938
      [] name = "ETHIOPIC SYLLABLE FAA" -> 4939
      [] name = "ETHIOPIC SYLLABLE FEE" -> 4940
      [] name = "ETHIOPIC SYLLABLE FE" -> 4941
      [] name = "ETHIOPIC SYLLABLE FO" -> 4942
      [] name = "ETHIOPIC SYLLABLE FWA" -> 4943
      [] name = "ETHIOPIC SYLLABLE PA" -> 4944
      [] name = "ETHIOPIC SYLLABLE PU" -> 4945
      [] name = "ETHIOPIC SYLLABLE PI" -> 4946
      [] name = "ETHIOPIC SYLLABLE PAA" -> 4947
      [] name = "ETHIOPIC SYLLABLE PEE" -> 4948
      [] name = "ETHIOPIC SYLLABLE PE" -> 4949
      [] name = "ETHIOPIC SYLLABLE PO" -> 4950
      [] name = "ETHIOPIC SYLLABLE PWA" -> 4951
      [] name = "ETHIOPIC SYLLABLE RYA" -> 4952
      [] name = "ETHIOPIC SYLLABLE MYA" -> 4953
      [] name = "ETHIOPIC SYLLABLE FYA" -> 4954
      [] name = "ETHIOPIC COMBINING GEMINATION AND VOWEL LENGTH MARK" -> 4957
      [] name = "ETHIOPIC COMBINING VOWEL LENGTH MARK" -> 4958
      [] name = "ETHIOPIC COMBINING GEMINATION MARK" -> 4959
      [] name = "ETHIOPIC SECTION MARK" -> 4960
      [] name = "ETHIOPIC WORDSPACE" -> 4961
      [] name = "ETHIOPIC FULL STOP" -> 4962
      [] name = "ETHIOPIC COMMA" -> 4963
      [] name = "ETHIOPIC SEMICOLON" -> 4964
      [] name = "ETHIOPIC COLON" -> 4965
      [] name = "ETHIOPIC PREFACE COLON" -> 4966
      [] name = "ETHIOPIC QUESTION MARK" -> 4967
      [] name = "ETHIOPIC PARAGRAPH SEPARATOR" -> 4968
      [] name = "ETHIOPIC DIGIT ONE" -> 4969
      [] name = "ETHIOPIC DIGIT TWO" -> 4970
      [] name = "ETHIOPIC DIGIT THREE" -> 4971
      [] name = "ETHIOPIC DIGIT FOUR" -> 4972
      [] name = "ETHIOPIC DIGIT FIVE" -> 4973
      [] name = "ETHIOPIC DIGIT SIX" -> 4974
      [] name = "ETHIOPIC DIGIT SEVEN" -> 4975
      [] name = "ETHIOPIC DIGIT EIGHT" -> 4976
      [] name = "ETHIOPIC DIGIT NINE" -> 4977
      [] name = "ETHIOPIC NUMBER TEN" -> 4978
      [] name = "ETHIOPIC NUMBER TWENTY" -> 4979
      [] name = "ETHIOPIC NUMBER THIRTY" -> 4980
      [] name = "ETHIOPIC NUMBER FORTY" -> 4981
      [] name = "ETHIOPIC NUMBER FIFTY" -> 4982
      [] name = "ETHIOPIC NUMBER SIXTY" -> 4983
      [] name = "ETHIOPIC NUMBER SEVENTY" -> 4984
      [] name = "ETHIOPIC NUMBER EIGHTY" -> 4985
      [] name = "ETHIOPIC NUMBER NINETY" -> 4986
      [] name = "ETHIOPIC NUMBER HUNDRED" -> 4987
      [] name = "ETHIOPIC NUMBER TEN THOUSAND" -> 4988
      [] name = "ETHIOPIC SYLLABLE SEBATBEIT MWA" -> 4992
      [] name = "ETHIOPIC SYLLABLE MWI" -> 4993
      [] name = "ETHIOPIC SYLLABLE MWEE" -> 4994
      [] name = "ETHIOPIC SYLLABLE MWE" -> 4995
      [] name = "ETHIOPIC SYLLABLE SEBATBEIT BWA" -> 4996
      [] name = "ETHIOPIC SYLLABLE BWI" -> 4997
      [] name = "ETHIOPIC SYLLABLE BWEE" -> 4998
      [] name = "ETHIOPIC SYLLABLE BWE" -> 4999
      [] name = "ETHIOPIC SYLLABLE SEBATBEIT FWA" -> 5000
      [] name = "ETHIOPIC SYLLABLE FWI" -> 5001
      [] name = "ETHIOPIC SYLLABLE FWEE" -> 5002
      [] name = "ETHIOPIC SYLLABLE FWE" -> 5003
      [] name = "ETHIOPIC SYLLABLE SEBATBEIT PWA" -> 5004
      [] name = "ETHIOPIC SYLLABLE PWI" -> 5005
      [] name = "ETHIOPIC SYLLABLE PWEE" -> 5006
      [] name = "ETHIOPIC SYLLABLE PWE" -> 5007
      [] name = "ETHIOPIC TONAL MARK YIZET" -> 5008
      [] name = "ETHIOPIC TONAL MARK DERET" -> 5009
      [] name = "ETHIOPIC TONAL MARK RIKRIK" -> 5010
      [] name = "ETHIOPIC TONAL MARK SHORT RIKRIK" -> 5011
      [] name = "ETHIOPIC TONAL MARK DIFAT" -> 5012
      [] name = "ETHIOPIC TONAL MARK KENAT" -> 5013
      [] name = "ETHIOPIC TONAL MARK CHIRET" -> 5014
      [] name = "ETHIOPIC TONAL MARK HIDET" -> 5015
      [] name = "ETHIOPIC TONAL MARK DERET-HIDET" -> 5016
      [] name = "ETHIOPIC TONAL MARK KURT" -> 5017
      [] name = "CHEROKEE LETTER A" -> 5024
      [] name = "CHEROKEE LETTER E" -> 5025
      [] name = "CHEROKEE LETTER I" -> 5026
      [] name = "CHEROKEE LETTER O" -> 5027
      [] name = "CHEROKEE LETTER U" -> 5028
      [] name = "CHEROKEE LETTER V" -> 5029
      [] name = "CHEROKEE LETTER GA" -> 5030
      [] name = "CHEROKEE LETTER KA" -> 5031
      [] name = "CHEROKEE LETTER GE" -> 5032
      [] name = "CHEROKEE LETTER GI" -> 5033
      [] name = "CHEROKEE LETTER GO" -> 5034
      [] name = "CHEROKEE LETTER GU" -> 5035
      [] name = "CHEROKEE LETTER GV" -> 5036
      [] name = "CHEROKEE LETTER HA" -> 5037
      [] name = "CHEROKEE LETTER HE" -> 5038
      [] name = "CHEROKEE LETTER HI" -> 5039
      [] name = "CHEROKEE LETTER HO" -> 5040
      [] name = "CHEROKEE LETTER HU" -> 5041
      [] name = "CHEROKEE LETTER HV" -> 5042
      [] name = "CHEROKEE LETTER LA" -> 5043
      [] name = "CHEROKEE LETTER LE" -> 5044
      [] name = "CHEROKEE LETTER LI" -> 5045
      [] name = "CHEROKEE LETTER LO" -> 5046
      [] name = "CHEROKEE LETTER LU" -> 5047
      [] name = "CHEROKEE LETTER LV" -> 5048
      [] name = "CHEROKEE LETTER MA" -> 5049
      [] name = "CHEROKEE LETTER ME" -> 5050
      [] name = "CHEROKEE LETTER MI" -> 5051
      [] name = "CHEROKEE LETTER MO" -> 5052
      [] name = "CHEROKEE LETTER MU" -> 5053
      [] name = "CHEROKEE LETTER NA" -> 5054
      [] name = "CHEROKEE LETTER HNA" -> 5055
      [] name = "CHEROKEE LETTER NAH" -> 5056
      [] name = "CHEROKEE LETTER NE" -> 5057
      [] name = "CHEROKEE LETTER NI" -> 5058
      [] name = "CHEROKEE LETTER NO" -> 5059
      [] name = "CHEROKEE LETTER NU" -> 5060
      [] name = "CHEROKEE LETTER NV" -> 5061
      [] name = "CHEROKEE LETTER QUA" -> 5062
      [] name = "CHEROKEE LETTER QUE" -> 5063
      [] name = "CHEROKEE LETTER QUI" -> 5064
      [] name = "CHEROKEE LETTER QUO" -> 5065
      [] name = "CHEROKEE LETTER QUU" -> 5066
      [] name = "CHEROKEE LETTER QUV" -> 5067
      [] name = "CHEROKEE LETTER SA" -> 5068
      [] name = "CHEROKEE LETTER S" -> 5069
      [] name = "CHEROKEE LETTER SE" -> 5070
      [] name = "CHEROKEE LETTER SI" -> 5071
      [] name = "CHEROKEE LETTER SO" -> 5072
      [] name = "CHEROKEE LETTER SU" -> 5073
      [] name = "CHEROKEE LETTER SV" -> 5074
      [] name = "CHEROKEE LETTER DA" -> 5075
      [] name = "CHEROKEE LETTER TA" -> 5076
      [] name = "CHEROKEE LETTER DE" -> 5077
      [] name = "CHEROKEE LETTER TE" -> 5078
      [] name = "CHEROKEE LETTER DI" -> 5079
      [] name = "CHEROKEE LETTER TI" -> 5080
      [] name = "CHEROKEE LETTER DO" -> 5081
      [] name = "CHEROKEE LETTER DU" -> 5082
      [] name = "CHEROKEE LETTER DV" -> 5083
      [] name = "CHEROKEE LETTER DLA" -> 5084
      [] name = "CHEROKEE LETTER TLA" -> 5085
      [] name = "CHEROKEE LETTER TLE" -> 5086
      [] name = "CHEROKEE LETTER TLI" -> 5087
      [] name = "CHEROKEE LETTER TLO" -> 5088
      [] name = "CHEROKEE LETTER TLU" -> 5089
      [] name = "CHEROKEE LETTER TLV" -> 5090
      [] name = "CHEROKEE LETTER TSA" -> 5091
      [] name = "CHEROKEE LETTER TSE" -> 5092
      [] name = "CHEROKEE LETTER TSI" -> 5093
      [] name = "CHEROKEE LETTER TSO" -> 5094
      [] name = "CHEROKEE LETTER TSU" -> 5095
      [] name = "CHEROKEE LETTER TSV" -> 5096
      [] name = "CHEROKEE LETTER WA" -> 5097
      [] name = "CHEROKEE LETTER WE" -> 5098
      [] name = "CHEROKEE LETTER WI" -> 5099
      [] name = "CHEROKEE LETTER WO" -> 5100
      [] name = "CHEROKEE LETTER WU" -> 5101
      [] name = "CHEROKEE LETTER WV" -> 5102
      [] name = "CHEROKEE LETTER YA" -> 5103
      [] name = "CHEROKEE LETTER YE" -> 5104
      [] name = "CHEROKEE LETTER YI" -> 5105
      [] name = "CHEROKEE LETTER YO" -> 5106
      [] name = "CHEROKEE LETTER YU" -> 5107
      [] name = "CHEROKEE LETTER YV" -> 5108
      [] name = "CHEROKEE LETTER MV" -> 5109
      [] name = "CHEROKEE SMALL LETTER YE" -> 5112
      [] name = "CHEROKEE SMALL LETTER YI" -> 5113
      [] name = "CHEROKEE SMALL LETTER YO" -> 5114
      [] name = "CHEROKEE SMALL LETTER YU" -> 5115
      [] name = "CHEROKEE SMALL LETTER YV" -> 5116
      [] name = "CHEROKEE SMALL LETTER MV" -> 5117
      [] name = "CANADIAN SYLLABICS HYPHEN" -> 5120
      [] name = "CANADIAN SYLLABICS E" -> 5121
      [] name = "CANADIAN SYLLABICS AAI" -> 5122
      [] name = "CANADIAN SYLLABICS I" -> 5123
      [] name = "CANADIAN SYLLABICS II" -> 5124
      [] name = "CANADIAN SYLLABICS O" -> 5125
      [] name = "CANADIAN SYLLABICS OO" -> 5126
      [] name = "CANADIAN SYLLABICS Y-CREE OO" -> 5127
      [] name = "CANADIAN SYLLABICS CARRIER EE" -> 5128
      [] name = "CANADIAN SYLLABICS CARRIER I" -> 5129
      [] name = "CANADIAN SYLLABICS A" -> 5130
      [] name = "CANADIAN SYLLABICS AA" -> 5131
      [] name = "CANADIAN SYLLABICS WE" -> 5132
      [] name = "CANADIAN SYLLABICS WEST-CREE WE" -> 5133
      [] name = "CANADIAN SYLLABICS WI" -> 5134
      [] name = "CANADIAN SYLLABICS WEST-CREE WI" -> 5135
      [] name = "CANADIAN SYLLABICS WII" -> 5136
      [] name = "CANADIAN SYLLABICS WEST-CREE WII" -> 5137
      [] name = "CANADIAN SYLLABICS WO" -> 5138
      [] name = "CANADIAN SYLLABICS WEST-CREE WO" -> 5139
      [] name = "CANADIAN SYLLABICS WOO" -> 5140
      [] name = "CANADIAN SYLLABICS WEST-CREE WOO" -> 5141
      [] name = "CANADIAN SYLLABICS NASKAPI WOO" -> 5142
      [] name = "CANADIAN SYLLABICS WA" -> 5143
      [] name = "CANADIAN SYLLABICS WEST-CREE WA" -> 5144
      [] name = "CANADIAN SYLLABICS WAA" -> 5145
      [] name = "CANADIAN SYLLABICS WEST-CREE WAA" -> 5146
      [] name = "CANADIAN SYLLABICS NASKAPI WAA" -> 5147
      [] name = "CANADIAN SYLLABICS AI" -> 5148
      [] name = "CANADIAN SYLLABICS Y-CREE W" -> 5149
      [] name = "CANADIAN SYLLABICS GLOTTAL STOP" -> 5150
      [] name = "CANADIAN SYLLABICS FINAL ACUTE" -> 5151
      [] name = "CANADIAN SYLLABICS FINAL GRAVE" -> 5152
      [] name = "CANADIAN SYLLABICS FINAL BOTTOM HALF RING" -> 5153
      [] name = "CANADIAN SYLLABICS FINAL TOP HALF RING" -> 5154
      [] name = "CANADIAN SYLLABICS FINAL RIGHT HALF RING" -> 5155
      [] name = "CANADIAN SYLLABICS FINAL RING" -> 5156
      [] name = "CANADIAN SYLLABICS FINAL DOUBLE ACUTE" -> 5157
      [] name = "CANADIAN SYLLABICS FINAL DOUBLE SHORT VERTICAL STROKES" -> 5158
      [] name = "CANADIAN SYLLABICS FINAL MIDDLE DOT" -> 5159
      [] name = "CANADIAN SYLLABICS FINAL SHORT HORIZONTAL STROKE" -> 5160
      [] name = "CANADIAN SYLLABICS FINAL PLUS" -> 5161
      [] name = "CANADIAN SYLLABICS FINAL DOWN TACK" -> 5162
      [] name = "CANADIAN SYLLABICS EN" -> 5163
      [] name = "CANADIAN SYLLABICS IN" -> 5164
      [] name = "CANADIAN SYLLABICS ON" -> 5165
      [] name = "CANADIAN SYLLABICS AN" -> 5166
      [] name = "CANADIAN SYLLABICS PE" -> 5167
      [] name = "CANADIAN SYLLABICS PAAI" -> 5168
      [] name = "CANADIAN SYLLABICS PI" -> 5169
      [] name = "CANADIAN SYLLABICS PII" -> 5170
      [] name = "CANADIAN SYLLABICS PO" -> 5171
      [] name = "CANADIAN SYLLABICS POO" -> 5172
      [] name = "CANADIAN SYLLABICS Y-CREE POO" -> 5173
      [] name = "CANADIAN SYLLABICS CARRIER HEE" -> 5174
      [] name = "CANADIAN SYLLABICS CARRIER HI" -> 5175
      [] name = "CANADIAN SYLLABICS PA" -> 5176
      [] name = "CANADIAN SYLLABICS PAA" -> 5177
      [] name = "CANADIAN SYLLABICS PWE" -> 5178
      [] name = "CANADIAN SYLLABICS WEST-CREE PWE" -> 5179
      [] name = "CANADIAN SYLLABICS PWI" -> 5180
      [] name = "CANADIAN SYLLABICS WEST-CREE PWI" -> 5181
      [] name = "CANADIAN SYLLABICS PWII" -> 5182
      [] name = "CANADIAN SYLLABICS WEST-CREE PWII" -> 5183
      [] name = "CANADIAN SYLLABICS PWO" -> 5184
      [] name = "CANADIAN SYLLABICS WEST-CREE PWO" -> 5185
      [] name = "CANADIAN SYLLABICS PWOO" -> 5186
      [] name = "CANADIAN SYLLABICS WEST-CREE PWOO" -> 5187
      [] name = "CANADIAN SYLLABICS PWA" -> 5188
      [] name = "CANADIAN SYLLABICS WEST-CREE PWA" -> 5189
      [] name = "CANADIAN SYLLABICS PWAA" -> 5190
      [] name = "CANADIAN SYLLABICS WEST-CREE PWAA" -> 5191
      [] name = "CANADIAN SYLLABICS Y-CREE PWAA" -> 5192
      [] name = "CANADIAN SYLLABICS P" -> 5193
      [] name = "CANADIAN SYLLABICS WEST-CREE P" -> 5194
      [] name = "CANADIAN SYLLABICS CARRIER H" -> 5195
      [] name = "CANADIAN SYLLABICS TE" -> 5196
      [] name = "CANADIAN SYLLABICS TAAI" -> 5197
      [] name = "CANADIAN SYLLABICS TI" -> 5198
      [] name = "CANADIAN SYLLABICS TII" -> 5199
      [] name = "CANADIAN SYLLABICS TO" -> 5200
      [] name = "CANADIAN SYLLABICS TOO" -> 5201
      [] name = "CANADIAN SYLLABICS Y-CREE TOO" -> 5202
      [] name = "CANADIAN SYLLABICS CARRIER DEE" -> 5203
      [] name = "CANADIAN SYLLABICS CARRIER DI" -> 5204
      [] name = "CANADIAN SYLLABICS TA" -> 5205
      [] name = "CANADIAN SYLLABICS TAA" -> 5206
      [] name = "CANADIAN SYLLABICS TWE" -> 5207
      [] name = "CANADIAN SYLLABICS WEST-CREE TWE" -> 5208
      [] name = "CANADIAN SYLLABICS TWI" -> 5209
      [] name = "CANADIAN SYLLABICS WEST-CREE TWI" -> 5210
      [] name = "CANADIAN SYLLABICS TWII" -> 5211
      [] name = "CANADIAN SYLLABICS WEST-CREE TWII" -> 5212
      [] name = "CANADIAN SYLLABICS TWO" -> 5213
      [] name = "CANADIAN SYLLABICS WEST-CREE TWO" -> 5214
      [] name = "CANADIAN SYLLABICS TWOO" -> 5215
      [] name = "CANADIAN SYLLABICS WEST-CREE TWOO" -> 5216
      [] name = "CANADIAN SYLLABICS TWA" -> 5217
      [] name = "CANADIAN SYLLABICS WEST-CREE TWA" -> 5218
      [] name = "CANADIAN SYLLABICS TWAA" -> 5219
      [] name = "CANADIAN SYLLABICS WEST-CREE TWAA" -> 5220
      [] name = "CANADIAN SYLLABICS NASKAPI TWAA" -> 5221
      [] name = "CANADIAN SYLLABICS T" -> 5222
      [] name = "CANADIAN SYLLABICS TTE" -> 5223
      [] name = "CANADIAN SYLLABICS TTI" -> 5224
      [] name = "CANADIAN SYLLABICS TTO" -> 5225
      [] name = "CANADIAN SYLLABICS TTA" -> 5226
      [] name = "CANADIAN SYLLABICS KE" -> 5227
      [] name = "CANADIAN SYLLABICS KAAI" -> 5228
      [] name = "CANADIAN SYLLABICS KI" -> 5229
      [] name = "CANADIAN SYLLABICS KII" -> 5230
      [] name = "CANADIAN SYLLABICS KO" -> 5231
      [] name = "CANADIAN SYLLABICS KOO" -> 5232
      [] name = "CANADIAN SYLLABICS Y-CREE KOO" -> 5233
      [] name = "CANADIAN SYLLABICS KA" -> 5234
      [] name = "CANADIAN SYLLABICS KAA" -> 5235
      [] name = "CANADIAN SYLLABICS KWE" -> 5236
      [] name = "CANADIAN SYLLABICS WEST-CREE KWE" -> 5237
      [] name = "CANADIAN SYLLABICS KWI" -> 5238
      [] name = "CANADIAN SYLLABICS WEST-CREE KWI" -> 5239
      [] name = "CANADIAN SYLLABICS KWII" -> 5240
      [] name = "CANADIAN SYLLABICS WEST-CREE KWII" -> 5241
      [] name = "CANADIAN SYLLABICS KWO" -> 5242
      [] name = "CANADIAN SYLLABICS WEST-CREE KWO" -> 5243
      [] name = "CANADIAN SYLLABICS KWOO" -> 5244
      [] name = "CANADIAN SYLLABICS WEST-CREE KWOO" -> 5245
      [] name = "CANADIAN SYLLABICS KWA" -> 5246
      [] name = "CANADIAN SYLLABICS WEST-CREE KWA" -> 5247
      [] name = "CANADIAN SYLLABICS KWAA" -> 5248
      [] name = "CANADIAN SYLLABICS WEST-CREE KWAA" -> 5249
      [] name = "CANADIAN SYLLABICS NASKAPI KWAA" -> 5250
      [] name = "CANADIAN SYLLABICS K" -> 5251
      [] name = "CANADIAN SYLLABICS KW" -> 5252
      [] name = "CANADIAN SYLLABICS SOUTH-SLAVEY KEH" -> 5253
      [] name = "CANADIAN SYLLABICS SOUTH-SLAVEY KIH" -> 5254
      [] name = "CANADIAN SYLLABICS SOUTH-SLAVEY KOH" -> 5255
      [] name = "CANADIAN SYLLABICS SOUTH-SLAVEY KAH" -> 5256
      [] name = "CANADIAN SYLLABICS CE" -> 5257
      [] name = "CANADIAN SYLLABICS CAAI" -> 5258
      [] name = "CANADIAN SYLLABICS CI" -> 5259
      [] name = "CANADIAN SYLLABICS CII" -> 5260
      [] name = "CANADIAN SYLLABICS CO" -> 5261
      [] name = "CANADIAN SYLLABICS COO" -> 5262
      [] name = "CANADIAN SYLLABICS Y-CREE COO" -> 5263
      [] name = "CANADIAN SYLLABICS CA" -> 5264
      [] name = "CANADIAN SYLLABICS CAA" -> 5265
      [] name = "CANADIAN SYLLABICS CWE" -> 5266
      [] name = "CANADIAN SYLLABICS WEST-CREE CWE" -> 5267
      [] name = "CANADIAN SYLLABICS CWI" -> 5268
      [] name = "CANADIAN SYLLABICS WEST-CREE CWI" -> 5269
      [] name = "CANADIAN SYLLABICS CWII" -> 5270
      [] name = "CANADIAN SYLLABICS WEST-CREE CWII" -> 5271
      [] name = "CANADIAN SYLLABICS CWO" -> 5272
      [] name = "CANADIAN SYLLABICS WEST-CREE CWO" -> 5273
      [] name = "CANADIAN SYLLABICS CWOO" -> 5274
      [] name = "CANADIAN SYLLABICS WEST-CREE CWOO" -> 5275
      [] name = "CANADIAN SYLLABICS CWA" -> 5276
      [] name = "CANADIAN SYLLABICS WEST-CREE CWA" -> 5277
      [] name = "CANADIAN SYLLABICS CWAA" -> 5278
      [] name = "CANADIAN SYLLABICS WEST-CREE CWAA" -> 5279
      [] name = "CANADIAN SYLLABICS NASKAPI CWAA" -> 5280
      [] name = "CANADIAN SYLLABICS C" -> 5281
      [] name = "CANADIAN SYLLABICS SAYISI TH" -> 5282
      [] name = "CANADIAN SYLLABICS ME" -> 5283
      [] name = "CANADIAN SYLLABICS MAAI" -> 5284
      [] name = "CANADIAN SYLLABICS MI" -> 5285
      [] name = "CANADIAN SYLLABICS MII" -> 5286
      [] name = "CANADIAN SYLLABICS MO" -> 5287
      [] name = "CANADIAN SYLLABICS MOO" -> 5288
      [] name = "CANADIAN SYLLABICS Y-CREE MOO" -> 5289
      [] name = "CANADIAN SYLLABICS MA" -> 5290
      [] name = "CANADIAN SYLLABICS MAA" -> 5291
      [] name = "CANADIAN SYLLABICS MWE" -> 5292
      [] name = "CANADIAN SYLLABICS WEST-CREE MWE" -> 5293
      [] name = "CANADIAN SYLLABICS MWI" -> 5294
      [] name = "CANADIAN SYLLABICS WEST-CREE MWI" -> 5295
      [] name = "CANADIAN SYLLABICS MWII" -> 5296
      [] name = "CANADIAN SYLLABICS WEST-CREE MWII" -> 5297
      [] name = "CANADIAN SYLLABICS MWO" -> 5298
      [] name = "CANADIAN SYLLABICS WEST-CREE MWO" -> 5299
      [] name = "CANADIAN SYLLABICS MWOO" -> 5300
      [] name = "CANADIAN SYLLABICS WEST-CREE MWOO" -> 5301
      [] name = "CANADIAN SYLLABICS MWA" -> 5302
      [] name = "CANADIAN SYLLABICS WEST-CREE MWA" -> 5303
      [] name = "CANADIAN SYLLABICS MWAA" -> 5304
      [] name = "CANADIAN SYLLABICS WEST-CREE MWAA" -> 5305
      [] name = "CANADIAN SYLLABICS NASKAPI MWAA" -> 5306
      [] name = "CANADIAN SYLLABICS M" -> 5307
      [] name = "CANADIAN SYLLABICS WEST-CREE M" -> 5308
      [] name = "CANADIAN SYLLABICS MH" -> 5309
      [] name = "CANADIAN SYLLABICS ATHAPASCAN M" -> 5310
      [] name = "CANADIAN SYLLABICS SAYISI M" -> 5311
      [] name = "CANADIAN SYLLABICS NE" -> 5312
      [] name = "CANADIAN SYLLABICS NAAI" -> 5313
      [] name = "CANADIAN SYLLABICS NI" -> 5314
      [] name = "CANADIAN SYLLABICS NII" -> 5315
      [] name = "CANADIAN SYLLABICS NO" -> 5316
      [] name = "CANADIAN SYLLABICS NOO" -> 5317
      [] name = "CANADIAN SYLLABICS Y-CREE NOO" -> 5318
      [] name = "CANADIAN SYLLABICS NA" -> 5319
      [] name = "CANADIAN SYLLABICS NAA" -> 5320
      [] name = "CANADIAN SYLLABICS NWE" -> 5321
      [] name = "CANADIAN SYLLABICS WEST-CREE NWE" -> 5322
      [] name = "CANADIAN SYLLABICS NWA" -> 5323
      [] name = "CANADIAN SYLLABICS WEST-CREE NWA" -> 5324
      [] name = "CANADIAN SYLLABICS NWAA" -> 5325
      [] name = "CANADIAN SYLLABICS WEST-CREE NWAA" -> 5326
      [] name = "CANADIAN SYLLABICS NASKAPI NWAA" -> 5327
      [] name = "CANADIAN SYLLABICS N" -> 5328
      [] name = "CANADIAN SYLLABICS CARRIER NG" -> 5329
      [] name = "CANADIAN SYLLABICS NH" -> 5330
      [] name = "CANADIAN SYLLABICS LE" -> 5331
      [] name = "CANADIAN SYLLABICS LAAI" -> 5332
      [] name = "CANADIAN SYLLABICS LI" -> 5333
      [] name = "CANADIAN SYLLABICS LII" -> 5334
      [] name = "CANADIAN SYLLABICS LO" -> 5335
      [] name = "CANADIAN SYLLABICS LOO" -> 5336
      [] name = "CANADIAN SYLLABICS Y-CREE LOO" -> 5337
      [] name = "CANADIAN SYLLABICS LA" -> 5338
      [] name = "CANADIAN SYLLABICS LAA" -> 5339
      [] name = "CANADIAN SYLLABICS LWE" -> 5340
      [] name = "CANADIAN SYLLABICS WEST-CREE LWE" -> 5341
      [] name = "CANADIAN SYLLABICS LWI" -> 5342
      [] name = "CANADIAN SYLLABICS WEST-CREE LWI" -> 5343
      [] name = "CANADIAN SYLLABICS LWII" -> 5344
      [] name = "CANADIAN SYLLABICS WEST-CREE LWII" -> 5345
      [] name = "CANADIAN SYLLABICS LWO" -> 5346
      [] name = "CANADIAN SYLLABICS WEST-CREE LWO" -> 5347
      [] name = "CANADIAN SYLLABICS LWOO" -> 5348
      [] name = "CANADIAN SYLLABICS WEST-CREE LWOO" -> 5349
      [] name = "CANADIAN SYLLABICS LWA" -> 5350
      [] name = "CANADIAN SYLLABICS WEST-CREE LWA" -> 5351
      [] name = "CANADIAN SYLLABICS LWAA" -> 5352
      [] name = "CANADIAN SYLLABICS WEST-CREE LWAA" -> 5353
      [] name = "CANADIAN SYLLABICS L" -> 5354
      [] name = "CANADIAN SYLLABICS WEST-CREE L" -> 5355
      [] name = "CANADIAN SYLLABICS MEDIAL L" -> 5356
      [] name = "CANADIAN SYLLABICS SE" -> 5357
      [] name = "CANADIAN SYLLABICS SAAI" -> 5358
      [] name = "CANADIAN SYLLABICS SI" -> 5359
      [] name = "CANADIAN SYLLABICS SII" -> 5360
      [] name = "CANADIAN SYLLABICS SO" -> 5361
      [] name = "CANADIAN SYLLABICS SOO" -> 5362
      [] name = "CANADIAN SYLLABICS Y-CREE SOO" -> 5363
      [] name = "CANADIAN SYLLABICS SA" -> 5364
      [] name = "CANADIAN SYLLABICS SAA" -> 5365
      [] name = "CANADIAN SYLLABICS SWE" -> 5366
      [] name = "CANADIAN SYLLABICS WEST-CREE SWE" -> 5367
      [] name = "CANADIAN SYLLABICS SWI" -> 5368
      [] name = "CANADIAN SYLLABICS WEST-CREE SWI" -> 5369
      [] name = "CANADIAN SYLLABICS SWII" -> 5370
      [] name = "CANADIAN SYLLABICS WEST-CREE SWII" -> 5371
      [] name = "CANADIAN SYLLABICS SWO" -> 5372
      [] name = "CANADIAN SYLLABICS WEST-CREE SWO" -> 5373
      [] name = "CANADIAN SYLLABICS SWOO" -> 5374
      [] name = "CANADIAN SYLLABICS WEST-CREE SWOO" -> 5375
      [] name = "CANADIAN SYLLABICS SWA" -> 5376
      [] name = "CANADIAN SYLLABICS WEST-CREE SWA" -> 5377
      [] name = "CANADIAN SYLLABICS SWAA" -> 5378
      [] name = "CANADIAN SYLLABICS WEST-CREE SWAA" -> 5379
      [] name = "CANADIAN SYLLABICS NASKAPI SWAA" -> 5380
      [] name = "CANADIAN SYLLABICS S" -> 5381
      [] name = "CANADIAN SYLLABICS ATHAPASCAN S" -> 5382
      [] name = "CANADIAN SYLLABICS SW" -> 5383
      [] name = "CANADIAN SYLLABICS BLACKFOOT S" -> 5384
      [] name = "CANADIAN SYLLABICS MOOSE-CREE SK" -> 5385
      [] name = "CANADIAN SYLLABICS NASKAPI SKW" -> 5386
      [] name = "CANADIAN SYLLABICS NASKAPI S-W" -> 5387
      [] name = "CANADIAN SYLLABICS NASKAPI SPWA" -> 5388
      [] name = "CANADIAN SYLLABICS NASKAPI STWA" -> 5389
      [] name = "CANADIAN SYLLABICS NASKAPI SKWA" -> 5390
      [] name = "CANADIAN SYLLABICS NASKAPI SCWA" -> 5391
      [] name = "CANADIAN SYLLABICS SHE" -> 5392
      [] name = "CANADIAN SYLLABICS SHI" -> 5393
      [] name = "CANADIAN SYLLABICS SHII" -> 5394
      [] name = "CANADIAN SYLLABICS SHO" -> 5395
      [] name = "CANADIAN SYLLABICS SHOO" -> 5396
      [] name = "CANADIAN SYLLABICS SHA" -> 5397
      [] name = "CANADIAN SYLLABICS SHAA" -> 5398
      [] name = "CANADIAN SYLLABICS SHWE" -> 5399
      [] name = "CANADIAN SYLLABICS WEST-CREE SHWE" -> 5400
      [] name = "CANADIAN SYLLABICS SHWI" -> 5401
      [] name = "CANADIAN SYLLABICS WEST-CREE SHWI" -> 5402
      [] name = "CANADIAN SYLLABICS SHWII" -> 5403
      [] name = "CANADIAN SYLLABICS WEST-CREE SHWII" -> 5404
      [] name = "CANADIAN SYLLABICS SHWO" -> 5405
      [] name = "CANADIAN SYLLABICS WEST-CREE SHWO" -> 5406
      [] name = "CANADIAN SYLLABICS SHWOO" -> 5407
      [] name = "CANADIAN SYLLABICS WEST-CREE SHWOO" -> 5408
      [] name = "CANADIAN SYLLABICS SHWA" -> 5409
      [] name = "CANADIAN SYLLABICS WEST-CREE SHWA" -> 5410
      [] name = "CANADIAN SYLLABICS SHWAA" -> 5411
      [] name = "CANADIAN SYLLABICS WEST-CREE SHWAA" -> 5412
      [] name = "CANADIAN SYLLABICS SH" -> 5413
      [] name = "CANADIAN SYLLABICS YE" -> 5414
      [] name = "CANADIAN SYLLABICS YAAI" -> 5415
      [] name = "CANADIAN SYLLABICS YI" -> 5416
      [] name = "CANADIAN SYLLABICS YII" -> 5417
      [] name = "CANADIAN SYLLABICS YO" -> 5418
      [] name = "CANADIAN SYLLABICS YOO" -> 5419
      [] name = "CANADIAN SYLLABICS Y-CREE YOO" -> 5420
      [] name = "CANADIAN SYLLABICS YA" -> 5421
      [] name = "CANADIAN SYLLABICS YAA" -> 5422
      [] name = "CANADIAN SYLLABICS YWE" -> 5423
      [] name = "CANADIAN SYLLABICS WEST-CREE YWE" -> 5424
      [] name = "CANADIAN SYLLABICS YWI" -> 5425
      [] name = "CANADIAN SYLLABICS WEST-CREE YWI" -> 5426
      [] name = "CANADIAN SYLLABICS YWII" -> 5427
      [] name = "CANADIAN SYLLABICS WEST-CREE YWII" -> 5428
      [] name = "CANADIAN SYLLABICS YWO" -> 5429
      [] name = "CANADIAN SYLLABICS WEST-CREE YWO" -> 5430
      [] name = "CANADIAN SYLLABICS YWOO" -> 5431
      [] name = "CANADIAN SYLLABICS WEST-CREE YWOO" -> 5432
      [] name = "CANADIAN SYLLABICS YWA" -> 5433
      [] name = "CANADIAN SYLLABICS WEST-CREE YWA" -> 5434
      [] name = "CANADIAN SYLLABICS YWAA" -> 5435
      [] name = "CANADIAN SYLLABICS WEST-CREE YWAA" -> 5436
      [] name = "CANADIAN SYLLABICS NASKAPI YWAA" -> 5437
      [] name = "CANADIAN SYLLABICS Y" -> 5438
      [] name = "CANADIAN SYLLABICS BIBLE-CREE Y" -> 5439
      [] name = "CANADIAN SYLLABICS WEST-CREE Y" -> 5440
      [] name = "CANADIAN SYLLABICS SAYISI YI" -> 5441
      [] name = "CANADIAN SYLLABICS RE" -> 5442
      [] name = "CANADIAN SYLLABICS R-CREE RE" -> 5443
      [] name = "CANADIAN SYLLABICS WEST-CREE LE" -> 5444
      [] name = "CANADIAN SYLLABICS RAAI" -> 5445
      [] name = "CANADIAN SYLLABICS RI" -> 5446
      [] name = "CANADIAN SYLLABICS RII" -> 5447
      [] name = "CANADIAN SYLLABICS RO" -> 5448
      [] name = "CANADIAN SYLLABICS ROO" -> 5449
      [] name = "CANADIAN SYLLABICS WEST-CREE LO" -> 5450
      [] name = "CANADIAN SYLLABICS RA" -> 5451
      [] name = "CANADIAN SYLLABICS RAA" -> 5452
      [] name = "CANADIAN SYLLABICS WEST-CREE LA" -> 5453
      [] name = "CANADIAN SYLLABICS RWAA" -> 5454
      [] name = "CANADIAN SYLLABICS WEST-CREE RWAA" -> 5455
      [] name = "CANADIAN SYLLABICS R" -> 5456
      [] name = "CANADIAN SYLLABICS WEST-CREE R" -> 5457
      [] name = "CANADIAN SYLLABICS MEDIAL R" -> 5458
      [] name = "CANADIAN SYLLABICS FE" -> 5459
      [] name = "CANADIAN SYLLABICS FAAI" -> 5460
      [] name = "CANADIAN SYLLABICS FI" -> 5461
      [] name = "CANADIAN SYLLABICS FII" -> 5462
      [] name = "CANADIAN SYLLABICS FO" -> 5463
      [] name = "CANADIAN SYLLABICS FOO" -> 5464
      [] name = "CANADIAN SYLLABICS FA" -> 5465
      [] name = "CANADIAN SYLLABICS FAA" -> 5466
      [] name = "CANADIAN SYLLABICS FWAA" -> 5467
      [] name = "CANADIAN SYLLABICS WEST-CREE FWAA" -> 5468
      [] name = "CANADIAN SYLLABICS F" -> 5469
      [] name = "CANADIAN SYLLABICS THE" -> 5470
      [] name = "CANADIAN SYLLABICS N-CREE THE" -> 5471
      [] name = "CANADIAN SYLLABICS THI" -> 5472
      [] name = "CANADIAN SYLLABICS N-CREE THI" -> 5473
      [] name = "CANADIAN SYLLABICS THII" -> 5474
      [] name = "CANADIAN SYLLABICS N-CREE THII" -> 5475
      [] name = "CANADIAN SYLLABICS THO" -> 5476
      [] name = "CANADIAN SYLLABICS THOO" -> 5477
      [] name = "CANADIAN SYLLABICS THA" -> 5478
      [] name = "CANADIAN SYLLABICS THAA" -> 5479
      [] name = "CANADIAN SYLLABICS THWAA" -> 5480
      [] name = "CANADIAN SYLLABICS WEST-CREE THWAA" -> 5481
      [] name = "CANADIAN SYLLABICS TH" -> 5482
      [] name = "CANADIAN SYLLABICS TTHE" -> 5483
      [] name = "CANADIAN SYLLABICS TTHI" -> 5484
      [] name = "CANADIAN SYLLABICS TTHO" -> 5485
      [] name = "CANADIAN SYLLABICS TTHA" -> 5486
      [] name = "CANADIAN SYLLABICS TTH" -> 5487
      [] name = "CANADIAN SYLLABICS TYE" -> 5488
      [] name = "CANADIAN SYLLABICS TYI" -> 5489
      [] name = "CANADIAN SYLLABICS TYO" -> 5490
      [] name = "CANADIAN SYLLABICS TYA" -> 5491
      [] name = "CANADIAN SYLLABICS NUNAVIK HE" -> 5492
      [] name = "CANADIAN SYLLABICS NUNAVIK HI" -> 5493
      [] name = "CANADIAN SYLLABICS NUNAVIK HII" -> 5494
      [] name = "CANADIAN SYLLABICS NUNAVIK HO" -> 5495
      [] name = "CANADIAN SYLLABICS NUNAVIK HOO" -> 5496
      [] name = "CANADIAN SYLLABICS NUNAVIK HA" -> 5497
      [] name = "CANADIAN SYLLABICS NUNAVIK HAA" -> 5498
      [] name = "CANADIAN SYLLABICS NUNAVIK H" -> 5499
      [] name = "CANADIAN SYLLABICS NUNAVUT H" -> 5500
      [] name = "CANADIAN SYLLABICS HK" -> 5501
      [] name = "CANADIAN SYLLABICS QAAI" -> 5502
      [] name = "CANADIAN SYLLABICS QI" -> 5503
      [] name = "CANADIAN SYLLABICS QII" -> 5504
      [] name = "CANADIAN SYLLABICS QO" -> 5505
      [] name = "CANADIAN SYLLABICS QOO" -> 5506
      [] name = "CANADIAN SYLLABICS QA" -> 5507
      [] name = "CANADIAN SYLLABICS QAA" -> 5508
      [] name = "CANADIAN SYLLABICS Q" -> 5509
      [] name = "CANADIAN SYLLABICS TLHE" -> 5510
      [] name = "CANADIAN SYLLABICS TLHI" -> 5511
      [] name = "CANADIAN SYLLABICS TLHO" -> 5512
      [] name = "CANADIAN SYLLABICS TLHA" -> 5513
      [] name = "CANADIAN SYLLABICS WEST-CREE RE" -> 5514
      [] name = "CANADIAN SYLLABICS WEST-CREE RI" -> 5515
      [] name = "CANADIAN SYLLABICS WEST-CREE RO" -> 5516
      [] name = "CANADIAN SYLLABICS WEST-CREE RA" -> 5517
      [] name = "CANADIAN SYLLABICS NGAAI" -> 5518
      [] name = "CANADIAN SYLLABICS NGI" -> 5519
      [] name = "CANADIAN SYLLABICS NGII" -> 5520
      [] name = "CANADIAN SYLLABICS NGO" -> 5521
      [] name = "CANADIAN SYLLABICS NGOO" -> 5522
      [] name = "CANADIAN SYLLABICS NGA" -> 5523
      [] name = "CANADIAN SYLLABICS NGAA" -> 5524
      [] name = "CANADIAN SYLLABICS NG" -> 5525
      [] name = "CANADIAN SYLLABICS NNG" -> 5526
      [] name = "CANADIAN SYLLABICS SAYISI SHE" -> 5527
      [] name = "CANADIAN SYLLABICS SAYISI SHI" -> 5528
      [] name = "CANADIAN SYLLABICS SAYISI SHO" -> 5529
      [] name = "CANADIAN SYLLABICS SAYISI SHA" -> 5530
      [] name = "CANADIAN SYLLABICS WOODS-CREE THE" -> 5531
      [] name = "CANADIAN SYLLABICS WOODS-CREE THI" -> 5532
      [] name = "CANADIAN SYLLABICS WOODS-CREE THO" -> 5533
      [] name = "CANADIAN SYLLABICS WOODS-CREE THA" -> 5534
      [] name = "CANADIAN SYLLABICS WOODS-CREE TH" -> 5535
      [] name = "CANADIAN SYLLABICS LHI" -> 5536
      [] name = "CANADIAN SYLLABICS LHII" -> 5537
      [] name = "CANADIAN SYLLABICS LHO" -> 5538
      [] name = "CANADIAN SYLLABICS LHOO" -> 5539
      [] name = "CANADIAN SYLLABICS LHA" -> 5540
      [] name = "CANADIAN SYLLABICS LHAA" -> 5541
      [] name = "CANADIAN SYLLABICS LH" -> 5542
      [] name = "CANADIAN SYLLABICS TH-CREE THE" -> 5543
      [] name = "CANADIAN SYLLABICS TH-CREE THI" -> 5544
      [] name = "CANADIAN SYLLABICS TH-CREE THII" -> 5545
      [] name = "CANADIAN SYLLABICS TH-CREE THO" -> 5546
      [] name = "CANADIAN SYLLABICS TH-CREE THOO" -> 5547
      [] name = "CANADIAN SYLLABICS TH-CREE THA" -> 5548
      [] name = "CANADIAN SYLLABICS TH-CREE THAA" -> 5549
      [] name = "CANADIAN SYLLABICS TH-CREE TH" -> 5550
      [] name = "CANADIAN SYLLABICS AIVILIK B" -> 5551
      [] name = "CANADIAN SYLLABICS BLACKFOOT E" -> 5552
      [] name = "CANADIAN SYLLABICS BLACKFOOT I" -> 5553
      [] name = "CANADIAN SYLLABICS BLACKFOOT O" -> 5554
      [] name = "CANADIAN SYLLABICS BLACKFOOT A" -> 5555
      [] name = "CANADIAN SYLLABICS BLACKFOOT WE" -> 5556
      [] name = "CANADIAN SYLLABICS BLACKFOOT WI" -> 5557
      [] name = "CANADIAN SYLLABICS BLACKFOOT WO" -> 5558
      [] name = "CANADIAN SYLLABICS BLACKFOOT WA" -> 5559
      [] name = "CANADIAN SYLLABICS BLACKFOOT NE" -> 5560
      [] name = "CANADIAN SYLLABICS BLACKFOOT NI" -> 5561
      [] name = "CANADIAN SYLLABICS BLACKFOOT NO" -> 5562
      [] name = "CANADIAN SYLLABICS BLACKFOOT NA" -> 5563
      [] name = "CANADIAN SYLLABICS BLACKFOOT KE" -> 5564
      [] name = "CANADIAN SYLLABICS BLACKFOOT KI" -> 5565
      [] name = "CANADIAN SYLLABICS BLACKFOOT KO" -> 5566
      [] name = "CANADIAN SYLLABICS BLACKFOOT KA" -> 5567
      [] name = "CANADIAN SYLLABICS SAYISI HE" -> 5568
      [] name = "CANADIAN SYLLABICS SAYISI HI" -> 5569
      [] name = "CANADIAN SYLLABICS SAYISI HO" -> 5570
      [] name = "CANADIAN SYLLABICS SAYISI HA" -> 5571
      [] name = "CANADIAN SYLLABICS CARRIER GHU" -> 5572
      [] name = "CANADIAN SYLLABICS CARRIER GHO" -> 5573
      [] name = "CANADIAN SYLLABICS CARRIER GHE" -> 5574
      [] name = "CANADIAN SYLLABICS CARRIER GHEE" -> 5575
      [] name = "CANADIAN SYLLABICS CARRIER GHI" -> 5576
      [] name = "CANADIAN SYLLABICS CARRIER GHA" -> 5577
      [] name = "CANADIAN SYLLABICS CARRIER RU" -> 5578
      [] name = "CANADIAN SYLLABICS CARRIER RO" -> 5579
      [] name = "CANADIAN SYLLABICS CARRIER RE" -> 5580
      [] name = "CANADIAN SYLLABICS CARRIER REE" -> 5581
      [] name = "CANADIAN SYLLABICS CARRIER RI" -> 5582
      [] name = "CANADIAN SYLLABICS CARRIER RA" -> 5583
      [] name = "CANADIAN SYLLABICS CARRIER WU" -> 5584
      [] name = "CANADIAN SYLLABICS CARRIER WO" -> 5585
      [] name = "CANADIAN SYLLABICS CARRIER WE" -> 5586
      [] name = "CANADIAN SYLLABICS CARRIER WEE" -> 5587
      [] name = "CANADIAN SYLLABICS CARRIER WI" -> 5588
      [] name = "CANADIAN SYLLABICS CARRIER WA" -> 5589
      [] name = "CANADIAN SYLLABICS CARRIER HWU" -> 5590
      [] name = "CANADIAN SYLLABICS CARRIER HWO" -> 5591
      [] name = "CANADIAN SYLLABICS CARRIER HWE" -> 5592
      [] name = "CANADIAN SYLLABICS CARRIER HWEE" -> 5593
      [] name = "CANADIAN SYLLABICS CARRIER HWI" -> 5594
      [] name = "CANADIAN SYLLABICS CARRIER HWA" -> 5595
      [] name = "CANADIAN SYLLABICS CARRIER THU" -> 5596
      [] name = "CANADIAN SYLLABICS CARRIER THO" -> 5597
      [] name = "CANADIAN SYLLABICS CARRIER THE" -> 5598
      [] name = "CANADIAN SYLLABICS CARRIER THEE" -> 5599
      [] name = "CANADIAN SYLLABICS CARRIER THI" -> 5600
      [] name = "CANADIAN SYLLABICS CARRIER THA" -> 5601
      [] name = "CANADIAN SYLLABICS CARRIER TTU" -> 5602
      [] name = "CANADIAN SYLLABICS CARRIER TTO" -> 5603
      [] name = "CANADIAN SYLLABICS CARRIER TTE" -> 5604
      [] name = "CANADIAN SYLLABICS CARRIER TTEE" -> 5605
      [] name = "CANADIAN SYLLABICS CARRIER TTI" -> 5606
      [] name = "CANADIAN SYLLABICS CARRIER TTA" -> 5607
      [] name = "CANADIAN SYLLABICS CARRIER PU" -> 5608
      [] name = "CANADIAN SYLLABICS CARRIER PO" -> 5609
      [] name = "CANADIAN SYLLABICS CARRIER PE" -> 5610
      [] name = "CANADIAN SYLLABICS CARRIER PEE" -> 5611
      [] name = "CANADIAN SYLLABICS CARRIER PI" -> 5612
      [] name = "CANADIAN SYLLABICS CARRIER PA" -> 5613
      [] name = "CANADIAN SYLLABICS CARRIER P" -> 5614
      [] name = "CANADIAN SYLLABICS CARRIER GU" -> 5615
      [] name = "CANADIAN SYLLABICS CARRIER GO" -> 5616
      [] name = "CANADIAN SYLLABICS CARRIER GE" -> 5617
      [] name = "CANADIAN SYLLABICS CARRIER GEE" -> 5618
      [] name = "CANADIAN SYLLABICS CARRIER GI" -> 5619
      [] name = "CANADIAN SYLLABICS CARRIER GA" -> 5620
      [] name = "CANADIAN SYLLABICS CARRIER KHU" -> 5621
      [] name = "CANADIAN SYLLABICS CARRIER KHO" -> 5622
      [] name = "CANADIAN SYLLABICS CARRIER KHE" -> 5623
      [] name = "CANADIAN SYLLABICS CARRIER KHEE" -> 5624
      [] name = "CANADIAN SYLLABICS CARRIER KHI" -> 5625
      [] name = "CANADIAN SYLLABICS CARRIER KHA" -> 5626
      [] name = "CANADIAN SYLLABICS CARRIER KKU" -> 5627
      [] name = "CANADIAN SYLLABICS CARRIER KKO" -> 5628
      [] name = "CANADIAN SYLLABICS CARRIER KKE" -> 5629
      [] name = "CANADIAN SYLLABICS CARRIER KKEE" -> 5630
      [] name = "CANADIAN SYLLABICS CARRIER KKI" -> 5631
      [] name = "CANADIAN SYLLABICS CARRIER KKA" -> 5632
      [] name = "CANADIAN SYLLABICS CARRIER KK" -> 5633
      [] name = "CANADIAN SYLLABICS CARRIER NU" -> 5634
      [] name = "CANADIAN SYLLABICS CARRIER NO" -> 5635
      [] name = "CANADIAN SYLLABICS CARRIER NE" -> 5636
      [] name = "CANADIAN SYLLABICS CARRIER NEE" -> 5637
      [] name = "CANADIAN SYLLABICS CARRIER NI" -> 5638
      [] name = "CANADIAN SYLLABICS CARRIER NA" -> 5639
      [] name = "CANADIAN SYLLABICS CARRIER MU" -> 5640
      [] name = "CANADIAN SYLLABICS CARRIER MO" -> 5641
      [] name = "CANADIAN SYLLABICS CARRIER ME" -> 5642
      [] name = "CANADIAN SYLLABICS CARRIER MEE" -> 5643
      [] name = "CANADIAN SYLLABICS CARRIER MI" -> 5644
      [] name = "CANADIAN SYLLABICS CARRIER MA" -> 5645
      [] name = "CANADIAN SYLLABICS CARRIER YU" -> 5646
      [] name = "CANADIAN SYLLABICS CARRIER YO" -> 5647
      [] name = "CANADIAN SYLLABICS CARRIER YE" -> 5648
      [] name = "CANADIAN SYLLABICS CARRIER YEE" -> 5649
      [] name = "CANADIAN SYLLABICS CARRIER YI" -> 5650
      [] name = "CANADIAN SYLLABICS CARRIER YA" -> 5651
      [] name = "CANADIAN SYLLABICS CARRIER JU" -> 5652
      [] name = "CANADIAN SYLLABICS SAYISI JU" -> 5653
      [] name = "CANADIAN SYLLABICS CARRIER JO" -> 5654
      [] name = "CANADIAN SYLLABICS CARRIER JE" -> 5655
      [] name = "CANADIAN SYLLABICS CARRIER JEE" -> 5656
      [] name = "CANADIAN SYLLABICS CARRIER JI" -> 5657
      [] name = "CANADIAN SYLLABICS SAYISI JI" -> 5658
      [] name = "CANADIAN SYLLABICS CARRIER JA" -> 5659
      [] name = "CANADIAN SYLLABICS CARRIER JJU" -> 5660
      [] name = "CANADIAN SYLLABICS CARRIER JJO" -> 5661
      [] name = "CANADIAN SYLLABICS CARRIER JJE" -> 5662
      [] name = "CANADIAN SYLLABICS CARRIER JJEE" -> 5663
      [] name = "CANADIAN SYLLABICS CARRIER JJI" -> 5664
      [] name = "CANADIAN SYLLABICS CARRIER JJA" -> 5665
      [] name = "CANADIAN SYLLABICS CARRIER LU" -> 5666
      [] name = "CANADIAN SYLLABICS CARRIER LO" -> 5667
      [] name = "CANADIAN SYLLABICS CARRIER LE" -> 5668
      [] name = "CANADIAN SYLLABICS CARRIER LEE" -> 5669
      [] name = "CANADIAN SYLLABICS CARRIER LI" -> 5670
      [] name = "CANADIAN SYLLABICS CARRIER LA" -> 5671
      [] name = "CANADIAN SYLLABICS CARRIER DLU" -> 5672
      [] name = "CANADIAN SYLLABICS CARRIER DLO" -> 5673
      [] name = "CANADIAN SYLLABICS CARRIER DLE" -> 5674
      [] name = "CANADIAN SYLLABICS CARRIER DLEE" -> 5675
      [] name = "CANADIAN SYLLABICS CARRIER DLI" -> 5676
      [] name = "CANADIAN SYLLABICS CARRIER DLA" -> 5677
      [] name = "CANADIAN SYLLABICS CARRIER LHU" -> 5678
      [] name = "CANADIAN SYLLABICS CARRIER LHO" -> 5679
      [] name = "CANADIAN SYLLABICS CARRIER LHE" -> 5680
      [] name = "CANADIAN SYLLABICS CARRIER LHEE" -> 5681
      [] name = "CANADIAN SYLLABICS CARRIER LHI" -> 5682
      [] name = "CANADIAN SYLLABICS CARRIER LHA" -> 5683
      [] name = "CANADIAN SYLLABICS CARRIER TLHU" -> 5684
      [] name = "CANADIAN SYLLABICS CARRIER TLHO" -> 5685
      [] name = "CANADIAN SYLLABICS CARRIER TLHE" -> 5686
      [] name = "CANADIAN SYLLABICS CARRIER TLHEE" -> 5687
      [] name = "CANADIAN SYLLABICS CARRIER TLHI" -> 5688
      [] name = "CANADIAN SYLLABICS CARRIER TLHA" -> 5689
      [] name = "CANADIAN SYLLABICS CARRIER TLU" -> 5690
      [] name = "CANADIAN SYLLABICS CARRIER TLO" -> 5691
      [] name = "CANADIAN SYLLABICS CARRIER TLE" -> 5692
      [] name = "CANADIAN SYLLABICS CARRIER TLEE" -> 5693
      [] name = "CANADIAN SYLLABICS CARRIER TLI" -> 5694
      [] name = "CANADIAN SYLLABICS CARRIER TLA" -> 5695
      [] name = "CANADIAN SYLLABICS CARRIER ZU" -> 5696
      [] name = "CANADIAN SYLLABICS CARRIER ZO" -> 5697
      [] name = "CANADIAN SYLLABICS CARRIER ZE" -> 5698
      [] name = "CANADIAN SYLLABICS CARRIER ZEE" -> 5699
      [] name = "CANADIAN SYLLABICS CARRIER ZI" -> 5700
      [] name = "CANADIAN SYLLABICS CARRIER ZA" -> 5701
      [] name = "CANADIAN SYLLABICS CARRIER Z" -> 5702
      [] name = "CANADIAN SYLLABICS CARRIER INITIAL Z" -> 5703
      [] name = "CANADIAN SYLLABICS CARRIER DZU" -> 5704
      [] name = "CANADIAN SYLLABICS CARRIER DZO" -> 5705
      [] name = "CANADIAN SYLLABICS CARRIER DZE" -> 5706
      [] name = "CANADIAN SYLLABICS CARRIER DZEE" -> 5707
      [] name = "CANADIAN SYLLABICS CARRIER DZI" -> 5708
      [] name = "CANADIAN SYLLABICS CARRIER DZA" -> 5709
      [] name = "CANADIAN SYLLABICS CARRIER SU" -> 5710
      [] name = "CANADIAN SYLLABICS CARRIER SO" -> 5711
      [] name = "CANADIAN SYLLABICS CARRIER SE" -> 5712
      [] name = "CANADIAN SYLLABICS CARRIER SEE" -> 5713
      [] name = "CANADIAN SYLLABICS CARRIER SI" -> 5714
      [] name = "CANADIAN SYLLABICS CARRIER SA" -> 5715
      [] name = "CANADIAN SYLLABICS CARRIER SHU" -> 5716
      [] name = "CANADIAN SYLLABICS CARRIER SHO" -> 5717
      [] name = "CANADIAN SYLLABICS CARRIER SHE" -> 5718
      [] name = "CANADIAN SYLLABICS CARRIER SHEE" -> 5719
      [] name = "CANADIAN SYLLABICS CARRIER SHI" -> 5720
      [] name = "CANADIAN SYLLABICS CARRIER SHA" -> 5721
      [] name = "CANADIAN SYLLABICS CARRIER SH" -> 5722
      [] name = "CANADIAN SYLLABICS CARRIER TSU" -> 5723
      [] name = "CANADIAN SYLLABICS CARRIER TSO" -> 5724
      [] name = "CANADIAN SYLLABICS CARRIER TSE" -> 5725
      [] name = "CANADIAN SYLLABICS CARRIER TSEE" -> 5726
      [] name = "CANADIAN SYLLABICS CARRIER TSI" -> 5727
      [] name = "CANADIAN SYLLABICS CARRIER TSA" -> 5728
      [] name = "CANADIAN SYLLABICS CARRIER CHU" -> 5729
      [] name = "CANADIAN SYLLABICS CARRIER CHO" -> 5730
      [] name = "CANADIAN SYLLABICS CARRIER CHE" -> 5731
      [] name = "CANADIAN SYLLABICS CARRIER CHEE" -> 5732
      [] name = "CANADIAN SYLLABICS CARRIER CHI" -> 5733
      [] name = "CANADIAN SYLLABICS CARRIER CHA" -> 5734
      [] name = "CANADIAN SYLLABICS CARRIER TTSU" -> 5735
      [] name = "CANADIAN SYLLABICS CARRIER TTSO" -> 5736
      [] name = "CANADIAN SYLLABICS CARRIER TTSE" -> 5737
      [] name = "CANADIAN SYLLABICS CARRIER TTSEE" -> 5738
      [] name = "CANADIAN SYLLABICS CARRIER TTSI" -> 5739
      [] name = "CANADIAN SYLLABICS CARRIER TTSA" -> 5740
      [] name = "CANADIAN SYLLABICS CHI SIGN" -> 5741
      [] name = "CANADIAN SYLLABICS FULL STOP" -> 5742
      [] name = "CANADIAN SYLLABICS QAI" -> 5743
      [] name = "CANADIAN SYLLABICS NGAI" -> 5744
      [] name = "CANADIAN SYLLABICS NNGI" -> 5745
      [] name = "CANADIAN SYLLABICS NNGII" -> 5746
      [] name = "CANADIAN SYLLABICS NNGO" -> 5747
      [] name = "CANADIAN SYLLABICS NNGOO" -> 5748
      [] name = "CANADIAN SYLLABICS NNGA" -> 5749
      [] name = "CANADIAN SYLLABICS NNGAA" -> 5750
      [] name = "CANADIAN SYLLABICS WOODS-CREE THWEE" -> 5751
      [] name = "CANADIAN SYLLABICS WOODS-CREE THWI" -> 5752
      [] name = "CANADIAN SYLLABICS WOODS-CREE THWII" -> 5753
      [] name = "CANADIAN SYLLABICS WOODS-CREE THWO" -> 5754
      [] name = "CANADIAN SYLLABICS WOODS-CREE THWOO" -> 5755
      [] name = "CANADIAN SYLLABICS WOODS-CREE THWA" -> 5756
      [] name = "CANADIAN SYLLABICS WOODS-CREE THWAA" -> 5757
      [] name = "CANADIAN SYLLABICS WOODS-CREE FINAL TH" -> 5758
      [] name = "CANADIAN SYLLABICS BLACKFOOT W" -> 5759
      [] name = "OGHAM SPACE MARK" -> 5760
      [] name = "OGHAM LETTER BEITH" -> 5761
      [] name = "OGHAM LETTER LUIS" -> 5762
      [] name = "OGHAM LETTER FEARN" -> 5763
      [] name = "OGHAM LETTER SAIL" -> 5764
      [] name = "OGHAM LETTER NION" -> 5765
      [] name = "OGHAM LETTER UATH" -> 5766
      [] name = "OGHAM LETTER DAIR" -> 5767
      [] name = "OGHAM LETTER TINNE" -> 5768
      [] name = "OGHAM LETTER COLL" -> 5769
      [] name = "OGHAM LETTER CEIRT" -> 5770
      [] name = "OGHAM LETTER MUIN" -> 5771
      [] name = "OGHAM LETTER GORT" -> 5772
      [] name = "OGHAM LETTER NGEADAL" -> 5773
      [] name = "OGHAM LETTER STRAIF" -> 5774
      [] name = "OGHAM LETTER RUIS" -> 5775
      [] name = "OGHAM LETTER AILM" -> 5776
      [] name = "OGHAM LETTER ONN" -> 5777
      [] name = "OGHAM LETTER UR" -> 5778
      [] name = "OGHAM LETTER EADHADH" -> 5779
      [] name = "OGHAM LETTER IODHADH" -> 5780
      [] name = "OGHAM LETTER EABHADH" -> 5781
      [] name = "OGHAM LETTER OR" -> 5782
      [] name = "OGHAM LETTER UILLEANN" -> 5783
      [] name = "OGHAM LETTER IFIN" -> 5784
      [] name = "OGHAM LETTER EAMHANCHOLL" -> 5785
      [] name = "OGHAM LETTER PEITH" -> 5786
      [] name = "OGHAM FEATHER MARK" -> 5787
      [] name = "OGHAM REVERSED FEATHER MARK" -> 5788
      [] name = "RUNIC LETTER FEHU FEOH FE F" -> 5792
      [] name = "RUNIC LETTER V" -> 5793
      [] name = "RUNIC LETTER URUZ UR U" -> 5794
      [] name = "RUNIC LETTER YR" -> 5795
      [] name = "RUNIC LETTER Y" -> 5796
      [] name = "RUNIC LETTER W" -> 5797
      [] name = "RUNIC LETTER THURISAZ THURS THORN" -> 5798
      [] name = "RUNIC LETTER ETH" -> 5799
      [] name = "RUNIC LETTER ANSUZ A" -> 5800
      [] name = "RUNIC LETTER OS O" -> 5801
      [] name = "RUNIC LETTER AC A" -> 5802
      [] name = "RUNIC LETTER AESC" -> 5803
      [] name = "RUNIC LETTER LONG-BRANCH-OSS O" -> 5804
      [] name = "RUNIC LETTER SHORT-TWIG-OSS O" -> 5805
      [] name = "RUNIC LETTER O" -> 5806
      [] name = "RUNIC LETTER OE" -> 5807
      [] name = "RUNIC LETTER ON" -> 5808
      [] name = "RUNIC LETTER RAIDO RAD REID R" -> 5809
      [] name = "RUNIC LETTER KAUNA" -> 5810
      [] name = "RUNIC LETTER CEN" -> 5811
      [] name = "RUNIC LETTER KAUN K" -> 5812
      [] name = "RUNIC LETTER G" -> 5813
      [] name = "RUNIC LETTER ENG" -> 5814
      [] name = "RUNIC LETTER GEBO GYFU G" -> 5815
      [] name = "RUNIC LETTER GAR" -> 5816
      [] name = "RUNIC LETTER WUNJO WYNN W" -> 5817
      [] name = "RUNIC LETTER HAGLAZ H" -> 5818
      [] name = "RUNIC LETTER HAEGL H" -> 5819
      [] name = "RUNIC LETTER LONG-BRANCH-HAGALL H" -> 5820
      [] name = "RUNIC LETTER SHORT-TWIG-HAGALL H" -> 5821
      [] name = "RUNIC LETTER NAUDIZ NYD NAUD N" -> 5822
      [] name = "RUNIC LETTER SHORT-TWIG-NAUD N" -> 5823
      [] name = "RUNIC LETTER DOTTED-N" -> 5824
      [] name = "RUNIC LETTER ISAZ IS ISS I" -> 5825
      [] name = "RUNIC LETTER E" -> 5826
      [] name = "RUNIC LETTER JERAN J" -> 5827
      [] name = "RUNIC LETTER GER" -> 5828
      [] name = "RUNIC LETTER LONG-BRANCH-AR AE" -> 5829
      [] name = "RUNIC LETTER SHORT-TWIG-AR A" -> 5830
      [] name = "RUNIC LETTER IWAZ EOH" -> 5831
      [] name = "RUNIC LETTER PERTHO PEORTH P" -> 5832
      [] name = "RUNIC LETTER ALGIZ EOLHX" -> 5833
      [] name = "RUNIC LETTER SOWILO S" -> 5834
      [] name = "RUNIC LETTER SIGEL LONG-BRANCH-SOL S" -> 5835
      [] name = "RUNIC LETTER SHORT-TWIG-SOL S" -> 5836
      [] name = "RUNIC LETTER C" -> 5837
      [] name = "RUNIC LETTER Z" -> 5838
      [] name = "RUNIC LETTER TIWAZ TIR TYR T" -> 5839
      [] name = "RUNIC LETTER SHORT-TWIG-TYR T" -> 5840
      [] name = "RUNIC LETTER D" -> 5841
      [] name = "RUNIC LETTER BERKANAN BEORC BJARKAN B" -> 5842
      [] name = "RUNIC LETTER SHORT-TWIG-BJARKAN B" -> 5843
      [] name = "RUNIC LETTER DOTTED-P" -> 5844
      [] name = "RUNIC LETTER OPEN-P" -> 5845
      [] name = "RUNIC LETTER EHWAZ EH E" -> 5846
      [] name = "RUNIC LETTER MANNAZ MAN M" -> 5847
      [] name = "RUNIC LETTER LONG-BRANCH-MADR M" -> 5848
      [] name = "RUNIC LETTER SHORT-TWIG-MADR M" -> 5849
      [] name = "RUNIC LETTER LAUKAZ LAGU LOGR L" -> 5850
      [] name = "RUNIC LETTER DOTTED-L" -> 5851
      [] name = "RUNIC LETTER INGWAZ" -> 5852
      [] name = "RUNIC LETTER ING" -> 5853
      [] name = "RUNIC LETTER DAGAZ DAEG D" -> 5854
      [] name = "RUNIC LETTER OTHALAN ETHEL O" -> 5855
      [] name = "RUNIC LETTER EAR" -> 5856
      [] name = "RUNIC LETTER IOR" -> 5857
      [] name = "RUNIC LETTER CWEORTH" -> 5858
      [] name = "RUNIC LETTER CALC" -> 5859
      [] name = "RUNIC LETTER CEALC" -> 5860
      [] name = "RUNIC LETTER STAN" -> 5861
      [] name = "RUNIC LETTER LONG-BRANCH-YR" -> 5862
      [] name = "RUNIC LETTER SHORT-TWIG-YR" -> 5863
      [] name = "RUNIC LETTER ICELANDIC-YR" -> 5864
      [] name = "RUNIC LETTER Q" -> 5865
      [] name = "RUNIC LETTER X" -> 5866
      [] name = "RUNIC SINGLE PUNCTUATION" -> 5867
      [] name = "RUNIC MULTIPLE PUNCTUATION" -> 5868
      [] name = "RUNIC CROSS PUNCTUATION" -> 5869
      [] name = "RUNIC ARLAUG SYMBOL" -> 5870
      [] name = "RUNIC TVIMADUR SYMBOL" -> 5871
      [] name = "RUNIC BELGTHOR SYMBOL" -> 5872
      [] name = "RUNIC LETTER K" -> 5873
      [] name = "RUNIC LETTER SH" -> 5874
      [] name = "RUNIC LETTER OO" -> 5875
      [] name = "RUNIC LETTER FRANKS CASKET OS" -> 5876
      [] name = "RUNIC LETTER FRANKS CASKET IS" -> 5877
      [] name = "RUNIC LETTER FRANKS CASKET EH" -> 5878
      [] name = "RUNIC LETTER FRANKS CASKET AC" -> 5879
      [] name = "RUNIC LETTER FRANKS CASKET AESC" -> 5880
      [] name = "TAGALOG LETTER A" -> 5888
      [] name = "TAGALOG LETTER I" -> 5889
      [] name = "TAGALOG LETTER U" -> 5890
      [] name = "TAGALOG LETTER KA" -> 5891
      [] name = "TAGALOG LETTER GA" -> 5892
      [] name = "TAGALOG LETTER NGA" -> 5893
      [] name = "TAGALOG LETTER TA" -> 5894
      [] name = "TAGALOG LETTER DA" -> 5895
      [] name = "TAGALOG LETTER NA" -> 5896
      [] name = "TAGALOG LETTER PA" -> 5897
      [] name = "TAGALOG LETTER BA" -> 5898
      [] name = "TAGALOG LETTER MA" -> 5899
      [] name = "TAGALOG LETTER YA" -> 5900
      [] name = "TAGALOG LETTER RA" -> 5901
      [] name = "TAGALOG LETTER LA" -> 5902
      [] name = "TAGALOG LETTER WA" -> 5903
      [] name = "TAGALOG LETTER SA" -> 5904
      [] name = "TAGALOG LETTER HA" -> 5905
      [] name = "TAGALOG VOWEL SIGN I" -> 5906
      [] name = "TAGALOG VOWEL SIGN U" -> 5907
      [] name = "TAGALOG SIGN VIRAMA" -> 5908
      [] name = "TAGALOG SIGN PAMUDPOD" -> 5909
      [] name = "TAGALOG LETTER ARCHAIC RA" -> 5919
      [] name = "HANUNOO LETTER A" -> 5920
      [] name = "HANUNOO LETTER I" -> 5921
      [] name = "HANUNOO LETTER U" -> 5922
      [] name = "HANUNOO LETTER KA" -> 5923
      [] name = "HANUNOO LETTER GA" -> 5924
      [] name = "HANUNOO LETTER NGA" -> 5925
      [] name = "HANUNOO LETTER TA" -> 5926
      [] name = "HANUNOO LETTER DA" -> 5927
      [] name = "HANUNOO LETTER NA" -> 5928
      [] name = "HANUNOO LETTER PA" -> 5929
      [] name = "HANUNOO LETTER BA" -> 5930
      [] name = "HANUNOO LETTER MA" -> 5931
      [] name = "HANUNOO LETTER YA" -> 5932
      [] name = "HANUNOO LETTER RA" -> 5933
      [] name = "HANUNOO LETTER LA" -> 5934
      [] name = "HANUNOO LETTER WA" -> 5935
      [] name = "HANUNOO LETTER SA" -> 5936
      [] name = "HANUNOO LETTER HA" -> 5937
      [] name = "HANUNOO VOWEL SIGN I" -> 5938
      [] name = "HANUNOO VOWEL SIGN U" -> 5939
      [] name = "HANUNOO SIGN PAMUDPOD" -> 5940
      [] name = "PHILIPPINE SINGLE PUNCTUATION" -> 5941
      [] name = "PHILIPPINE DOUBLE PUNCTUATION" -> 5942
      [] name = "BUHID LETTER A" -> 5952
      [] name = "BUHID LETTER I" -> 5953
      [] name = "BUHID LETTER U" -> 5954
      [] name = "BUHID LETTER KA" -> 5955
      [] name = "BUHID LETTER GA" -> 5956
      [] name = "BUHID LETTER NGA" -> 5957
      [] name = "BUHID LETTER TA" -> 5958
      [] name = "BUHID LETTER DA" -> 5959
      [] name = "BUHID LETTER NA" -> 5960
      [] name = "BUHID LETTER PA" -> 5961
      [] name = "BUHID LETTER BA" -> 5962
      [] name = "BUHID LETTER MA" -> 5963
      [] name = "BUHID LETTER YA" -> 5964
      [] name = "BUHID LETTER RA" -> 5965
      [] name = "BUHID LETTER LA" -> 5966
      [] name = "BUHID LETTER WA" -> 5967
      [] name = "BUHID LETTER SA" -> 5968
      [] name = "BUHID LETTER HA" -> 5969
      [] name = "BUHID VOWEL SIGN I" -> 5970
      [] name = "BUHID VOWEL SIGN U" -> 5971
      [] name = "TAGBANWA LETTER A" -> 5984
      [] name = "TAGBANWA LETTER I" -> 5985
      [] name = "TAGBANWA LETTER U" -> 5986
      [] name = "TAGBANWA LETTER KA" -> 5987
      [] name = "TAGBANWA LETTER GA" -> 5988
      [] name = "TAGBANWA LETTER NGA" -> 5989
      [] name = "TAGBANWA LETTER TA" -> 5990
      [] name = "TAGBANWA LETTER DA" -> 5991
      [] name = "TAGBANWA LETTER NA" -> 5992
      [] name = "TAGBANWA LETTER PA" -> 5993
      [] name = "TAGBANWA LETTER BA" -> 5994
      [] name = "TAGBANWA LETTER MA" -> 5995
      [] name = "TAGBANWA LETTER YA" -> 5996
      [] name = "TAGBANWA LETTER LA" -> 5998
      [] name = "TAGBANWA LETTER WA" -> 5999
      [] name = "TAGBANWA LETTER SA" -> 6000
      [] name = "TAGBANWA VOWEL SIGN I" -> 6002
      [] name = "TAGBANWA VOWEL SIGN U" -> 6003
      [] name = "KHMER LETTER KA" -> 6016
      [] name = "KHMER LETTER KHA" -> 6017
      [] name = "KHMER LETTER KO" -> 6018
      [] name = "KHMER LETTER KHO" -> 6019
      [] name = "KHMER LETTER NGO" -> 6020
      [] name = "KHMER LETTER CA" -> 6021
      [] name = "KHMER LETTER CHA" -> 6022
      [] name = "KHMER LETTER CO" -> 6023
      [] name = "KHMER LETTER CHO" -> 6024
      [] name = "KHMER LETTER NYO" -> 6025
      [] name = "KHMER LETTER DA" -> 6026
      [] name = "KHMER LETTER TTHA" -> 6027
      [] name = "KHMER LETTER DO" -> 6028
      [] name = "KHMER LETTER TTHO" -> 6029
      [] name = "KHMER LETTER NNO" -> 6030
      [] name = "KHMER LETTER TA" -> 6031
      [] name = "KHMER LETTER THA" -> 6032
      [] name = "KHMER LETTER TO" -> 6033
      [] name = "KHMER LETTER THO" -> 6034
      [] name = "KHMER LETTER NO" -> 6035
      [] name = "KHMER LETTER BA" -> 6036
      [] name = "KHMER LETTER PHA" -> 6037
      [] name = "KHMER LETTER PO" -> 6038
      [] name = "KHMER LETTER PHO" -> 6039
      [] name = "KHMER LETTER MO" -> 6040
      [] name = "KHMER LETTER YO" -> 6041
      [] name = "KHMER LETTER RO" -> 6042
      [] name = "KHMER LETTER LO" -> 6043
      [] name = "KHMER LETTER VO" -> 6044
      [] name = "KHMER LETTER SHA" -> 6045
      [] name = "KHMER LETTER SSO" -> 6046
      [] name = "KHMER LETTER SA" -> 6047
      [] name = "KHMER LETTER HA" -> 6048
      [] name = "KHMER LETTER LA" -> 6049
      [] name = "KHMER LETTER QA" -> 6050
      [] name = "KHMER INDEPENDENT VOWEL QAQ" -> 6051
      [] name = "KHMER INDEPENDENT VOWEL QAA" -> 6052
      [] name = "KHMER INDEPENDENT VOWEL QI" -> 6053
      [] name = "KHMER INDEPENDENT VOWEL QII" -> 6054
      [] name = "KHMER INDEPENDENT VOWEL QU" -> 6055
      [] name = "KHMER INDEPENDENT VOWEL QUK" -> 6056
      [] name = "KHMER INDEPENDENT VOWEL QUU" -> 6057
      [] name = "KHMER INDEPENDENT VOWEL QUUV" -> 6058
      [] name = "KHMER INDEPENDENT VOWEL RY" -> 6059
      [] name = "KHMER INDEPENDENT VOWEL RYY" -> 6060
      [] name = "KHMER INDEPENDENT VOWEL LY" -> 6061
      [] name = "KHMER INDEPENDENT VOWEL LYY" -> 6062
      [] name = "KHMER INDEPENDENT VOWEL QE" -> 6063
      [] name = "KHMER INDEPENDENT VOWEL QAI" -> 6064
      [] name = "KHMER INDEPENDENT VOWEL QOO TYPE ONE" -> 6065
      [] name = "KHMER INDEPENDENT VOWEL QOO TYPE TWO" -> 6066
      [] name = "KHMER INDEPENDENT VOWEL QAU" -> 6067
      [] name = "KHMER VOWEL INHERENT AQ" -> 6068
      [] name = "KHMER VOWEL INHERENT AA" -> 6069
      [] name = "KHMER VOWEL SIGN AA" -> 6070
      [] name = "KHMER VOWEL SIGN I" -> 6071
      [] name = "KHMER VOWEL SIGN II" -> 6072
      [] name = "KHMER VOWEL SIGN Y" -> 6073
      [] name = "KHMER VOWEL SIGN YY" -> 6074
      [] name = "KHMER VOWEL SIGN U" -> 6075
      [] name = "KHMER VOWEL SIGN UU" -> 6076
      [] name = "KHMER VOWEL SIGN UA" -> 6077
      [] name = "KHMER VOWEL SIGN OE" -> 6078
      [] name = "KHMER VOWEL SIGN YA" -> 6079
      [] name = "KHMER VOWEL SIGN IE" -> 6080
      [] name = "KHMER VOWEL SIGN E" -> 6081
      [] name = "KHMER VOWEL SIGN AE" -> 6082
      [] name = "KHMER VOWEL SIGN AI" -> 6083
      [] name = "KHMER VOWEL SIGN OO" -> 6084
      [] name = "KHMER VOWEL SIGN AU" -> 6085
      [] name = "KHMER SIGN NIKAHIT" -> 6086
      [] name = "KHMER SIGN REAHMUK" -> 6087
      [] name = "KHMER SIGN YUUKALEAPINTU" -> 6088
      [] name = "KHMER SIGN MUUSIKATOAN" -> 6089
      [] name = "KHMER SIGN TRIISAP" -> 6090
      [] name = "KHMER SIGN BANTOC" -> 6091
      [] name = "KHMER SIGN ROBAT" -> 6092
      [] name = "KHMER SIGN TOANDAKHIAT" -> 6093
      [] name = "KHMER SIGN KAKABAT" -> 6094
      [] name = "KHMER SIGN AHSDA" -> 6095
      [] name = "KHMER SIGN SAMYOK SANNYA" -> 6096
      [] name = "KHMER SIGN VIRIAM" -> 6097
      [] name = "KHMER SIGN COENG" -> 6098
      [] name = "KHMER SIGN BATHAMASAT" -> 6099
      [] name = "KHMER SIGN KHAN" -> 6100
      [] name = "KHMER SIGN BARIYOOSAN" -> 6101
      [] name = "KHMER SIGN CAMNUC PII KUUH" -> 6102
      [] name = "KHMER SIGN LEK TOO" -> 6103
      [] name = "KHMER SIGN BEYYAL" -> 6104
      [] name = "KHMER SIGN PHNAEK MUAN" -> 6105
      [] name = "KHMER SIGN KOOMUUT" -> 6106
      [] name = "KHMER CURRENCY SYMBOL RIEL" -> 6107
      [] name = "KHMER SIGN AVAKRAHASANYA" -> 6108
      [] name = "KHMER SIGN ATTHACAN" -> 6109
      [] name = "KHMER DIGIT ZERO" -> 6112
      [] name = "KHMER DIGIT ONE" -> 6113
      [] name = "KHMER DIGIT TWO" -> 6114
      [] name = "KHMER DIGIT THREE" -> 6115
      [] name = "KHMER DIGIT FOUR" -> 6116
      [] name = "KHMER DIGIT FIVE" -> 6117
      [] name = "KHMER DIGIT SIX" -> 6118
      [] name = "KHMER DIGIT SEVEN" -> 6119
      [] name = "KHMER DIGIT EIGHT" -> 6120
      [] name = "KHMER DIGIT NINE" -> 6121
      [] name = "KHMER SYMBOL LEK ATTAK SON" -> 6128
      [] name = "KHMER SYMBOL LEK ATTAK MUOY" -> 6129
      [] name = "KHMER SYMBOL LEK ATTAK PII" -> 6130
      [] name = "KHMER SYMBOL LEK ATTAK BEI" -> 6131
      [] name = "KHMER SYMBOL LEK ATTAK BUON" -> 6132
      [] name = "KHMER SYMBOL LEK ATTAK PRAM" -> 6133
      [] name = "KHMER SYMBOL LEK ATTAK PRAM-MUOY" -> 6134
      [] name = "KHMER SYMBOL LEK ATTAK PRAM-PII" -> 6135
      [] name = "KHMER SYMBOL LEK ATTAK PRAM-BEI" -> 6136
      [] name = "KHMER SYMBOL LEK ATTAK PRAM-BUON" -> 6137
      [] name = "MONGOLIAN BIRGA" -> 6144
      [] name = "MONGOLIAN ELLIPSIS" -> 6145
      [] name = "MONGOLIAN COMMA" -> 6146
      [] name = "MONGOLIAN FULL STOP" -> 6147
      [] name = "MONGOLIAN COLON" -> 6148
      [] name = "MONGOLIAN FOUR DOTS" -> 6149
      [] name = "MONGOLIAN TODO SOFT HYPHEN" -> 6150
      [] name = "MONGOLIAN SIBE SYLLABLE BOUNDARY MARKER" -> 6151
      [] name = "MONGOLIAN MANCHU COMMA" -> 6152
      [] name = "MONGOLIAN MANCHU FULL STOP" -> 6153
      [] name = "MONGOLIAN NIRUGU" -> 6154
      [] name = "FVS1" -> 6155
      [] name = "MONGOLIAN FREE VARIATION SELECTOR ONE" -> 6155
      [] name = "FVS2" -> 6156
      [] name = "MONGOLIAN FREE VARIATION SELECTOR TWO" -> 6156
      [] name = "FVS3" -> 6157
      [] name = "MONGOLIAN FREE VARIATION SELECTOR THREE" -> 6157
      [] name = "MONGOLIAN VOWEL SEPARATOR" -> 6158
      [] name = "MVS" -> 6158
      [] name = "FVS4" -> 6159
      [] name = "MONGOLIAN FREE VARIATION SELECTOR FOUR" -> 6159
      [] name = "MONGOLIAN DIGIT ZERO" -> 6160
      [] name = "MONGOLIAN DIGIT ONE" -> 6161
      [] name = "MONGOLIAN DIGIT TWO" -> 6162
      [] name = "MONGOLIAN DIGIT THREE" -> 6163
      [] name = "MONGOLIAN DIGIT FOUR" -> 6164
      [] name = "MONGOLIAN DIGIT FIVE" -> 6165
      [] name = "MONGOLIAN DIGIT SIX" -> 6166
      [] name = "MONGOLIAN DIGIT SEVEN" -> 6167
      [] name = "MONGOLIAN DIGIT EIGHT" -> 6168
      [] name = "MONGOLIAN DIGIT NINE" -> 6169
      [] name = "MONGOLIAN LETTER A" -> 6176
      [] name = "MONGOLIAN LETTER E" -> 6177
      [] name = "MONGOLIAN LETTER I" -> 6178
      [] name = "MONGOLIAN LETTER O" -> 6179
      [] name = "MONGOLIAN LETTER U" -> 6180
      [] name = "MONGOLIAN LETTER OE" -> 6181
      [] name = "MONGOLIAN LETTER UE" -> 6182
      [] name = "MONGOLIAN LETTER EE" -> 6183
      [] name = "MONGOLIAN LETTER NA" -> 6184
      [] name = "MONGOLIAN LETTER ANG" -> 6185
      [] name = "MONGOLIAN LETTER BA" -> 6186
      [] name = "MONGOLIAN LETTER PA" -> 6187
      [] name = "MONGOLIAN LETTER QA" -> 6188
      [] name = "MONGOLIAN LETTER GA" -> 6189
      [] name = "MONGOLIAN LETTER MA" -> 6190
      [] name = "MONGOLIAN LETTER LA" -> 6191
      [] name = "MONGOLIAN LETTER SA" -> 6192
      [] name = "MONGOLIAN LETTER SHA" -> 6193
      [] name = "MONGOLIAN LETTER TA" -> 6194
      [] name = "MONGOLIAN LETTER DA" -> 6195
      [] name = "MONGOLIAN LETTER CHA" -> 6196
      [] name = "MONGOLIAN LETTER JA" -> 6197
      [] name = "MONGOLIAN LETTER YA" -> 6198
      [] name = "MONGOLIAN LETTER RA" -> 6199
      [] name = "MONGOLIAN LETTER WA" -> 6200
      [] name = "MONGOLIAN LETTER FA" -> 6201
      [] name = "MONGOLIAN LETTER KA" -> 6202
      [] name = "MONGOLIAN LETTER KHA" -> 6203
      [] name = "MONGOLIAN LETTER TSA" -> 6204
      [] name = "MONGOLIAN LETTER ZA" -> 6205
      [] name = "MONGOLIAN LETTER HAA" -> 6206
      [] name = "MONGOLIAN LETTER ZRA" -> 6207
      [] name = "MONGOLIAN LETTER LHA" -> 6208
      [] name = "MONGOLIAN LETTER ZHI" -> 6209
      [] name = "MONGOLIAN LETTER CHI" -> 6210
      [] name = "MONGOLIAN LETTER TODO LONG VOWEL SIGN" -> 6211
      [] name = "MONGOLIAN LETTER TODO E" -> 6212
      [] name = "MONGOLIAN LETTER TODO I" -> 6213
      [] name = "MONGOLIAN LETTER TODO O" -> 6214
      [] name = "MONGOLIAN LETTER TODO U" -> 6215
      [] name = "MONGOLIAN LETTER TODO OE" -> 6216
      [] name = "MONGOLIAN LETTER TODO UE" -> 6217
      [] name = "MONGOLIAN LETTER TODO ANG" -> 6218
      [] name = "MONGOLIAN LETTER TODO BA" -> 6219
      [] name = "MONGOLIAN LETTER TODO PA" -> 6220
      [] name = "MONGOLIAN LETTER TODO QA" -> 6221
      [] name = "MONGOLIAN LETTER TODO GA" -> 6222
      [] name = "MONGOLIAN LETTER TODO MA" -> 6223
      [] name = "MONGOLIAN LETTER TODO TA" -> 6224
      [] name = "MONGOLIAN LETTER TODO DA" -> 6225
      [] name = "MONGOLIAN LETTER TODO CHA" -> 6226
      [] name = "MONGOLIAN LETTER TODO JA" -> 6227
      [] name = "MONGOLIAN LETTER TODO TSA" -> 6228
      [] name = "MONGOLIAN LETTER TODO YA" -> 6229
      [] name = "MONGOLIAN LETTER TODO WA" -> 6230
      [] name = "MONGOLIAN LETTER TODO KA" -> 6231
      [] name = "MONGOLIAN LETTER TODO GAA" -> 6232
      [] name = "MONGOLIAN LETTER TODO HAA" -> 6233
      [] name = "MONGOLIAN LETTER TODO JIA" -> 6234
      [] name = "MONGOLIAN LETTER TODO NIA" -> 6235
      [] name = "MONGOLIAN LETTER TODO DZA" -> 6236
      [] name = "MONGOLIAN LETTER SIBE E" -> 6237
      [] name = "MONGOLIAN LETTER SIBE I" -> 6238
      [] name = "MONGOLIAN LETTER SIBE IY" -> 6239
      [] name = "MONGOLIAN LETTER SIBE UE" -> 6240
      [] name = "MONGOLIAN LETTER SIBE U" -> 6241
      [] name = "MONGOLIAN LETTER SIBE ANG" -> 6242
      [] name = "MONGOLIAN LETTER SIBE KA" -> 6243
      [] name = "MONGOLIAN LETTER SIBE GA" -> 6244
      [] name = "MONGOLIAN LETTER SIBE HA" -> 6245
      [] name = "MONGOLIAN LETTER SIBE PA" -> 6246
      [] name = "MONGOLIAN LETTER SIBE SHA" -> 6247
      [] name = "MONGOLIAN LETTER SIBE TA" -> 6248
      [] name = "MONGOLIAN LETTER SIBE DA" -> 6249
      [] name = "MONGOLIAN LETTER SIBE JA" -> 6250
      [] name = "MONGOLIAN LETTER SIBE FA" -> 6251
      [] name = "MONGOLIAN LETTER SIBE GAA" -> 6252
      [] name = "MONGOLIAN LETTER SIBE HAA" -> 6253
      [] name = "MONGOLIAN LETTER SIBE TSA" -> 6254
      [] name = "MONGOLIAN LETTER SIBE ZA" -> 6255
      [] name = "MONGOLIAN LETTER SIBE RAA" -> 6256
      [] name = "MONGOLIAN LETTER SIBE CHA" -> 6257
      [] name = "MONGOLIAN LETTER SIBE ZHA" -> 6258
      [] name = "MONGOLIAN LETTER MANCHU I" -> 6259
      [] name = "MONGOLIAN LETTER MANCHU KA" -> 6260
      [] name = "MONGOLIAN LETTER MANCHU RA" -> 6261
      [] name = "MONGOLIAN LETTER MANCHU FA" -> 6262
      [] name = "MONGOLIAN LETTER MANCHU ZHA" -> 6263
      [] name = "MONGOLIAN LETTER CHA WITH TWO DOTS" -> 6264
      [] name = "MONGOLIAN LETTER ALI GALI ANUSVARA ONE" -> 6272
      [] name = "MONGOLIAN LETTER ALI GALI VISARGA ONE" -> 6273
      [] name = "MONGOLIAN LETTER ALI GALI DAMARU" -> 6274
      [] name = "MONGOLIAN LETTER ALI GALI UBADAMA" -> 6275
      [] name = "MONGOLIAN LETTER ALI GALI INVERTED UBADAMA" -> 6276
      [] name = "MONGOLIAN LETTER ALI GALI BALUDA" -> 6277
      [] name = "MONGOLIAN LETTER ALI GALI THREE BALUDA" -> 6278
      [] name = "MONGOLIAN LETTER ALI GALI A" -> 6279
      [] name = "MONGOLIAN LETTER ALI GALI I" -> 6280
      [] name = "MONGOLIAN LETTER ALI GALI KA" -> 6281
      [] name = "MONGOLIAN LETTER ALI GALI NGA" -> 6282
      [] name = "MONGOLIAN LETTER ALI GALI CA" -> 6283
      [] name = "MONGOLIAN LETTER ALI GALI TTA" -> 6284
      [] name = "MONGOLIAN LETTER ALI GALI TTHA" -> 6285
      [] name = "MONGOLIAN LETTER ALI GALI DDA" -> 6286
      [] name = "MONGOLIAN LETTER ALI GALI NNA" -> 6287
      [] name = "MONGOLIAN LETTER ALI GALI TA" -> 6288
      [] name = "MONGOLIAN LETTER ALI GALI DA" -> 6289
      [] name = "MONGOLIAN LETTER ALI GALI PA" -> 6290
      [] name = "MONGOLIAN LETTER ALI GALI PHA" -> 6291
      [] name = "MONGOLIAN LETTER ALI GALI SSA" -> 6292
      [] name = "MONGOLIAN LETTER ALI GALI ZHA" -> 6293
      [] name = "MONGOLIAN LETTER ALI GALI ZA" -> 6294
      [] name = "MONGOLIAN LETTER ALI GALI AH" -> 6295
      [] name = "MONGOLIAN LETTER TODO ALI GALI TA" -> 6296
      [] name = "MONGOLIAN LETTER TODO ALI GALI ZHA" -> 6297
      [] name = "MONGOLIAN LETTER MANCHU ALI GALI GHA" -> 6298
      [] name = "MONGOLIAN LETTER MANCHU ALI GALI NGA" -> 6299
      [] name = "MONGOLIAN LETTER MANCHU ALI GALI CA" -> 6300
      [] name = "MONGOLIAN LETTER MANCHU ALI GALI JHA" -> 6301
      [] name = "MONGOLIAN LETTER MANCHU ALI GALI TTA" -> 6302
      [] name = "MONGOLIAN LETTER MANCHU ALI GALI DDHA" -> 6303
      [] name = "MONGOLIAN LETTER MANCHU ALI GALI TA" -> 6304
      [] name = "MONGOLIAN LETTER MANCHU ALI GALI DHA" -> 6305
      [] name = "MONGOLIAN LETTER MANCHU ALI GALI SSA" -> 6306
      [] name = "MONGOLIAN LETTER MANCHU ALI GALI CYA" -> 6307
      [] name = "MONGOLIAN LETTER MANCHU ALI GALI ZHA" -> 6308
      [] name = "MONGOLIAN LETTER MANCHU ALI GALI ZA" -> 6309
      [] name = "MONGOLIAN LETTER ALI GALI HALF U" -> 6310
      [] name = "MONGOLIAN LETTER ALI GALI HALF YA" -> 6311
      [] name = "MONGOLIAN LETTER MANCHU ALI GALI BHA" -> 6312
      [] name = "MONGOLIAN LETTER ALI GALI DAGALGA" -> 6313
      [] name = "MONGOLIAN LETTER MANCHU ALI GALI LHA" -> 6314
      [] name = "CANADIAN SYLLABICS OY" -> 6320
      [] name = "CANADIAN SYLLABICS AY" -> 6321
      [] name = "CANADIAN SYLLABICS AAY" -> 6322
      [] name = "CANADIAN SYLLABICS WAY" -> 6323
      [] name = "CANADIAN SYLLABICS POY" -> 6324
      [] name = "CANADIAN SYLLABICS PAY" -> 6325
      [] name = "CANADIAN SYLLABICS PWOY" -> 6326
      [] name = "CANADIAN SYLLABICS TAY" -> 6327
      [] name = "CANADIAN SYLLABICS KAY" -> 6328
      [] name = "CANADIAN SYLLABICS KWAY" -> 6329
      [] name = "CANADIAN SYLLABICS MAY" -> 6330
      [] name = "CANADIAN SYLLABICS NOY" -> 6331
      [] name = "CANADIAN SYLLABICS NAY" -> 6332
      [] name = "CANADIAN SYLLABICS LAY" -> 6333
      [] name = "CANADIAN SYLLABICS SOY" -> 6334
      [] name = "CANADIAN SYLLABICS SAY" -> 6335
      [] name = "CANADIAN SYLLABICS SHOY" -> 6336
      [] name = "CANADIAN SYLLABICS SHAY" -> 6337
      [] name = "CANADIAN SYLLABICS SHWOY" -> 6338
      [] name = "CANADIAN SYLLABICS YOY" -> 6339
      [] name = "CANADIAN SYLLABICS YAY" -> 6340
      [] name = "CANADIAN SYLLABICS RAY" -> 6341
      [] name = "CANADIAN SYLLABICS NWI" -> 6342
      [] name = "CANADIAN SYLLABICS OJIBWAY NWI" -> 6343
      [] name = "CANADIAN SYLLABICS NWII" -> 6344
      [] name = "CANADIAN SYLLABICS OJIBWAY NWII" -> 6345
      [] name = "CANADIAN SYLLABICS NWO" -> 6346
      [] name = "CANADIAN SYLLABICS OJIBWAY NWO" -> 6347
      [] name = "CANADIAN SYLLABICS NWOO" -> 6348
      [] name = "CANADIAN SYLLABICS OJIBWAY NWOO" -> 6349
      [] name = "CANADIAN SYLLABICS RWEE" -> 6350
      [] name = "CANADIAN SYLLABICS RWI" -> 6351
      [] name = "CANADIAN SYLLABICS RWII" -> 6352
      [] name = "CANADIAN SYLLABICS RWO" -> 6353
      [] name = "CANADIAN SYLLABICS RWOO" -> 6354
      [] name = "CANADIAN SYLLABICS RWA" -> 6355
      [] name = "CANADIAN SYLLABICS OJIBWAY P" -> 6356
      [] name = "CANADIAN SYLLABICS OJIBWAY T" -> 6357
      [] name = "CANADIAN SYLLABICS OJIBWAY K" -> 6358
      [] name = "CANADIAN SYLLABICS OJIBWAY C" -> 6359
      [] name = "CANADIAN SYLLABICS OJIBWAY M" -> 6360
      [] name = "CANADIAN SYLLABICS OJIBWAY N" -> 6361
      [] name = "CANADIAN SYLLABICS OJIBWAY S" -> 6362
      [] name = "CANADIAN SYLLABICS OJIBWAY SH" -> 6363
      [] name = "CANADIAN SYLLABICS EASTERN W" -> 6364
      [] name = "CANADIAN SYLLABICS WESTERN W" -> 6365
      [] name = "CANADIAN SYLLABICS FINAL SMALL RING" -> 6366
      [] name = "CANADIAN SYLLABICS FINAL RAISED DOT" -> 6367
      [] name = "CANADIAN SYLLABICS R-CREE RWE" -> 6368
      [] name = "CANADIAN SYLLABICS WEST-CREE LOO" -> 6369
      [] name = "CANADIAN SYLLABICS WEST-CREE LAA" -> 6370
      [] name = "CANADIAN SYLLABICS THWE" -> 6371
      [] name = "CANADIAN SYLLABICS THWA" -> 6372
      [] name = "CANADIAN SYLLABICS TTHWE" -> 6373
      [] name = "CANADIAN SYLLABICS TTHOO" -> 6374
      [] name = "CANADIAN SYLLABICS TTHAA" -> 6375
      [] name = "CANADIAN SYLLABICS TLHWE" -> 6376
      [] name = "CANADIAN SYLLABICS TLHOO" -> 6377
      [] name = "CANADIAN SYLLABICS SAYISI SHWE" -> 6378
      [] name = "CANADIAN SYLLABICS SAYISI SHOO" -> 6379
      [] name = "CANADIAN SYLLABICS SAYISI HOO" -> 6380
      [] name = "CANADIAN SYLLABICS CARRIER GWU" -> 6381
      [] name = "CANADIAN SYLLABICS CARRIER DENE GEE" -> 6382
      [] name = "CANADIAN SYLLABICS CARRIER GAA" -> 6383
      [] name = "CANADIAN SYLLABICS CARRIER GWA" -> 6384
      [] name = "CANADIAN SYLLABICS SAYISI JUU" -> 6385
      [] name = "CANADIAN SYLLABICS CARRIER JWA" -> 6386
      [] name = "CANADIAN SYLLABICS BEAVER DENE L" -> 6387
      [] name = "CANADIAN SYLLABICS BEAVER DENE R" -> 6388
      [] name = "CANADIAN SYLLABICS CARRIER DENTAL S" -> 6389
      [] name = "LIMBU VOWEL-CARRIER LETTER" -> 6400
      [] name = "LIMBU LETTER KA" -> 6401
      [] name = "LIMBU LETTER KHA" -> 6402
      [] name = "LIMBU LETTER GA" -> 6403
      [] name = "LIMBU LETTER GHA" -> 6404
      [] name = "LIMBU LETTER NGA" -> 6405
      [] name = "LIMBU LETTER CA" -> 6406
      [] name = "LIMBU LETTER CHA" -> 6407
      [] name = "LIMBU LETTER JA" -> 6408
      [] name = "LIMBU LETTER JHA" -> 6409
      [] name = "LIMBU LETTER YAN" -> 6410
      [] name = "LIMBU LETTER TA" -> 6411
      [] name = "LIMBU LETTER THA" -> 6412
      [] name = "LIMBU LETTER DA" -> 6413
      [] name = "LIMBU LETTER DHA" -> 6414
      [] name = "LIMBU LETTER NA" -> 6415
      [] name = "LIMBU LETTER PA" -> 6416
      [] name = "LIMBU LETTER PHA" -> 6417
      [] name = "LIMBU LETTER BA" -> 6418
      [] name = "LIMBU LETTER BHA" -> 6419
      [] name = "LIMBU LETTER MA" -> 6420
      [] name = "LIMBU LETTER YA" -> 6421
      [] name = "LIMBU LETTER RA" -> 6422
      [] name = "LIMBU LETTER LA" -> 6423
      [] name = "LIMBU LETTER WA" -> 6424
      [] name = "LIMBU LETTER SHA" -> 6425
      [] name = "LIMBU LETTER SSA" -> 6426
      [] name = "LIMBU LETTER SA" -> 6427
      [] name = "LIMBU LETTER HA" -> 6428
      [] name = "LIMBU LETTER GYAN" -> 6429
      [] name = "LIMBU LETTER TRA" -> 6430
      [] name = "LIMBU VOWEL SIGN A" -> 6432
      [] name = "LIMBU VOWEL SIGN I" -> 6433
      [] name = "LIMBU VOWEL SIGN U" -> 6434
      [] name = "LIMBU VOWEL SIGN EE" -> 6435
      [] name = "LIMBU VOWEL SIGN AI" -> 6436
      [] name = "LIMBU VOWEL SIGN OO" -> 6437
      [] name = "LIMBU VOWEL SIGN AU" -> 6438
      [] name = "LIMBU VOWEL SIGN E" -> 6439
      [] name = "LIMBU VOWEL SIGN O" -> 6440
      [] name = "LIMBU SUBJOINED LETTER YA" -> 6441
      [] name = "LIMBU SUBJOINED LETTER RA" -> 6442
      [] name = "LIMBU SUBJOINED LETTER WA" -> 6443
      [] name = "LIMBU SMALL LETTER KA" -> 6448
      [] name = "LIMBU SMALL LETTER NGA" -> 6449
      [] name = "LIMBU SMALL LETTER ANUSVARA" -> 6450
      [] name = "LIMBU SMALL LETTER TA" -> 6451
      [] name = "LIMBU SMALL LETTER NA" -> 6452
      [] name = "LIMBU SMALL LETTER PA" -> 6453
      [] name = "LIMBU SMALL LETTER MA" -> 6454
      [] name = "LIMBU SMALL LETTER RA" -> 6455
      [] name = "LIMBU SMALL LETTER LA" -> 6456
      [] name = "LIMBU SIGN MUKPHRENG" -> 6457
      [] name = "LIMBU SIGN KEMPHRENG" -> 6458
      [] name = "LIMBU SIGN SA-I" -> 6459
      [] name = "LIMBU SIGN LOO" -> 6464
      [] name = "LIMBU EXCLAMATION MARK" -> 6468
      [] name = "LIMBU QUESTION MARK" -> 6469
      [] name = "LIMBU DIGIT ZERO" -> 6470
      [] name = "LIMBU DIGIT ONE" -> 6471
      [] name = "LIMBU DIGIT TWO" -> 6472
      [] name = "LIMBU DIGIT THREE" -> 6473
      [] name = "LIMBU DIGIT FOUR" -> 6474
      [] name = "LIMBU DIGIT FIVE" -> 6475
      [] name = "LIMBU DIGIT SIX" -> 6476
      [] name = "LIMBU DIGIT SEVEN" -> 6477
      [] name = "LIMBU DIGIT EIGHT" -> 6478
      [] name = "LIMBU DIGIT NINE" -> 6479
      [] name = "TAI LE LETTER KA" -> 6480
      [] name = "TAI LE LETTER XA" -> 6481
      [] name = "TAI LE LETTER NGA" -> 6482
      [] name = "TAI LE LETTER TSA" -> 6483
      [] name = "TAI LE LETTER SA" -> 6484
      [] name = "TAI LE LETTER YA" -> 6485
      [] name = "TAI LE LETTER TA" -> 6486
      [] name = "TAI LE LETTER THA" -> 6487
      [] name = "TAI LE LETTER LA" -> 6488
      [] name = "TAI LE LETTER PA" -> 6489
      [] name = "TAI LE LETTER PHA" -> 6490
      [] name = "TAI LE LETTER MA" -> 6491
      [] name = "TAI LE LETTER FA" -> 6492
      [] name = "TAI LE LETTER VA" -> 6493
      [] name = "TAI LE LETTER HA" -> 6494
      [] name = "TAI LE LETTER QA" -> 6495
      [] name = "TAI LE LETTER KHA" -> 6496
      [] name = "TAI LE LETTER TSHA" -> 6497
      [] name = "TAI LE LETTER NA" -> 6498
      [] name = "TAI LE LETTER A" -> 6499
      [] name = "TAI LE LETTER I" -> 6500
      [] name = "TAI LE LETTER EE" -> 6501
      [] name = "TAI LE LETTER EH" -> 6502
      [] name = "TAI LE LETTER U" -> 6503
      [] name = "TAI LE LETTER OO" -> 6504
      [] name = "TAI LE LETTER O" -> 6505
      [] name = "TAI LE LETTER UE" -> 6506
      [] name = "TAI LE LETTER E" -> 6507
      [] name = "TAI LE LETTER AUE" -> 6508
      [] name = "TAI LE LETTER AI" -> 6509
      [] name = "TAI LE LETTER TONE-2" -> 6512
      [] name = "TAI LE LETTER TONE-3" -> 6513
      [] name = "TAI LE LETTER TONE-4" -> 6514
      [] name = "TAI LE LETTER TONE-5" -> 6515
      [] name = "TAI LE LETTER TONE-6" -> 6516
      [] name = "NEW TAI LUE LETTER HIGH QA" -> 6528
      [] name = "NEW TAI LUE LETTER LOW QA" -> 6529
      [] name = "NEW TAI LUE LETTER HIGH KA" -> 6530
      [] name = "NEW TAI LUE LETTER HIGH XA" -> 6531
      [] name = "NEW TAI LUE LETTER HIGH NGA" -> 6532
      [] name = "NEW TAI LUE LETTER LOW KA" -> 6533
      [] name = "NEW TAI LUE LETTER LOW XA" -> 6534
      [] name = "NEW TAI LUE LETTER LOW NGA" -> 6535
      [] name = "NEW TAI LUE LETTER HIGH TSA" -> 6536
      [] name = "NEW TAI LUE LETTER HIGH SA" -> 6537
      [] name = "NEW TAI LUE LETTER HIGH YA" -> 6538
      [] name = "NEW TAI LUE LETTER LOW TSA" -> 6539
      [] name = "NEW TAI LUE LETTER LOW SA" -> 6540
      [] name = "NEW TAI LUE LETTER LOW YA" -> 6541
      [] name = "NEW TAI LUE LETTER HIGH TA" -> 6542
      [] name = "NEW TAI LUE LETTER HIGH THA" -> 6543
      [] name = "NEW TAI LUE LETTER HIGH NA" -> 6544
      [] name = "NEW TAI LUE LETTER LOW TA" -> 6545
      [] name = "NEW TAI LUE LETTER LOW THA" -> 6546
      [] name = "NEW TAI LUE LETTER LOW NA" -> 6547
      [] name = "NEW TAI LUE LETTER HIGH PA" -> 6548
      [] name = "NEW TAI LUE LETTER HIGH PHA" -> 6549
      [] name = "NEW TAI LUE LETTER HIGH MA" -> 6550
      [] name = "NEW TAI LUE LETTER LOW PA" -> 6551
      [] name = "NEW TAI LUE LETTER LOW PHA" -> 6552
      [] name = "NEW TAI LUE LETTER LOW MA" -> 6553
      [] name = "NEW TAI LUE LETTER HIGH FA" -> 6554
      [] name = "NEW TAI LUE LETTER HIGH VA" -> 6555
      [] name = "NEW TAI LUE LETTER HIGH LA" -> 6556
      [] name = "NEW TAI LUE LETTER LOW FA" -> 6557
      [] name = "NEW TAI LUE LETTER LOW VA" -> 6558
      [] name = "NEW TAI LUE LETTER LOW LA" -> 6559
      [] name = "NEW TAI LUE LETTER HIGH HA" -> 6560
      [] name = "NEW TAI LUE LETTER HIGH DA" -> 6561
      [] name = "NEW TAI LUE LETTER HIGH BA" -> 6562
      [] name = "NEW TAI LUE LETTER LOW HA" -> 6563
      [] name = "NEW TAI LUE LETTER LOW DA" -> 6564
      [] name = "NEW TAI LUE LETTER LOW BA" -> 6565
      [] name = "NEW TAI LUE LETTER HIGH KVA" -> 6566
      [] name = "NEW TAI LUE LETTER HIGH XVA" -> 6567
      [] name = "NEW TAI LUE LETTER LOW KVA" -> 6568
      [] name = "NEW TAI LUE LETTER LOW XVA" -> 6569
      [] name = "NEW TAI LUE LETTER HIGH SUA" -> 6570
      [] name = "NEW TAI LUE LETTER LOW SUA" -> 6571
      [] name = "NEW TAI LUE VOWEL SIGN VOWEL SHORTENER" -> 6576
      [] name = "NEW TAI LUE VOWEL SIGN AA" -> 6577
      [] name = "NEW TAI LUE VOWEL SIGN II" -> 6578
      [] name = "NEW TAI LUE VOWEL SIGN U" -> 6579
      [] name = "NEW TAI LUE VOWEL SIGN UU" -> 6580
      [] name = "NEW TAI LUE VOWEL SIGN E" -> 6581
      [] name = "NEW TAI LUE VOWEL SIGN AE" -> 6582
      [] name = "NEW TAI LUE VOWEL SIGN O" -> 6583
      [] name = "NEW TAI LUE VOWEL SIGN OA" -> 6584
      [] name = "NEW TAI LUE VOWEL SIGN UE" -> 6585
      [] name = "NEW TAI LUE VOWEL SIGN AY" -> 6586
      [] name = "NEW TAI LUE VOWEL SIGN AAY" -> 6587
      [] name = "NEW TAI LUE VOWEL SIGN UY" -> 6588
      [] name = "NEW TAI LUE VOWEL SIGN OY" -> 6589
      [] name = "NEW TAI LUE VOWEL SIGN OAY" -> 6590
      [] name = "NEW TAI LUE VOWEL SIGN UEY" -> 6591
      [] name = "NEW TAI LUE VOWEL SIGN IY" -> 6592
      [] name = "NEW TAI LUE LETTER FINAL V" -> 6593
      [] name = "NEW TAI LUE LETTER FINAL NG" -> 6594
      [] name = "NEW TAI LUE LETTER FINAL N" -> 6595
      [] name = "NEW TAI LUE LETTER FINAL M" -> 6596
      [] name = "NEW TAI LUE LETTER FINAL K" -> 6597
      [] name = "NEW TAI LUE LETTER FINAL D" -> 6598
      [] name = "NEW TAI LUE LETTER FINAL B" -> 6599
      [] name = "NEW TAI LUE TONE MARK-1" -> 6600
      [] name = "NEW TAI LUE TONE MARK-2" -> 6601
      [] name = "NEW TAI LUE DIGIT ZERO" -> 6608
      [] name = "NEW TAI LUE DIGIT ONE" -> 6609
      [] name = "NEW TAI LUE DIGIT TWO" -> 6610
      [] name = "NEW TAI LUE DIGIT THREE" -> 6611
      [] name = "NEW TAI LUE DIGIT FOUR" -> 6612
      [] name = "NEW TAI LUE DIGIT FIVE" -> 6613
      [] name = "NEW TAI LUE DIGIT SIX" -> 6614
      [] name = "NEW TAI LUE DIGIT SEVEN" -> 6615
      [] name = "NEW TAI LUE DIGIT EIGHT" -> 6616
      [] name = "NEW TAI LUE DIGIT NINE" -> 6617
      [] name = "NEW TAI LUE THAM DIGIT ONE" -> 6618
      [] name = "NEW TAI LUE SIGN LAE" -> 6622
      [] name = "NEW TAI LUE SIGN LAEV" -> 6623
      [] name = "KHMER SYMBOL PATHAMASAT" -> 6624
      [] name = "KHMER SYMBOL MUOY KOET" -> 6625
      [] name = "KHMER SYMBOL PII KOET" -> 6626
      [] name = "KHMER SYMBOL BEI KOET" -> 6627
      [] name = "KHMER SYMBOL BUON KOET" -> 6628
      [] name = "KHMER SYMBOL PRAM KOET" -> 6629
      [] name = "KHMER SYMBOL PRAM-MUOY KOET" -> 6630
      [] name = "KHMER SYMBOL PRAM-PII KOET" -> 6631
      [] name = "KHMER SYMBOL PRAM-BEI KOET" -> 6632
      [] name = "KHMER SYMBOL PRAM-BUON KOET" -> 6633
      [] name = "KHMER SYMBOL DAP KOET" -> 6634
      [] name = "KHMER SYMBOL DAP-MUOY KOET" -> 6635
      [] name = "KHMER SYMBOL DAP-PII KOET" -> 6636
      [] name = "KHMER SYMBOL DAP-BEI KOET" -> 6637
      [] name = "KHMER SYMBOL DAP-BUON KOET" -> 6638
      [] name = "KHMER SYMBOL DAP-PRAM KOET" -> 6639
      [] name = "KHMER SYMBOL TUTEYASAT" -> 6640
      [] name = "KHMER SYMBOL MUOY ROC" -> 6641
      [] name = "KHMER SYMBOL PII ROC" -> 6642
      [] name = "KHMER SYMBOL BEI ROC" -> 6643
      [] name = "KHMER SYMBOL BUON ROC" -> 6644
      [] name = "KHMER SYMBOL PRAM ROC" -> 6645
      [] name = "KHMER SYMBOL PRAM-MUOY ROC" -> 6646
      [] name = "KHMER SYMBOL PRAM-PII ROC" -> 6647
      [] name = "KHMER SYMBOL PRAM-BEI ROC" -> 6648
      [] name = "KHMER SYMBOL PRAM-BUON ROC" -> 6649
      [] name = "KHMER SYMBOL DAP ROC" -> 6650
      [] name = "KHMER SYMBOL DAP-MUOY ROC" -> 6651
      [] name = "KHMER SYMBOL DAP-PII ROC" -> 6652
      [] name = "KHMER SYMBOL DAP-BEI ROC" -> 6653
      [] name = "KHMER SYMBOL DAP-BUON ROC" -> 6654
      [] name = "KHMER SYMBOL DAP-PRAM ROC" -> 6655
      [] name = "BUGINESE LETTER KA" -> 6656
      [] name = "BUGINESE LETTER GA" -> 6657
      [] name = "BUGINESE LETTER NGA" -> 6658
      [] name = "BUGINESE LETTER NGKA" -> 6659
      [] name = "BUGINESE LETTER PA" -> 6660
      [] name = "BUGINESE LETTER BA" -> 6661
      [] name = "BUGINESE LETTER MA" -> 6662
      [] name = "BUGINESE LETTER MPA" -> 6663
      [] name = "BUGINESE LETTER TA" -> 6664
      [] name = "BUGINESE LETTER DA" -> 6665
      [] name = "BUGINESE LETTER NA" -> 6666
      [] name = "BUGINESE LETTER NRA" -> 6667
      [] name = "BUGINESE LETTER CA" -> 6668
      [] name = "BUGINESE LETTER JA" -> 6669
      [] name = "BUGINESE LETTER NYA" -> 6670
      [] name = "BUGINESE LETTER NYCA" -> 6671
      [] name = "BUGINESE LETTER YA" -> 6672
      [] name = "BUGINESE LETTER RA" -> 6673
      [] name = "BUGINESE LETTER LA" -> 6674
      [] name = "BUGINESE LETTER VA" -> 6675
      [] name = "BUGINESE LETTER SA" -> 6676
      [] name = "BUGINESE LETTER A" -> 6677
      [] name = "BUGINESE LETTER HA" -> 6678
      [] name = "BUGINESE VOWEL SIGN I" -> 6679
      [] name = "BUGINESE VOWEL SIGN U" -> 6680
      [] name = "BUGINESE VOWEL SIGN E" -> 6681
      [] name = "BUGINESE VOWEL SIGN O" -> 6682
      [] name = "BUGINESE VOWEL SIGN AE" -> 6683
      [] name = "BUGINESE PALLAWA" -> 6686
      [] name = "BUGINESE END OF SECTION" -> 6687
      [] name = "TAI THAM LETTER HIGH KA" -> 6688
      [] name = "TAI THAM LETTER HIGH KHA" -> 6689
      [] name = "TAI THAM LETTER HIGH KXA" -> 6690
      [] name = "TAI THAM LETTER LOW KA" -> 6691
      [] name = "TAI THAM LETTER LOW KXA" -> 6692
      [] name = "TAI THAM LETTER LOW KHA" -> 6693
      [] name = "TAI THAM LETTER NGA" -> 6694
      [] name = "TAI THAM LETTER HIGH CA" -> 6695
      [] name = "TAI THAM LETTER HIGH CHA" -> 6696
      [] name = "TAI THAM LETTER LOW CA" -> 6697
      [] name = "TAI THAM LETTER LOW SA" -> 6698
      [] name = "TAI THAM LETTER LOW CHA" -> 6699
      [] name = "TAI THAM LETTER NYA" -> 6700
      [] name = "TAI THAM LETTER RATA" -> 6701
      [] name = "TAI THAM LETTER HIGH RATHA" -> 6702
      [] name = "TAI THAM LETTER DA" -> 6703
      [] name = "TAI THAM LETTER LOW RATHA" -> 6704
      [] name = "TAI THAM LETTER RANA" -> 6705
      [] name = "TAI THAM LETTER HIGH TA" -> 6706
      [] name = "TAI THAM LETTER HIGH THA" -> 6707
      [] name = "TAI THAM LETTER LOW TA" -> 6708
      [] name = "TAI THAM LETTER LOW THA" -> 6709
      [] name = "TAI THAM LETTER NA" -> 6710
      [] name = "TAI THAM LETTER BA" -> 6711
      [] name = "TAI THAM LETTER HIGH PA" -> 6712
      [] name = "TAI THAM LETTER HIGH PHA" -> 6713
      [] name = "TAI THAM LETTER HIGH FA" -> 6714
      [] name = "TAI THAM LETTER LOW PA" -> 6715
      [] name = "TAI THAM LETTER LOW FA" -> 6716
      [] name = "TAI THAM LETTER LOW PHA" -> 6717
      [] name = "TAI THAM LETTER MA" -> 6718
      [] name = "TAI THAM LETTER LOW YA" -> 6719
      [] name = "TAI THAM LETTER HIGH YA" -> 6720
      [] name = "TAI THAM LETTER RA" -> 6721
      [] name = "TAI THAM LETTER RUE" -> 6722
      [] name = "TAI THAM LETTER LA" -> 6723
      [] name = "TAI THAM LETTER LUE" -> 6724
      [] name = "TAI THAM LETTER WA" -> 6725
      [] name = "TAI THAM LETTER HIGH SHA" -> 6726
      [] name = "TAI THAM LETTER HIGH SSA" -> 6727
      [] name = "TAI THAM LETTER HIGH SA" -> 6728
      [] name = "TAI THAM LETTER HIGH HA" -> 6729
      [] name = "TAI THAM LETTER LLA" -> 6730
      [] name = "TAI THAM LETTER A" -> 6731
      [] name = "TAI THAM LETTER LOW HA" -> 6732
      [] name = "TAI THAM LETTER I" -> 6733
      [] name = "TAI THAM LETTER II" -> 6734
      [] name = "TAI THAM LETTER U" -> 6735
      [] name = "TAI THAM LETTER UU" -> 6736
      [] name = "TAI THAM LETTER EE" -> 6737
      [] name = "TAI THAM LETTER OO" -> 6738
      [] name = "TAI THAM LETTER LAE" -> 6739
      [] name = "TAI THAM LETTER GREAT SA" -> 6740
      [] name = "TAI THAM CONSONANT SIGN MEDIAL RA" -> 6741
      [] name = "TAI THAM CONSONANT SIGN MEDIAL LA" -> 6742
      [] name = "TAI THAM CONSONANT SIGN LA TANG LAI" -> 6743
      [] name = "TAI THAM SIGN MAI KANG LAI" -> 6744
      [] name = "TAI THAM CONSONANT SIGN FINAL NGA" -> 6745
      [] name = "TAI THAM CONSONANT SIGN LOW PA" -> 6746
      [] name = "TAI THAM CONSONANT SIGN HIGH RATHA OR LOW PA" -> 6747
      [] name = "TAI THAM CONSONANT SIGN MA" -> 6748
      [] name = "TAI THAM CONSONANT SIGN BA" -> 6749
      [] name = "TAI THAM CONSONANT SIGN SA" -> 6750
      [] name = "TAI THAM SIGN SAKOT" -> 6752
      [] name = "TAI THAM VOWEL SIGN A" -> 6753
      [] name = "TAI THAM VOWEL SIGN MAI SAT" -> 6754
      [] name = "TAI THAM VOWEL SIGN AA" -> 6755
      [] name = "TAI THAM VOWEL SIGN TALL AA" -> 6756
      [] name = "TAI THAM VOWEL SIGN I" -> 6757
      [] name = "TAI THAM VOWEL SIGN II" -> 6758
      [] name = "TAI THAM VOWEL SIGN UE" -> 6759
      [] name = "TAI THAM VOWEL SIGN UUE" -> 6760
      [] name = "TAI THAM VOWEL SIGN U" -> 6761
      [] name = "TAI THAM VOWEL SIGN UU" -> 6762
      [] name = "TAI THAM VOWEL SIGN O" -> 6763
      [] name = "TAI THAM VOWEL SIGN OA BELOW" -> 6764
      [] name = "TAI THAM VOWEL SIGN OY" -> 6765
      [] name = "TAI THAM VOWEL SIGN E" -> 6766
      [] name = "TAI THAM VOWEL SIGN AE" -> 6767
      [] name = "TAI THAM VOWEL SIGN OO" -> 6768
      [] name = "TAI THAM VOWEL SIGN AI" -> 6769
      [] name = "TAI THAM VOWEL SIGN THAM AI" -> 6770
      [] name = "TAI THAM VOWEL SIGN OA ABOVE" -> 6771
      [] name = "TAI THAM SIGN MAI KANG" -> 6772
      [] name = "TAI THAM SIGN TONE-1" -> 6773
      [] name = "TAI THAM SIGN TONE-2" -> 6774
      [] name = "TAI THAM SIGN KHUEN TONE-3" -> 6775
      [] name = "TAI THAM SIGN KHUEN TONE-4" -> 6776
      [] name = "TAI THAM SIGN KHUEN TONE-5" -> 6777
      [] name = "TAI THAM SIGN RA HAAM" -> 6778
      [] name = "TAI THAM SIGN MAI SAM" -> 6779
      [] name = "TAI THAM SIGN KHUEN-LUE KARAN" -> 6780
      [] name = "TAI THAM COMBINING CRYPTOGRAMMIC DOT" -> 6783
      [] name = "TAI THAM HORA DIGIT ZERO" -> 6784
      [] name = "TAI THAM HORA DIGIT ONE" -> 6785
      [] name = "TAI THAM HORA DIGIT TWO" -> 6786
      [] name = "TAI THAM HORA DIGIT THREE" -> 6787
      [] name = "TAI THAM HORA DIGIT FOUR" -> 6788
      [] name = "TAI THAM HORA DIGIT FIVE" -> 6789
      [] name = "TAI THAM HORA DIGIT SIX" -> 6790
      [] name = "TAI THAM HORA DIGIT SEVEN" -> 6791
      [] name = "TAI THAM HORA DIGIT EIGHT" -> 6792
      [] name = "TAI THAM HORA DIGIT NINE" -> 6793
      [] name = "TAI THAM THAM DIGIT ZERO" -> 6800
      [] name = "TAI THAM THAM DIGIT ONE" -> 6801
      [] name = "TAI THAM THAM DIGIT TWO" -> 6802
      [] name = "TAI THAM THAM DIGIT THREE" -> 6803
      [] name = "TAI THAM THAM DIGIT FOUR" -> 6804
      [] name = "TAI THAM THAM DIGIT FIVE" -> 6805
      [] name = "TAI THAM THAM DIGIT SIX" -> 6806
      [] name = "TAI THAM THAM DIGIT SEVEN" -> 6807
      [] name = "TAI THAM THAM DIGIT EIGHT" -> 6808
      [] name = "TAI THAM THAM DIGIT NINE" -> 6809
      [] name = "TAI THAM SIGN WIANG" -> 6816
      [] name = "TAI THAM SIGN WIANGWAAK" -> 6817
      [] name = "TAI THAM SIGN SAWAN" -> 6818
      [] name = "TAI THAM SIGN KEOW" -> 6819
      [] name = "TAI THAM SIGN HOY" -> 6820
      [] name = "TAI THAM SIGN DOKMAI" -> 6821
      [] name = "TAI THAM SIGN REVERSED ROTATED RANA" -> 6822
      [] name = "TAI THAM SIGN MAI YAMOK" -> 6823
      [] name = "TAI THAM SIGN KAAN" -> 6824
      [] name = "TAI THAM SIGN KAANKUU" -> 6825
      [] name = "TAI THAM SIGN SATKAAN" -> 6826
      [] name = "TAI THAM SIGN SATKAANKUU" -> 6827
      [] name = "TAI THAM SIGN HANG" -> 6828
      [] name = "TAI THAM SIGN CAANG" -> 6829
      [] name = "COMBINING DOUBLED CIRCUMFLEX ACCENT" -> 6832
      [] name = "COMBINING DIAERESIS-RING" -> 6833
      [] name = "COMBINING INFINITY" -> 6834
      [] name = "COMBINING DOWNWARDS ARROW" -> 6835
      [] name = "COMBINING TRIPLE DOT" -> 6836
      [] name = "COMBINING X-X BELOW" -> 6837
      [] name = "COMBINING WIGGLY LINE BELOW" -> 6838
      [] name = "COMBINING OPEN MARK BELOW" -> 6839
      [] name = "COMBINING DOUBLE OPEN MARK BELOW" -> 6840
      [] name = "COMBINING LIGHT CENTRALIZATION STROKE BELOW" -> 6841
      [] name = "COMBINING STRONG CENTRALIZATION STROKE BELOW" -> 6842
      [] name = "COMBINING PARENTHESES ABOVE" -> 6843
      [] name = "COMBINING DOUBLE PARENTHESES ABOVE" -> 6844
      [] name = "COMBINING PARENTHESES BELOW" -> 6845
      [] name = "COMBINING PARENTHESES OVERLAY" -> 6846
      [] name = "COMBINING LATIN SMALL LETTER W BELOW" -> 6847
      [] name = "COMBINING LATIN SMALL LETTER TURNED W BELOW" -> 6848
      [] name = "COMBINING LEFT PARENTHESIS ABOVE LEFT" -> 6849
      [] name = "COMBINING RIGHT PARENTHESIS ABOVE RIGHT" -> 6850
      [] name = "COMBINING LEFT PARENTHESIS BELOW LEFT" -> 6851
      [] name = "COMBINING RIGHT PARENTHESIS BELOW RIGHT" -> 6852
      [] name = "COMBINING SQUARE BRACKETS ABOVE" -> 6853
      [] name = "COMBINING NUMBER SIGN ABOVE" -> 6854
      [] name = "COMBINING INVERTED DOUBLE ARCH ABOVE" -> 6855
      [] name = "COMBINING PLUS SIGN ABOVE" -> 6856
      [] name = "COMBINING DOUBLE PLUS SIGN ABOVE" -> 6857
      [] name = "COMBINING DOUBLE PLUS SIGN BELOW" -> 6858
      [] name = "COMBINING TRIPLE ACUTE ACCENT" -> 6859
      [] name = "COMBINING LATIN SMALL LETTER INSULAR G" -> 6860
      [] name = "COMBINING LATIN SMALL LETTER INSULAR R" -> 6861
      [] name = "COMBINING LATIN SMALL LETTER INSULAR T" -> 6862
      [] name = "BALINESE SIGN ULU RICEM" -> 6912
      [] name = "BALINESE SIGN ULU CANDRA" -> 6913
      [] name = "BALINESE SIGN CECEK" -> 6914
      [] name = "BALINESE SIGN SURANG" -> 6915
      [] name = "BALINESE SIGN BISAH" -> 6916
      [] name = "BALINESE LETTER AKARA" -> 6917
      [] name = "BALINESE LETTER AKARA TEDUNG" -> 6918
      [] name = "BALINESE LETTER IKARA" -> 6919
      [] name = "BALINESE LETTER IKARA TEDUNG" -> 6920
      [] name = "BALINESE LETTER UKARA" -> 6921
      [] name = "BALINESE LETTER UKARA TEDUNG" -> 6922
      [] name = "BALINESE LETTER RA REPA" -> 6923
      [] name = "BALINESE LETTER RA REPA TEDUNG" -> 6924
      [] name = "BALINESE LETTER LA LENGA" -> 6925
      [] name = "BALINESE LETTER LA LENGA TEDUNG" -> 6926
      [] name = "BALINESE LETTER EKARA" -> 6927
      [] name = "BALINESE LETTER AIKARA" -> 6928
      [] name = "BALINESE LETTER OKARA" -> 6929
      [] name = "BALINESE LETTER OKARA TEDUNG" -> 6930
      [] name = "BALINESE LETTER KA" -> 6931
      [] name = "BALINESE LETTER KA MAHAPRANA" -> 6932
      [] name = "BALINESE LETTER GA" -> 6933
      [] name = "BALINESE LETTER GA GORA" -> 6934
      [] name = "BALINESE LETTER NGA" -> 6935
      [] name = "BALINESE LETTER CA" -> 6936
      [] name = "BALINESE LETTER CA LACA" -> 6937
      [] name = "BALINESE LETTER JA" -> 6938
      [] name = "BALINESE LETTER JA JERA" -> 6939
      [] name = "BALINESE LETTER NYA" -> 6940
      [] name = "BALINESE LETTER TA LATIK" -> 6941
      [] name = "BALINESE LETTER TA MURDA MAHAPRANA" -> 6942
      [] name = "BALINESE LETTER DA MURDA ALPAPRANA" -> 6943
      [] name = "BALINESE LETTER DA MURDA MAHAPRANA" -> 6944
      [] name = "BALINESE LETTER NA RAMBAT" -> 6945
      [] name = "BALINESE LETTER TA" -> 6946
      [] name = "BALINESE LETTER TA TAWA" -> 6947
      [] name = "BALINESE LETTER DA" -> 6948
      [] name = "BALINESE LETTER DA MADU" -> 6949
      [] name = "BALINESE LETTER NA" -> 6950
      [] name = "BALINESE LETTER PA" -> 6951
      [] name = "BALINESE LETTER PA KAPAL" -> 6952
      [] name = "BALINESE LETTER BA" -> 6953
      [] name = "BALINESE LETTER BA KEMBANG" -> 6954
      [] name = "BALINESE LETTER MA" -> 6955
      [] name = "BALINESE LETTER YA" -> 6956
      [] name = "BALINESE LETTER RA" -> 6957
      [] name = "BALINESE LETTER LA" -> 6958
      [] name = "BALINESE LETTER WA" -> 6959
      [] name = "BALINESE LETTER SA SAGA" -> 6960
      [] name = "BALINESE LETTER SA SAPA" -> 6961
      [] name = "BALINESE LETTER SA" -> 6962
      [] name = "BALINESE LETTER HA" -> 6963
      [] name = "BALINESE SIGN REREKAN" -> 6964
      [] name = "BALINESE VOWEL SIGN TEDUNG" -> 6965
      [] name = "BALINESE VOWEL SIGN ULU" -> 6966
      [] name = "BALINESE VOWEL SIGN ULU SARI" -> 6967
      [] name = "BALINESE VOWEL SIGN SUKU" -> 6968
      [] name = "BALINESE VOWEL SIGN SUKU ILUT" -> 6969
      [] name = "BALINESE VOWEL SIGN RA REPA" -> 6970
      [] name = "BALINESE VOWEL SIGN RA REPA TEDUNG" -> 6971
      [] name = "BALINESE VOWEL SIGN LA LENGA" -> 6972
      [] name = "BALINESE VOWEL SIGN LA LENGA TEDUNG" -> 6973
      [] name = "BALINESE VOWEL SIGN TALING" -> 6974
      [] name = "BALINESE VOWEL SIGN TALING REPA" -> 6975
      [] name = "BALINESE VOWEL SIGN TALING TEDUNG" -> 6976
      [] name = "BALINESE VOWEL SIGN TALING REPA TEDUNG" -> 6977
      [] name = "BALINESE VOWEL SIGN PEPET" -> 6978
      [] name = "BALINESE VOWEL SIGN PEPET TEDUNG" -> 6979
      [] name = "BALINESE ADEG ADEG" -> 6980
      [] name = "BALINESE LETTER KAF SASAK" -> 6981
      [] name = "BALINESE LETTER KHOT SASAK" -> 6982
      [] name = "BALINESE LETTER TZIR SASAK" -> 6983
      [] name = "BALINESE LETTER EF SASAK" -> 6984
      [] name = "BALINESE LETTER VE SASAK" -> 6985
      [] name = "BALINESE LETTER ZAL SASAK" -> 6986
      [] name = "BALINESE LETTER ASYURA SASAK" -> 6987
      [] name = "BALINESE LETTER ARCHAIC JNYA" -> 6988
      [] name = "BALINESE DIGIT ZERO" -> 6992
      [] name = "BALINESE DIGIT ONE" -> 6993
      [] name = "BALINESE DIGIT TWO" -> 6994
      [] name = "BALINESE DIGIT THREE" -> 6995
      [] name = "BALINESE DIGIT FOUR" -> 6996
      [] name = "BALINESE DIGIT FIVE" -> 6997
      [] name = "BALINESE DIGIT SIX" -> 6998
      [] name = "BALINESE DIGIT SEVEN" -> 6999
      [] name = "BALINESE DIGIT EIGHT" -> 7000
      [] name = "BALINESE DIGIT NINE" -> 7001
      [] name = "BALINESE PANTI" -> 7002
      [] name = "BALINESE PAMADA" -> 7003
      [] name = "BALINESE WINDU" -> 7004
      [] name = "BALINESE CARIK PAMUNGKAH" -> 7005
      [] name = "BALINESE CARIK SIKI" -> 7006
      [] name = "BALINESE CARIK PAREREN" -> 7007
      [] name = "BALINESE PAMENENG" -> 7008
      [] name = "BALINESE MUSICAL SYMBOL DONG" -> 7009
      [] name = "BALINESE MUSICAL SYMBOL DENG" -> 7010
      [] name = "BALINESE MUSICAL SYMBOL DUNG" -> 7011
      [] name = "BALINESE MUSICAL SYMBOL DANG" -> 7012
      [] name = "BALINESE MUSICAL SYMBOL DANG SURANG" -> 7013
      [] name = "BALINESE MUSICAL SYMBOL DING" -> 7014
      [] name = "BALINESE MUSICAL SYMBOL DAENG" -> 7015
      [] name = "BALINESE MUSICAL SYMBOL DEUNG" -> 7016
      [] name = "BALINESE MUSICAL SYMBOL DAING" -> 7017
      [] name = "BALINESE MUSICAL SYMBOL DANG GEDE" -> 7018
      [] name = "BALINESE MUSICAL SYMBOL COMBINING TEGEH" -> 7019
      [] name = "BALINESE MUSICAL SYMBOL COMBINING ENDEP" -> 7020
      [] name = "BALINESE MUSICAL SYMBOL COMBINING KEMPUL" -> 7021
      [] name = "BALINESE MUSICAL SYMBOL COMBINING KEMPLI" -> 7022
      [] name = "BALINESE MUSICAL SYMBOL COMBINING JEGOGAN" -> 7023
      [] name = "BALINESE MUSICAL SYMBOL COMBINING KEMPUL WITH JEGOGAN" -> 7024
      [] name = "BALINESE MUSICAL SYMBOL COMBINING KEMPLI WITH JEGOGAN" -> 7025
      [] name = "BALINESE MUSICAL SYMBOL COMBINING BENDE" -> 7026
      [] name = "BALINESE MUSICAL SYMBOL COMBINING GONG" -> 7027
      [] name = "BALINESE MUSICAL SYMBOL RIGHT-HAND OPEN DUG" -> 7028
      [] name = "BALINESE MUSICAL SYMBOL RIGHT-HAND OPEN DAG" -> 7029
      [] name = "BALINESE MUSICAL SYMBOL RIGHT-HAND CLOSED TUK" -> 7030
      [] name = "BALINESE MUSICAL SYMBOL RIGHT-HAND CLOSED TAK" -> 7031
      [] name = "BALINESE MUSICAL SYMBOL LEFT-HAND OPEN PANG" -> 7032
      [] name = "BALINESE MUSICAL SYMBOL LEFT-HAND OPEN PUNG" -> 7033
      [] name = "BALINESE MUSICAL SYMBOL LEFT-HAND CLOSED PLAK" -> 7034
      [] name = "BALINESE MUSICAL SYMBOL LEFT-HAND CLOSED PLUK" -> 7035
      [] name = "BALINESE MUSICAL SYMBOL LEFT-HAND OPEN PING" -> 7036
      [] name = "BALINESE PANTI LANTANG" -> 7037
      [] name = "BALINESE PAMADA LANTANG" -> 7038
      [] name = "SUNDANESE SIGN PANYECEK" -> 7040
      [] name = "SUNDANESE SIGN PANGLAYAR" -> 7041
      [] name = "SUNDANESE SIGN PANGWISAD" -> 7042
      [] name = "SUNDANESE LETTER A" -> 7043
      [] name = "SUNDANESE LETTER I" -> 7044
      [] name = "SUNDANESE LETTER U" -> 7045
      [] name = "SUNDANESE LETTER AE" -> 7046
      [] name = "SUNDANESE LETTER O" -> 7047
      [] name = "SUNDANESE LETTER E" -> 7048
      [] name = "SUNDANESE LETTER EU" -> 7049
      [] name = "SUNDANESE LETTER KA" -> 7050
      [] name = "SUNDANESE LETTER QA" -> 7051
      [] name = "SUNDANESE LETTER GA" -> 7052
      [] name = "SUNDANESE LETTER NGA" -> 7053
      [] name = "SUNDANESE LETTER CA" -> 7054
      [] name = "SUNDANESE LETTER JA" -> 7055
      [] name = "SUNDANESE LETTER ZA" -> 7056
      [] name = "SUNDANESE LETTER NYA" -> 7057
      [] name = "SUNDANESE LETTER TA" -> 7058
      [] name = "SUNDANESE LETTER DA" -> 7059
      [] name = "SUNDANESE LETTER NA" -> 7060
      [] name = "SUNDANESE LETTER PA" -> 7061
      [] name = "SUNDANESE LETTER FA" -> 7062
      [] name = "SUNDANESE LETTER VA" -> 7063
      [] name = "SUNDANESE LETTER BA" -> 7064
      [] name = "SUNDANESE LETTER MA" -> 7065
      [] name = "SUNDANESE LETTER YA" -> 7066
      [] name = "SUNDANESE LETTER RA" -> 7067
      [] name = "SUNDANESE LETTER LA" -> 7068
      [] name = "SUNDANESE LETTER WA" -> 7069
      [] name = "SUNDANESE LETTER SA" -> 7070
      [] name = "SUNDANESE LETTER XA" -> 7071
      [] name = "SUNDANESE LETTER HA" -> 7072
      [] name = "SUNDANESE CONSONANT SIGN PAMINGKAL" -> 7073
      [] name = "SUNDANESE CONSONANT SIGN PANYAKRA" -> 7074
      [] name = "SUNDANESE CONSONANT SIGN PANYIKU" -> 7075
      [] name = "SUNDANESE VOWEL SIGN PANGHULU" -> 7076
      [] name = "SUNDANESE VOWEL SIGN PANYUKU" -> 7077
      [] name = "SUNDANESE VOWEL SIGN PANAELAENG" -> 7078
      [] name = "SUNDANESE VOWEL SIGN PANOLONG" -> 7079
      [] name = "SUNDANESE VOWEL SIGN PAMEPET" -> 7080
      [] name = "SUNDANESE VOWEL SIGN PANEULEUNG" -> 7081
      [] name = "SUNDANESE SIGN PAMAAEH" -> 7082
      [] name = "SUNDANESE SIGN VIRAMA" -> 7083
      [] name = "SUNDANESE CONSONANT SIGN PASANGAN MA" -> 7084
      [] name = "SUNDANESE CONSONANT SIGN PASANGAN WA" -> 7085
      [] name = "SUNDANESE LETTER KHA" -> 7086
      [] name = "SUNDANESE LETTER SYA" -> 7087
      [] name = "SUNDANESE DIGIT ZERO" -> 7088
      [] name = "SUNDANESE DIGIT ONE" -> 7089
      [] name = "SUNDANESE DIGIT TWO" -> 7090
      [] name = "SUNDANESE DIGIT THREE" -> 7091
      [] name = "SUNDANESE DIGIT FOUR" -> 7092
      [] name = "SUNDANESE DIGIT FIVE" -> 7093
      [] name = "SUNDANESE DIGIT SIX" -> 7094
      [] name = "SUNDANESE DIGIT SEVEN" -> 7095
      [] name = "SUNDANESE DIGIT EIGHT" -> 7096
      [] name = "SUNDANESE DIGIT NINE" -> 7097
      [] name = "SUNDANESE AVAGRAHA" -> 7098
      [] name = "SUNDANESE LETTER REU" -> 7099
      [] name = "SUNDANESE LETTER LEU" -> 7100
      [] name = "SUNDANESE LETTER BHA" -> 7101
      [] name = "SUNDANESE LETTER FINAL K" -> 7102
      [] name = "SUNDANESE LETTER FINAL M" -> 7103
      [] name = "BATAK LETTER A" -> 7104
      [] name = "BATAK LETTER SIMALUNGUN A" -> 7105
      [] name = "BATAK LETTER HA" -> 7106
      [] name = "BATAK LETTER SIMALUNGUN HA" -> 7107
      [] name = "BATAK LETTER MANDAILING HA" -> 7108
      [] name = "BATAK LETTER BA" -> 7109
      [] name = "BATAK LETTER KARO BA" -> 7110
      [] name = "BATAK LETTER PA" -> 7111
      [] name = "BATAK LETTER SIMALUNGUN PA" -> 7112
      [] name = "BATAK LETTER NA" -> 7113
      [] name = "BATAK LETTER MANDAILING NA" -> 7114
      [] name = "BATAK LETTER WA" -> 7115
      [] name = "BATAK LETTER SIMALUNGUN WA" -> 7116
      [] name = "BATAK LETTER PAKPAK WA" -> 7117
      [] name = "BATAK LETTER GA" -> 7118
      [] name = "BATAK LETTER SIMALUNGUN GA" -> 7119
      [] name = "BATAK LETTER JA" -> 7120
      [] name = "BATAK LETTER DA" -> 7121
      [] name = "BATAK LETTER RA" -> 7122
      [] name = "BATAK LETTER SIMALUNGUN RA" -> 7123
      [] name = "BATAK LETTER MA" -> 7124
      [] name = "BATAK LETTER SIMALUNGUN MA" -> 7125
      [] name = "BATAK LETTER SOUTHERN TA" -> 7126
      [] name = "BATAK LETTER NORTHERN TA" -> 7127
      [] name = "BATAK LETTER SA" -> 7128
      [] name = "BATAK LETTER SIMALUNGUN SA" -> 7129
      [] name = "BATAK LETTER MANDAILING SA" -> 7130
      [] name = "BATAK LETTER YA" -> 7131
      [] name = "BATAK LETTER SIMALUNGUN YA" -> 7132
      [] name = "BATAK LETTER NGA" -> 7133
      [] name = "BATAK LETTER LA" -> 7134
      [] name = "BATAK LETTER SIMALUNGUN LA" -> 7135
      [] name = "BATAK LETTER NYA" -> 7136
      [] name = "BATAK LETTER CA" -> 7137
      [] name = "BATAK LETTER NDA" -> 7138
      [] name = "BATAK LETTER MBA" -> 7139
      [] name = "BATAK LETTER I" -> 7140
      [] name = "BATAK LETTER U" -> 7141
      [] name = "BATAK SIGN TOMPI" -> 7142
      [] name = "BATAK VOWEL SIGN E" -> 7143
      [] name = "BATAK VOWEL SIGN PAKPAK E" -> 7144
      [] name = "BATAK VOWEL SIGN EE" -> 7145
      [] name = "BATAK VOWEL SIGN I" -> 7146
      [] name = "BATAK VOWEL SIGN KARO I" -> 7147
      [] name = "BATAK VOWEL SIGN O" -> 7148
      [] name = "BATAK VOWEL SIGN KARO O" -> 7149
      [] name = "BATAK VOWEL SIGN U" -> 7150
      [] name = "BATAK VOWEL SIGN U FOR SIMALUNGUN SA" -> 7151
      [] name = "BATAK CONSONANT SIGN NG" -> 7152
      [] name = "BATAK CONSONANT SIGN H" -> 7153
      [] name = "BATAK PANGOLAT" -> 7154
      [] name = "BATAK PANONGONAN" -> 7155
      [] name = "BATAK SYMBOL BINDU NA METEK" -> 7164
      [] name = "BATAK SYMBOL BINDU PINARBORAS" -> 7165
      [] name = "BATAK SYMBOL BINDU JUDUL" -> 7166
      [] name = "BATAK SYMBOL BINDU PANGOLAT" -> 7167
      [] name = "LEPCHA LETTER KA" -> 7168
      [] name = "LEPCHA LETTER KLA" -> 7169
      [] name = "LEPCHA LETTER KHA" -> 7170
      [] name = "LEPCHA LETTER GA" -> 7171
      [] name = "LEPCHA LETTER GLA" -> 7172
      [] name = "LEPCHA LETTER NGA" -> 7173
      [] name = "LEPCHA LETTER CA" -> 7174
      [] name = "LEPCHA LETTER CHA" -> 7175
      [] name = "LEPCHA LETTER JA" -> 7176
      [] name = "LEPCHA LETTER NYA" -> 7177
      [] name = "LEPCHA LETTER TA" -> 7178
      [] name = "LEPCHA LETTER THA" -> 7179
      [] name = "LEPCHA LETTER DA" -> 7180
      [] name = "LEPCHA LETTER NA" -> 7181
      [] name = "LEPCHA LETTER PA" -> 7182
      [] name = "LEPCHA LETTER PLA" -> 7183
      [] name = "LEPCHA LETTER PHA" -> 7184
      [] name = "LEPCHA LETTER FA" -> 7185
      [] name = "LEPCHA LETTER FLA" -> 7186
      [] name = "LEPCHA LETTER BA" -> 7187
      [] name = "LEPCHA LETTER BLA" -> 7188
      [] name = "LEPCHA LETTER MA" -> 7189
      [] name = "LEPCHA LETTER MLA" -> 7190
      [] name = "LEPCHA LETTER TSA" -> 7191
      [] name = "LEPCHA LETTER TSHA" -> 7192
      [] name = "LEPCHA LETTER DZA" -> 7193
      [] name = "LEPCHA LETTER YA" -> 7194
      [] name = "LEPCHA LETTER RA" -> 7195
      [] name = "LEPCHA LETTER LA" -> 7196
      [] name = "LEPCHA LETTER HA" -> 7197
      [] name = "LEPCHA LETTER HLA" -> 7198
      [] name = "LEPCHA LETTER VA" -> 7199
      [] name = "LEPCHA LETTER SA" -> 7200
      [] name = "LEPCHA LETTER SHA" -> 7201
      [] name = "LEPCHA LETTER WA" -> 7202
      [] name = "LEPCHA LETTER A" -> 7203
      [] name = "LEPCHA SUBJOINED LETTER YA" -> 7204
      [] name = "LEPCHA SUBJOINED LETTER RA" -> 7205
      [] name = "LEPCHA VOWEL SIGN AA" -> 7206
      [] name = "LEPCHA VOWEL SIGN I" -> 7207
      [] name = "LEPCHA VOWEL SIGN O" -> 7208
      [] name = "LEPCHA VOWEL SIGN OO" -> 7209
      [] name = "LEPCHA VOWEL SIGN U" -> 7210
      [] name = "LEPCHA VOWEL SIGN UU" -> 7211
      [] name = "LEPCHA VOWEL SIGN E" -> 7212
      [] name = "LEPCHA CONSONANT SIGN K" -> 7213
      [] name = "LEPCHA CONSONANT SIGN M" -> 7214
      [] name = "LEPCHA CONSONANT SIGN L" -> 7215
      [] name = "LEPCHA CONSONANT SIGN N" -> 7216
      [] name = "LEPCHA CONSONANT SIGN P" -> 7217
      [] name = "LEPCHA CONSONANT SIGN R" -> 7218
      [] name = "LEPCHA CONSONANT SIGN T" -> 7219
      [] name = "LEPCHA CONSONANT SIGN NYIN-DO" -> 7220
      [] name = "LEPCHA CONSONANT SIGN KANG" -> 7221
      [] name = "LEPCHA SIGN RAN" -> 7222
      [] name = "LEPCHA SIGN NUKTA" -> 7223
      [] name = "LEPCHA PUNCTUATION TA-ROL" -> 7227
      [] name = "LEPCHA PUNCTUATION NYET THYOOM TA-ROL" -> 7228
      [] name = "LEPCHA PUNCTUATION CER-WA" -> 7229
      [] name = "LEPCHA PUNCTUATION TSHOOK CER-WA" -> 7230
      [] name = "LEPCHA PUNCTUATION TSHOOK" -> 7231
      [] name = "LEPCHA DIGIT ZERO" -> 7232
      [] name = "LEPCHA DIGIT ONE" -> 7233
      [] name = "LEPCHA DIGIT TWO" -> 7234
      [] name = "LEPCHA DIGIT THREE" -> 7235
      [] name = "LEPCHA DIGIT FOUR" -> 7236
      [] name = "LEPCHA DIGIT FIVE" -> 7237
      [] name = "LEPCHA DIGIT SIX" -> 7238
      [] name = "LEPCHA DIGIT SEVEN" -> 7239
      [] name = "LEPCHA DIGIT EIGHT" -> 7240
      [] name = "LEPCHA DIGIT NINE" -> 7241
      [] name = "LEPCHA LETTER TTA" -> 7245
      [] name = "LEPCHA LETTER TTHA" -> 7246
      [] name = "LEPCHA LETTER DDA" -> 7247
      [] name = "OL CHIKI DIGIT ZERO" -> 7248
      [] name = "OL CHIKI DIGIT ONE" -> 7249
      [] name = "OL CHIKI DIGIT TWO" -> 7250
      [] name = "OL CHIKI DIGIT THREE" -> 7251
      [] name = "OL CHIKI DIGIT FOUR" -> 7252
      [] name = "OL CHIKI DIGIT FIVE" -> 7253
      [] name = "OL CHIKI DIGIT SIX" -> 7254
      [] name = "OL CHIKI DIGIT SEVEN" -> 7255
      [] name = "OL CHIKI DIGIT EIGHT" -> 7256
      [] name = "OL CHIKI DIGIT NINE" -> 7257
      [] name = "OL CHIKI LETTER LA" -> 7258
      [] name = "OL CHIKI LETTER AT" -> 7259
      [] name = "OL CHIKI LETTER AG" -> 7260
      [] name = "OL CHIKI LETTER ANG" -> 7261
      [] name = "OL CHIKI LETTER AL" -> 7262
      [] name = "OL CHIKI LETTER LAA" -> 7263
      [] name = "OL CHIKI LETTER AAK" -> 7264
      [] name = "OL CHIKI LETTER AAJ" -> 7265
      [] name = "OL CHIKI LETTER AAM" -> 7266
      [] name = "OL CHIKI LETTER AAW" -> 7267
      [] name = "OL CHIKI LETTER LI" -> 7268
      [] name = "OL CHIKI LETTER IS" -> 7269
      [] name = "OL CHIKI LETTER IH" -> 7270
      [] name = "OL CHIKI LETTER INY" -> 7271
      [] name = "OL CHIKI LETTER IR" -> 7272
      [] name = "OL CHIKI LETTER LU" -> 7273
      [] name = "OL CHIKI LETTER UC" -> 7274
      [] name = "OL CHIKI LETTER UD" -> 7275
      [] name = "OL CHIKI LETTER UNN" -> 7276
      [] name = "OL CHIKI LETTER UY" -> 7277
      [] name = "OL CHIKI LETTER LE" -> 7278
      [] name = "OL CHIKI LETTER EP" -> 7279
      [] name = "OL CHIKI LETTER EDD" -> 7280
      [] name = "OL CHIKI LETTER EN" -> 7281
      [] name = "OL CHIKI LETTER ERR" -> 7282
      [] name = "OL CHIKI LETTER LO" -> 7283
      [] name = "OL CHIKI LETTER OTT" -> 7284
      [] name = "OL CHIKI LETTER OB" -> 7285
      [] name = "OL CHIKI LETTER OV" -> 7286
      [] name = "OL CHIKI LETTER OH" -> 7287
      [] name = "OL CHIKI MU TTUDDAG" -> 7288
      [] name = "OL CHIKI GAAHLAA TTUDDAAG" -> 7289
      [] name = "OL CHIKI MU-GAAHLAA TTUDDAAG" -> 7290
      [] name = "OL CHIKI RELAA" -> 7291
      [] name = "OL CHIKI PHAARKAA" -> 7292
      [] name = "OL CHIKI AHAD" -> 7293
      [] name = "OL CHIKI PUNCTUATION MUCAAD" -> 7294
      [] name = "OL CHIKI PUNCTUATION DOUBLE MUCAAD" -> 7295
      [] name = "CYRILLIC SMALL LETTER ROUNDED VE" -> 7296
      [] name = "CYRILLIC SMALL LETTER LONG-LEGGED DE" -> 7297
      [] name = "CYRILLIC SMALL LETTER NARROW O" -> 7298
      [] name = "CYRILLIC SMALL LETTER WIDE ES" -> 7299
      [] name = "CYRILLIC SMALL LETTER TALL TE" -> 7300
      [] name = "CYRILLIC SMALL LETTER THREE-LEGGED TE" -> 7301
      [] name = "CYRILLIC SMALL LETTER TALL HARD SIGN" -> 7302
      [] name = "CYRILLIC SMALL LETTER TALL YAT" -> 7303
      [] name = "CYRILLIC SMALL LETTER UNBLENDED UK" -> 7304
      [] name = "GEORGIAN MTAVRULI CAPITAL LETTER AN" -> 7312
      [] name = "GEORGIAN MTAVRULI CAPITAL LETTER BAN" -> 7313
      [] name = "GEORGIAN MTAVRULI CAPITAL LETTER GAN" -> 7314
      [] name = "GEORGIAN MTAVRULI CAPITAL LETTER DON" -> 7315
      [] name = "GEORGIAN MTAVRULI CAPITAL LETTER EN" -> 7316
      [] name = "GEORGIAN MTAVRULI CAPITAL LETTER VIN" -> 7317
      [] name = "GEORGIAN MTAVRULI CAPITAL LETTER ZEN" -> 7318
      [] name = "GEORGIAN MTAVRULI CAPITAL LETTER TAN" -> 7319
      [] name = "GEORGIAN MTAVRULI CAPITAL LETTER IN" -> 7320
      [] name = "GEORGIAN MTAVRULI CAPITAL LETTER KAN" -> 7321
      [] name = "GEORGIAN MTAVRULI CAPITAL LETTER LAS" -> 7322
      [] name = "GEORGIAN MTAVRULI CAPITAL LETTER MAN" -> 7323
      [] name = "GEORGIAN MTAVRULI CAPITAL LETTER NAR" -> 7324
      [] name = "GEORGIAN MTAVRULI CAPITAL LETTER ON" -> 7325
      [] name = "GEORGIAN MTAVRULI CAPITAL LETTER PAR" -> 7326
      [] name = "GEORGIAN MTAVRULI CAPITAL LETTER ZHAR" -> 7327
      [] name = "GEORGIAN MTAVRULI CAPITAL LETTER RAE" -> 7328
      [] name = "GEORGIAN MTAVRULI CAPITAL LETTER SAN" -> 7329
      [] name = "GEORGIAN MTAVRULI CAPITAL LETTER TAR" -> 7330
      [] name = "GEORGIAN MTAVRULI CAPITAL LETTER UN" -> 7331
      [] name = "GEORGIAN MTAVRULI CAPITAL LETTER PHAR" -> 7332
      [] name = "GEORGIAN MTAVRULI CAPITAL LETTER KHAR" -> 7333
      [] name = "GEORGIAN MTAVRULI CAPITAL LETTER GHAN" -> 7334
      [] name = "GEORGIAN MTAVRULI CAPITAL LETTER QAR" -> 7335
      [] name = "GEORGIAN MTAVRULI CAPITAL LETTER SHIN" -> 7336
      [] name = "GEORGIAN MTAVRULI CAPITAL LETTER CHIN" -> 7337
      [] name = "GEORGIAN MTAVRULI CAPITAL LETTER CAN" -> 7338
      [] name = "GEORGIAN MTAVRULI CAPITAL LETTER JIL" -> 7339
      [] name = "GEORGIAN MTAVRULI CAPITAL LETTER CIL" -> 7340
      [] name = "GEORGIAN MTAVRULI CAPITAL LETTER CHAR" -> 7341
      [] name = "GEORGIAN MTAVRULI CAPITAL LETTER XAN" -> 7342
      [] name = "GEORGIAN MTAVRULI CAPITAL LETTER JHAN" -> 7343
      [] name = "GEORGIAN MTAVRULI CAPITAL LETTER HAE" -> 7344
      [] name = "GEORGIAN MTAVRULI CAPITAL LETTER HE" -> 7345
      [] name = "GEORGIAN MTAVRULI CAPITAL LETTER HIE" -> 7346
      [] name = "GEORGIAN MTAVRULI CAPITAL LETTER WE" -> 7347
      [] name = "GEORGIAN MTAVRULI CAPITAL LETTER HAR" -> 7348
      [] name = "GEORGIAN MTAVRULI CAPITAL LETTER HOE" -> 7349
      [] name = "GEORGIAN MTAVRULI CAPITAL LETTER FI" -> 7350
      [] name = "GEORGIAN MTAVRULI CAPITAL LETTER YN" -> 7351
      [] name = "GEORGIAN MTAVRULI CAPITAL LETTER ELIFI" -> 7352
      [] name = "GEORGIAN MTAVRULI CAPITAL LETTER TURNED GAN" -> 7353
      [] name = "GEORGIAN MTAVRULI CAPITAL LETTER AIN" -> 7354
      [] name = "GEORGIAN MTAVRULI CAPITAL LETTER AEN" -> 7357
      [] name = "GEORGIAN MTAVRULI CAPITAL LETTER HARD SIGN" -> 7358
      [] name = "GEORGIAN MTAVRULI CAPITAL LETTER LABIAL SIGN" -> 7359
      [] name = "SUNDANESE PUNCTUATION BINDU SURYA" -> 7360
      [] name = "SUNDANESE PUNCTUATION BINDU PANGLONG" -> 7361
      [] name = "SUNDANESE PUNCTUATION BINDU PURNAMA" -> 7362
      [] name = "SUNDANESE PUNCTUATION BINDU CAKRA" -> 7363
      [] name = "SUNDANESE PUNCTUATION BINDU LEU SATANGA" -> 7364
      [] name = "SUNDANESE PUNCTUATION BINDU KA SATANGA" -> 7365
      [] name = "SUNDANESE PUNCTUATION BINDU DA SATANGA" -> 7366
      [] name = "SUNDANESE PUNCTUATION BINDU BA SATANGA" -> 7367
      [] name = "VEDIC TONE KARSHANA" -> 7376
      [] name = "VEDIC TONE SHARA" -> 7377
      [] name = "VEDIC TONE PRENKHA" -> 7378
      [] name = "VEDIC SIGN NIHSHVASA" -> 7379
      [] name = "VEDIC SIGN YAJURVEDIC MIDLINE SVARITA" -> 7380
      [] name = "VEDIC TONE YAJURVEDIC AGGRAVATED INDEPENDENT SVARITA" -> 7381
      [] name = "VEDIC TONE YAJURVEDIC INDEPENDENT SVARITA" -> 7382
      [] name = "VEDIC TONE YAJURVEDIC KATHAKA INDEPENDENT SVARITA" -> 7383
      [] name = "VEDIC TONE CANDRA BELOW" -> 7384
      [] name = "VEDIC TONE YAJURVEDIC KATHAKA INDEPENDENT SVARITA SCHROEDER" -> 7385
      [] name = "VEDIC TONE DOUBLE SVARITA" -> 7386
      [] name = "VEDIC TONE TRIPLE SVARITA" -> 7387
      [] name = "VEDIC TONE KATHAKA ANUDATTA" -> 7388
      [] name = "VEDIC TONE DOT BELOW" -> 7389
      [] name = "VEDIC TONE TWO DOTS BELOW" -> 7390
      [] name = "VEDIC TONE THREE DOTS BELOW" -> 7391
      [] name = "VEDIC TONE RIGVEDIC KASHMIRI INDEPENDENT SVARITA" -> 7392
      [] name = "VEDIC TONE ATHARVAVEDIC INDEPENDENT SVARITA" -> 7393
      [] name = "VEDIC SIGN VISARGA SVARITA" -> 7394
      [] name = "VEDIC SIGN VISARGA UDATTA" -> 7395
      [] name = "VEDIC SIGN REVERSED VISARGA UDATTA" -> 7396
      [] name = "VEDIC SIGN VISARGA ANUDATTA" -> 7397
      [] name = "VEDIC SIGN REVERSED VISARGA ANUDATTA" -> 7398
      [] name = "VEDIC SIGN VISARGA UDATTA WITH TAIL" -> 7399
      [] name = "VEDIC SIGN VISARGA ANUDATTA WITH TAIL" -> 7400
      [] name = "VEDIC SIGN ANUSVARA ANTARGOMUKHA" -> 7401
      [] name = "VEDIC SIGN ANUSVARA BAHIRGOMUKHA" -> 7402
      [] name = "VEDIC SIGN ANUSVARA VAMAGOMUKHA" -> 7403
      [] name = "VEDIC SIGN ANUSVARA VAMAGOMUKHA WITH TAIL" -> 7404
      [] name = "VEDIC SIGN TIRYAK" -> 7405
      [] name = "VEDIC SIGN HEXIFORM LONG ANUSVARA" -> 7406
      [] name = "VEDIC SIGN LONG ANUSVARA" -> 7407
      [] name = "VEDIC SIGN RTHANG LONG ANUSVARA" -> 7408
      [] name = "VEDIC SIGN ANUSVARA UBHAYATO MUKHA" -> 7409
      [] name = "VEDIC SIGN ARDHAVISARGA" -> 7410
      [] name = "VEDIC SIGN ROTATED ARDHAVISARGA" -> 7411
      [] name = "VEDIC TONE CANDRA ABOVE" -> 7412
      [] name = "VEDIC SIGN JIHVAMULIYA" -> 7413
      [] name = "VEDIC SIGN UPADHMANIYA" -> 7414
      [] name = "VEDIC SIGN ATIKRAMA" -> 7415
      [] name = "VEDIC TONE RING ABOVE" -> 7416
      [] name = "VEDIC TONE DOUBLE RING ABOVE" -> 7417
      [] name = "VEDIC SIGN DOUBLE ANUSVARA ANTARGOMUKHA" -> 7418
      [] name = "LATIN LETTER SMALL CAPITAL A" -> 7424
      [] name = "LATIN LETTER SMALL CAPITAL AE" -> 7425
      [] name = "LATIN SMALL LETTER TURNED AE" -> 7426
      [] name = "LATIN LETTER SMALL CAPITAL BARRED B" -> 7427
      [] name = "LATIN LETTER SMALL CAPITAL C" -> 7428
      [] name = "LATIN LETTER SMALL CAPITAL D" -> 7429
      [] name = "LATIN LETTER SMALL CAPITAL ETH" -> 7430
      [] name = "LATIN LETTER SMALL CAPITAL E" -> 7431
      [] name = "LATIN SMALL LETTER TURNED OPEN E" -> 7432
      [] name = "LATIN SMALL LETTER TURNED I" -> 7433
      [] name = "LATIN LETTER SMALL CAPITAL J" -> 7434
      [] name = "LATIN LETTER SMALL CAPITAL K" -> 7435
      [] name = "LATIN LETTER SMALL CAPITAL L WITH STROKE" -> 7436
      [] name = "LATIN LETTER SMALL CAPITAL M" -> 7437
      [] name = "LATIN LETTER SMALL CAPITAL REVERSED N" -> 7438
      [] name = "LATIN LETTER SMALL CAPITAL O" -> 7439
      [] name = "LATIN LETTER SMALL CAPITAL OPEN O" -> 7440
      [] name = "LATIN SMALL LETTER SIDEWAYS O" -> 7441
      [] name = "LATIN SMALL LETTER SIDEWAYS OPEN O" -> 7442
      [] name = "LATIN SMALL LETTER SIDEWAYS O WITH STROKE" -> 7443
      [] name = "LATIN SMALL LETTER TURNED OE" -> 7444
      [] name = "LATIN LETTER SMALL CAPITAL OU" -> 7445
      [] name = "LATIN SMALL LETTER TOP HALF O" -> 7446
      [] name = "LATIN SMALL LETTER BOTTOM HALF O" -> 7447
      [] name = "LATIN LETTER SMALL CAPITAL P" -> 7448
      [] name = "LATIN LETTER SMALL CAPITAL REVERSED R" -> 7449
      [] name = "LATIN LETTER SMALL CAPITAL TURNED R" -> 7450
      [] name = "LATIN LETTER SMALL CAPITAL T" -> 7451
      [] name = "LATIN LETTER SMALL CAPITAL U" -> 7452
      [] name = "LATIN SMALL LETTER SIDEWAYS U" -> 7453
      [] name = "LATIN SMALL LETTER SIDEWAYS DIAERESIZED U" -> 7454
      [] name = "LATIN SMALL LETTER SIDEWAYS TURNED M" -> 7455
      [] name = "LATIN LETTER SMALL CAPITAL V" -> 7456
      [] name = "LATIN LETTER SMALL CAPITAL W" -> 7457
      [] name = "LATIN LETTER SMALL CAPITAL Z" -> 7458
      [] name = "LATIN LETTER SMALL CAPITAL EZH" -> 7459
      [] name = "LATIN LETTER VOICED LARYNGEAL SPIRANT" -> 7460
      [] name = "LATIN LETTER AIN" -> 7461
      [] name = "GREEK LETTER SMALL CAPITAL GAMMA" -> 7462
      [] name = "GREEK LETTER SMALL CAPITAL LAMDA" -> 7463
      [] name = "GREEK LETTER SMALL CAPITAL PI" -> 7464
      [] name = "GREEK LETTER SMALL CAPITAL RHO" -> 7465
      [] name = "GREEK LETTER SMALL CAPITAL PSI" -> 7466
      [] name = "CYRILLIC LETTER SMALL CAPITAL EL" -> 7467
      [] name = "MODIFIER LETTER CAPITAL A" -> 7468
      [] name = "MODIFIER LETTER CAPITAL AE" -> 7469
      [] name = "MODIFIER LETTER CAPITAL B" -> 7470
      [] name = "MODIFIER LETTER CAPITAL BARRED B" -> 7471
      [] name = "MODIFIER LETTER CAPITAL D" -> 7472
      [] name = "MODIFIER LETTER CAPITAL E" -> 7473
      [] name = "MODIFIER LETTER CAPITAL REVERSED E" -> 7474
      [] name = "MODIFIER LETTER CAPITAL G" -> 7475
      [] name = "MODIFIER LETTER CAPITAL H" -> 7476
      [] name = "MODIFIER LETTER CAPITAL I" -> 7477
      [] name = "MODIFIER LETTER CAPITAL J" -> 7478
      [] name = "MODIFIER LETTER CAPITAL K" -> 7479
      [] name = "MODIFIER LETTER CAPITAL L" -> 7480
      [] name = "MODIFIER LETTER CAPITAL M" -> 7481
      [] name = "MODIFIER LETTER CAPITAL N" -> 7482
      [] name = "MODIFIER LETTER CAPITAL REVERSED N" -> 7483
      [] name = "MODIFIER LETTER CAPITAL O" -> 7484
      [] name = "MODIFIER LETTER CAPITAL OU" -> 7485
      [] name = "MODIFIER LETTER CAPITAL P" -> 7486
      [] name = "MODIFIER LETTER CAPITAL R" -> 7487
      [] name = "MODIFIER LETTER CAPITAL T" -> 7488
      [] name = "MODIFIER LETTER CAPITAL U" -> 7489
      [] name = "MODIFIER LETTER CAPITAL W" -> 7490
      [] name = "MODIFIER LETTER SMALL A" -> 7491
      [] name = "MODIFIER LETTER SMALL TURNED A" -> 7492
      [] name = "MODIFIER LETTER SMALL ALPHA" -> 7493
      [] name = "MODIFIER LETTER SMALL TURNED AE" -> 7494
      [] name = "MODIFIER LETTER SMALL B" -> 7495
      [] name = "MODIFIER LETTER SMALL D" -> 7496
      [] name = "MODIFIER LETTER SMALL E" -> 7497
      [] name = "MODIFIER LETTER SMALL SCHWA" -> 7498
      [] name = "MODIFIER LETTER SMALL OPEN E" -> 7499
      [] name = "MODIFIER LETTER SMALL TURNED OPEN E" -> 7500
      [] name = "MODIFIER LETTER SMALL G" -> 7501
      [] name = "MODIFIER LETTER SMALL TURNED I" -> 7502
      [] name = "MODIFIER LETTER SMALL K" -> 7503
      [] name = "MODIFIER LETTER SMALL M" -> 7504
      [] name = "MODIFIER LETTER SMALL ENG" -> 7505
      [] name = "MODIFIER LETTER SMALL O" -> 7506
      [] name = "MODIFIER LETTER SMALL OPEN O" -> 7507
      [] name = "MODIFIER LETTER SMALL TOP HALF O" -> 7508
      [] name = "MODIFIER LETTER SMALL BOTTOM HALF O" -> 7509
      [] name = "MODIFIER LETTER SMALL P" -> 7510
      [] name = "MODIFIER LETTER SMALL T" -> 7511
      [] name = "MODIFIER LETTER SMALL U" -> 7512
      [] name = "MODIFIER LETTER SMALL SIDEWAYS U" -> 7513
      [] name = "MODIFIER LETTER SMALL TURNED M" -> 7514
      [] name = "MODIFIER LETTER SMALL V" -> 7515
      [] name = "MODIFIER LETTER SMALL AIN" -> 7516
      [] name = "MODIFIER LETTER SMALL BETA" -> 7517
      [] name = "MODIFIER LETTER SMALL GREEK GAMMA" -> 7518
      [] name = "MODIFIER LETTER SMALL DELTA" -> 7519
      [] name = "MODIFIER LETTER SMALL GREEK PHI" -> 7520
      [] name = "MODIFIER LETTER SMALL CHI" -> 7521
      [] name = "LATIN SUBSCRIPT SMALL LETTER I" -> 7522
      [] name = "LATIN SUBSCRIPT SMALL LETTER R" -> 7523
      [] name = "LATIN SUBSCRIPT SMALL LETTER U" -> 7524
      [] name = "LATIN SUBSCRIPT SMALL LETTER V" -> 7525
      [] name = "GREEK SUBSCRIPT SMALL LETTER BETA" -> 7526
      [] name = "GREEK SUBSCRIPT SMALL LETTER GAMMA" -> 7527
      [] name = "GREEK SUBSCRIPT SMALL LETTER RHO" -> 7528
      [] name = "GREEK SUBSCRIPT SMALL LETTER PHI" -> 7529
      [] name = "GREEK SUBSCRIPT SMALL LETTER CHI" -> 7530
      [] name = "LATIN SMALL LETTER UE" -> 7531
      [] name = "LATIN SMALL LETTER B WITH MIDDLE TILDE" -> 7532
      [] name = "LATIN SMALL LETTER D WITH MIDDLE TILDE" -> 7533
      [] name = "LATIN SMALL LETTER F WITH MIDDLE TILDE" -> 7534
      [] name = "LATIN SMALL LETTER M WITH MIDDLE TILDE" -> 7535
      [] name = "LATIN SMALL LETTER N WITH MIDDLE TILDE" -> 7536
      [] name = "LATIN SMALL LETTER P WITH MIDDLE TILDE" -> 7537
      [] name = "LATIN SMALL LETTER R WITH MIDDLE TILDE" -> 7538
      [] name = "LATIN SMALL LETTER R WITH FISHHOOK AND MIDDLE TILDE" -> 7539
      [] name = "LATIN SMALL LETTER S WITH MIDDLE TILDE" -> 7540
      [] name = "LATIN SMALL LETTER T WITH MIDDLE TILDE" -> 7541
      [] name = "LATIN SMALL LETTER Z WITH MIDDLE TILDE" -> 7542
      [] name = "LATIN SMALL LETTER TURNED G" -> 7543
      [] name = "MODIFIER LETTER CYRILLIC EN" -> 7544
      [] name = "LATIN SMALL LETTER INSULAR G" -> 7545
      [] name = "LATIN SMALL LETTER TH WITH STRIKETHROUGH" -> 7546
      [] name = "LATIN SMALL CAPITAL LETTER I WITH STROKE" -> 7547
      [] name = "LATIN SMALL LETTER IOTA WITH STROKE" -> 7548
      [] name = "LATIN SMALL LETTER P WITH STROKE" -> 7549
      [] name = "LATIN SMALL CAPITAL LETTER U WITH STROKE" -> 7550
      [] name = "LATIN SMALL LETTER UPSILON WITH STROKE" -> 7551
      [] name = "LATIN SMALL LETTER B WITH PALATAL HOOK" -> 7552
      [] name = "LATIN SMALL LETTER D WITH PALATAL HOOK" -> 7553
      [] name = "LATIN SMALL LETTER F WITH PALATAL HOOK" -> 7554
      [] name = "LATIN SMALL LETTER G WITH PALATAL HOOK" -> 7555
      [] name = "LATIN SMALL LETTER K WITH PALATAL HOOK" -> 7556
      [] name = "LATIN SMALL LETTER L WITH PALATAL HOOK" -> 7557
      [] name = "LATIN SMALL LETTER M WITH PALATAL HOOK" -> 7558
      [] name = "LATIN SMALL LETTER N WITH PALATAL HOOK" -> 7559
      [] name = "LATIN SMALL LETTER P WITH PALATAL HOOK" -> 7560
      [] name = "LATIN SMALL LETTER R WITH PALATAL HOOK" -> 7561
      [] name = "LATIN SMALL LETTER S WITH PALATAL HOOK" -> 7562
      [] name = "LATIN SMALL LETTER ESH WITH PALATAL HOOK" -> 7563
      [] name = "LATIN SMALL LETTER V WITH PALATAL HOOK" -> 7564
      [] name = "LATIN SMALL LETTER X WITH PALATAL HOOK" -> 7565
      [] name = "LATIN SMALL LETTER Z WITH PALATAL HOOK" -> 7566
      [] name = "LATIN SMALL LETTER A WITH RETROFLEX HOOK" -> 7567
      [] name = "LATIN SMALL LETTER ALPHA WITH RETROFLEX HOOK" -> 7568
      [] name = "LATIN SMALL LETTER D WITH HOOK AND TAIL" -> 7569
      [] name = "LATIN SMALL LETTER E WITH RETROFLEX HOOK" -> 7570
      [] name = "LATIN SMALL LETTER OPEN E WITH RETROFLEX HOOK" -> 7571
      [] name = "LATIN SMALL LETTER REVERSED OPEN E WITH RETROFLEX HOOK" -> 7572
      [] name = "LATIN SMALL LETTER SCHWA WITH RETROFLEX HOOK" -> 7573
      [] name = "LATIN SMALL LETTER I WITH RETROFLEX HOOK" -> 7574
      [] name = "LATIN SMALL LETTER OPEN O WITH RETROFLEX HOOK" -> 7575
      [] name = "LATIN SMALL LETTER ESH WITH RETROFLEX HOOK" -> 7576
      [] name = "LATIN SMALL LETTER U WITH RETROFLEX HOOK" -> 7577
      [] name = "LATIN SMALL LETTER EZH WITH RETROFLEX HOOK" -> 7578
      [] name = "MODIFIER LETTER SMALL TURNED ALPHA" -> 7579
      [] name = "MODIFIER LETTER SMALL C" -> 7580
      [] name = "MODIFIER LETTER SMALL C WITH CURL" -> 7581
      [] name = "MODIFIER LETTER SMALL ETH" -> 7582
      [] name = "MODIFIER LETTER SMALL REVERSED OPEN E" -> 7583
      [] name = "MODIFIER LETTER SMALL F" -> 7584
      [] name = "MODIFIER LETTER SMALL DOTLESS J WITH STROKE" -> 7585
      [] name = "MODIFIER LETTER SMALL SCRIPT G" -> 7586
      [] name = "MODIFIER LETTER SMALL TURNED H" -> 7587
      [] name = "MODIFIER LETTER SMALL I WITH STROKE" -> 7588
      [] name = "MODIFIER LETTER SMALL IOTA" -> 7589
      [] name = "MODIFIER LETTER SMALL CAPITAL I" -> 7590
      [] name = "MODIFIER LETTER SMALL CAPITAL I WITH STROKE" -> 7591
      [] name = "MODIFIER LETTER SMALL J WITH CROSSED-TAIL" -> 7592
      [] name = "MODIFIER LETTER SMALL L WITH RETROFLEX HOOK" -> 7593
      [] name = "MODIFIER LETTER SMALL L WITH PALATAL HOOK" -> 7594
      [] name = "MODIFIER LETTER SMALL CAPITAL L" -> 7595
      [] name = "MODIFIER LETTER SMALL M WITH HOOK" -> 7596
      [] name = "MODIFIER LETTER SMALL TURNED M WITH LONG LEG" -> 7597
      [] name = "MODIFIER LETTER SMALL N WITH LEFT HOOK" -> 7598
      [] name = "MODIFIER LETTER SMALL N WITH RETROFLEX HOOK" -> 7599
      [] name = "MODIFIER LETTER SMALL CAPITAL N" -> 7600
      [] name = "MODIFIER LETTER SMALL BARRED O" -> 7601
      [] name = "MODIFIER LETTER SMALL PHI" -> 7602
      [] name = "MODIFIER LETTER SMALL S WITH HOOK" -> 7603
      [] name = "MODIFIER LETTER SMALL ESH" -> 7604
      [] name = "MODIFIER LETTER SMALL T WITH PALATAL HOOK" -> 7605
      [] name = "MODIFIER LETTER SMALL U BAR" -> 7606
      [] name = "MODIFIER LETTER SMALL UPSILON" -> 7607
      [] name = "MODIFIER LETTER SMALL CAPITAL U" -> 7608
      [] name = "MODIFIER LETTER SMALL V WITH HOOK" -> 7609
      [] name = "MODIFIER LETTER SMALL TURNED V" -> 7610
      [] name = "MODIFIER LETTER SMALL Z" -> 7611
      [] name = "MODIFIER LETTER SMALL Z WITH RETROFLEX HOOK" -> 7612
      [] name = "MODIFIER LETTER SMALL Z WITH CURL" -> 7613
      [] name = "MODIFIER LETTER SMALL EZH" -> 7614
      [] name = "MODIFIER LETTER SMALL THETA" -> 7615
      [] name = "COMBINING DOTTED GRAVE ACCENT" -> 7616
      [] name = "COMBINING DOTTED ACUTE ACCENT" -> 7617
      [] name = "COMBINING SNAKE BELOW" -> 7618
      [] name = "COMBINING SUSPENSION MARK" -> 7619
      [] name = "COMBINING MACRON-ACUTE" -> 7620
      [] name = "COMBINING GRAVE-MACRON" -> 7621
      [] name = "COMBINING MACRON-GRAVE" -> 7622
      [] name = "COMBINING ACUTE-MACRON" -> 7623
      [] name = "COMBINING GRAVE-ACUTE-GRAVE" -> 7624
      [] name = "COMBINING ACUTE-GRAVE-ACUTE" -> 7625
      [] name = "COMBINING LATIN SMALL LETTER R BELOW" -> 7626
      [] name = "COMBINING BREVE-MACRON" -> 7627
      [] name = "COMBINING MACRON-BREVE" -> 7628
      [] name = "COMBINING DOUBLE CIRCUMFLEX ABOVE" -> 7629
      [] name = "COMBINING OGONEK ABOVE" -> 7630
      [] name = "COMBINING ZIGZAG BELOW" -> 7631
      [] name = "COMBINING IS BELOW" -> 7632
      [] name = "COMBINING UR ABOVE" -> 7633
      [] name = "COMBINING US ABOVE" -> 7634
      [] name = "COMBINING LATIN SMALL LETTER FLATTENED OPEN A ABOVE" -> 7635
      [] name = "COMBINING LATIN SMALL LETTER AE" -> 7636
      [] name = "COMBINING LATIN SMALL LETTER AO" -> 7637
      [] name = "COMBINING LATIN SMALL LETTER AV" -> 7638
      [] name = "COMBINING LATIN SMALL LETTER C CEDILLA" -> 7639
      [] name = "COMBINING LATIN SMALL LETTER INSULAR D" -> 7640
      [] name = "COMBINING LATIN SMALL LETTER ETH" -> 7641
      [] name = "COMBINING LATIN SMALL LETTER G" -> 7642
      [] name = "COMBINING LATIN LETTER SMALL CAPITAL G" -> 7643
      [] name = "COMBINING LATIN SMALL LETTER K" -> 7644
      [] name = "COMBINING LATIN SMALL LETTER L" -> 7645
      [] name = "COMBINING LATIN LETTER SMALL CAPITAL L" -> 7646
      [] name = "COMBINING LATIN LETTER SMALL CAPITAL M" -> 7647
      [] name = "COMBINING LATIN SMALL LETTER N" -> 7648
      [] name = "COMBINING LATIN LETTER SMALL CAPITAL N" -> 7649
      [] name = "COMBINING LATIN LETTER SMALL CAPITAL R" -> 7650
      [] name = "COMBINING LATIN SMALL LETTER R ROTUNDA" -> 7651
      [] name = "COMBINING LATIN SMALL LETTER S" -> 7652
      [] name = "COMBINING LATIN SMALL LETTER LONG S" -> 7653
      [] name = "COMBINING LATIN SMALL LETTER Z" -> 7654
      [] name = "COMBINING LATIN SMALL LETTER ALPHA" -> 7655
      [] name = "COMBINING LATIN SMALL LETTER B" -> 7656
      [] name = "COMBINING LATIN SMALL LETTER BETA" -> 7657
      [] name = "COMBINING LATIN SMALL LETTER SCHWA" -> 7658
      [] name = "COMBINING LATIN SMALL LETTER F" -> 7659
      [] name = "COMBINING LATIN SMALL LETTER L WITH DOUBLE MIDDLE TILDE" -> 7660
      [] name = "COMBINING LATIN SMALL LETTER O WITH LIGHT CENTRALIZATION STROKE" -> 7661
      [] name = "COMBINING LATIN SMALL LETTER P" -> 7662
      [] name = "COMBINING LATIN SMALL LETTER ESH" -> 7663
      [] name = "COMBINING LATIN SMALL LETTER U WITH LIGHT CENTRALIZATION STROKE" -> 7664
      [] name = "COMBINING LATIN SMALL LETTER W" -> 7665
      [] name = "COMBINING LATIN SMALL LETTER A WITH DIAERESIS" -> 7666
      [] name = "COMBINING LATIN SMALL LETTER O WITH DIAERESIS" -> 7667
      [] name = "COMBINING LATIN SMALL LETTER U WITH DIAERESIS" -> 7668
      [] name = "COMBINING UP TACK ABOVE" -> 7669
      [] name = "COMBINING KAVYKA ABOVE RIGHT" -> 7670
      [] name = "COMBINING KAVYKA ABOVE LEFT" -> 7671
      [] name = "COMBINING DOT ABOVE LEFT" -> 7672
      [] name = "COMBINING WIDE INVERTED BRIDGE BELOW" -> 7673
      [] name = "COMBINING DOT BELOW LEFT" -> 7674
      [] name = "COMBINING DELETION MARK" -> 7675
      [] name = "COMBINING DOUBLE INVERTED BREVE BELOW" -> 7676
      [] name = "COMBINING ALMOST EQUAL TO BELOW" -> 7677
      [] name = "COMBINING LEFT ARROWHEAD ABOVE" -> 7678
      [] name = "COMBINING RIGHT ARROWHEAD AND DOWN ARROWHEAD BELOW" -> 7679
      [] name = "LATIN CAPITAL LETTER A WITH RING BELOW" -> 7680
      [] name = "LATIN SMALL LETTER A WITH RING BELOW" -> 7681
      [] name = "LATIN CAPITAL LETTER B WITH DOT ABOVE" -> 7682
      [] name = "LATIN SMALL LETTER B WITH DOT ABOVE" -> 7683
      [] name = "LATIN CAPITAL LETTER B WITH DOT BELOW" -> 7684
      [] name = "LATIN SMALL LETTER B WITH DOT BELOW" -> 7685
      [] name = "LATIN CAPITAL LETTER B WITH LINE BELOW" -> 7686
      [] name = "LATIN SMALL LETTER B WITH LINE BELOW" -> 7687
      [] name = "LATIN CAPITAL LETTER C WITH CEDILLA AND ACUTE" -> 7688
      [] name = "LATIN SMALL LETTER C WITH CEDILLA AND ACUTE" -> 7689
      [] name = "LATIN CAPITAL LETTER D WITH DOT ABOVE" -> 7690
      [] name = "LATIN SMALL LETTER D WITH DOT ABOVE" -> 7691
      [] name = "LATIN CAPITAL LETTER D WITH DOT BELOW" -> 7692
      [] name = "LATIN SMALL LETTER D WITH DOT BELOW" -> 7693
      [] name = "LATIN CAPITAL LETTER D WITH LINE BELOW" -> 7694
      [] name = "LATIN SMALL LETTER D WITH LINE BELOW" -> 7695
      [] name = "LATIN CAPITAL LETTER D WITH CEDILLA" -> 7696
      [] name = "LATIN SMALL LETTER D WITH CEDILLA" -> 7697
      [] name = "LATIN CAPITAL LETTER D WITH CIRCUMFLEX BELOW" -> 7698
      [] name = "LATIN SMALL LETTER D WITH CIRCUMFLEX BELOW" -> 7699
      [] name = "LATIN CAPITAL LETTER E WITH MACRON AND GRAVE" -> 7700
      [] name = "LATIN SMALL LETTER E WITH MACRON AND GRAVE" -> 7701
      [] name = "LATIN CAPITAL LETTER E WITH MACRON AND ACUTE" -> 7702
      [] name = "LATIN SMALL LETTER E WITH MACRON AND ACUTE" -> 7703
      [] name = "LATIN CAPITAL LETTER E WITH CIRCUMFLEX BELOW" -> 7704
      [] name = "LATIN SMALL LETTER E WITH CIRCUMFLEX BELOW" -> 7705
      [] name = "LATIN CAPITAL LETTER E WITH TILDE BELOW" -> 7706
      [] name = "LATIN SMALL LETTER E WITH TILDE BELOW" -> 7707
      [] name = "LATIN CAPITAL LETTER E WITH CEDILLA AND BREVE" -> 7708
      [] name = "LATIN SMALL LETTER E WITH CEDILLA AND BREVE" -> 7709
      [] name = "LATIN CAPITAL LETTER F WITH DOT ABOVE" -> 7710
      [] name = "LATIN SMALL LETTER F WITH DOT ABOVE" -> 7711
      [] name = "LATIN CAPITAL LETTER G WITH MACRON" -> 7712
      [] name = "LATIN SMALL LETTER G WITH MACRON" -> 7713
      [] name = "LATIN CAPITAL LETTER H WITH DOT ABOVE" -> 7714
      [] name = "LATIN SMALL LETTER H WITH DOT ABOVE" -> 7715
      [] name = "LATIN CAPITAL LETTER H WITH DOT BELOW" -> 7716
      [] name = "LATIN SMALL LETTER H WITH DOT BELOW" -> 7717
      [] name = "LATIN CAPITAL LETTER H WITH DIAERESIS" -> 7718
      [] name = "LATIN SMALL LETTER H WITH DIAERESIS" -> 7719
      [] name = "LATIN CAPITAL LETTER H WITH CEDILLA" -> 7720
      [] name = "LATIN SMALL LETTER H WITH CEDILLA" -> 7721
      [] name = "LATIN CAPITAL LETTER H WITH BREVE BELOW" -> 7722
      [] name = "LATIN SMALL LETTER H WITH BREVE BELOW" -> 7723
      [] name = "LATIN CAPITAL LETTER I WITH TILDE BELOW" -> 7724
      [] name = "LATIN SMALL LETTER I WITH TILDE BELOW" -> 7725
      [] name = "LATIN CAPITAL LETTER I WITH DIAERESIS AND ACUTE" -> 7726
      [] name = "LATIN SMALL LETTER I WITH DIAERESIS AND ACUTE" -> 7727
      [] name = "LATIN CAPITAL LETTER K WITH ACUTE" -> 7728
      [] name = "LATIN SMALL LETTER K WITH ACUTE" -> 7729
      [] name = "LATIN CAPITAL LETTER K WITH DOT BELOW" -> 7730
      [] name = "LATIN SMALL LETTER K WITH DOT BELOW" -> 7731
      [] name = "LATIN CAPITAL LETTER K WITH LINE BELOW" -> 7732
      [] name = "LATIN SMALL LETTER K WITH LINE BELOW" -> 7733
      [] name = "LATIN CAPITAL LETTER L WITH DOT BELOW" -> 7734
      [] name = "LATIN SMALL LETTER L WITH DOT BELOW" -> 7735
      [] name = "LATIN CAPITAL LETTER L WITH DOT BELOW AND MACRON" -> 7736
      [] name = "LATIN SMALL LETTER L WITH DOT BELOW AND MACRON" -> 7737
      [] name = "LATIN CAPITAL LETTER L WITH LINE BELOW" -> 7738
      [] name = "LATIN SMALL LETTER L WITH LINE BELOW" -> 7739
      [] name = "LATIN CAPITAL LETTER L WITH CIRCUMFLEX BELOW" -> 7740
      [] name = "LATIN SMALL LETTER L WITH CIRCUMFLEX BELOW" -> 7741
      [] name = "LATIN CAPITAL LETTER M WITH ACUTE" -> 7742
      [] name = "LATIN SMALL LETTER M WITH ACUTE" -> 7743
      [] name = "LATIN CAPITAL LETTER M WITH DOT ABOVE" -> 7744
      [] name = "LATIN SMALL LETTER M WITH DOT ABOVE" -> 7745
      [] name = "LATIN CAPITAL LETTER M WITH DOT BELOW" -> 7746
      [] name = "LATIN SMALL LETTER M WITH DOT BELOW" -> 7747
      [] name = "LATIN CAPITAL LETTER N WITH DOT ABOVE" -> 7748
      [] name = "LATIN SMALL LETTER N WITH DOT ABOVE" -> 7749
      [] name = "LATIN CAPITAL LETTER N WITH DOT BELOW" -> 7750
      [] name = "LATIN SMALL LETTER N WITH DOT BELOW" -> 7751
      [] name = "LATIN CAPITAL LETTER N WITH LINE BELOW" -> 7752
      [] name = "LATIN SMALL LETTER N WITH LINE BELOW" -> 7753
      [] name = "LATIN CAPITAL LETTER N WITH CIRCUMFLEX BELOW" -> 7754
      [] name = "LATIN SMALL LETTER N WITH CIRCUMFLEX BELOW" -> 7755
      [] name = "LATIN CAPITAL LETTER O WITH TILDE AND ACUTE" -> 7756
      [] name = "LATIN SMALL LETTER O WITH TILDE AND ACUTE" -> 7757
      [] name = "LATIN CAPITAL LETTER O WITH TILDE AND DIAERESIS" -> 7758
      [] name = "LATIN SMALL LETTER O WITH TILDE AND DIAERESIS" -> 7759
      [] name = "LATIN CAPITAL LETTER O WITH MACRON AND GRAVE" -> 7760
      [] name = "LATIN SMALL LETTER O WITH MACRON AND GRAVE" -> 7761
      [] name = "LATIN CAPITAL LETTER O WITH MACRON AND ACUTE" -> 7762
      [] name = "LATIN SMALL LETTER O WITH MACRON AND ACUTE" -> 7763
      [] name = "LATIN CAPITAL LETTER P WITH ACUTE" -> 7764
      [] name = "LATIN SMALL LETTER P WITH ACUTE" -> 7765
      [] name = "LATIN CAPITAL LETTER P WITH DOT ABOVE" -> 7766
      [] name = "LATIN SMALL LETTER P WITH DOT ABOVE" -> 7767
      [] name = "LATIN CAPITAL LETTER R WITH DOT ABOVE" -> 7768
      [] name = "LATIN SMALL LETTER R WITH DOT ABOVE" -> 7769
      [] name = "LATIN CAPITAL LETTER R WITH DOT BELOW" -> 7770
      [] name = "LATIN SMALL LETTER R WITH DOT BELOW" -> 7771
      [] name = "LATIN CAPITAL LETTER R WITH DOT BELOW AND MACRON" -> 7772
      [] name = "LATIN SMALL LETTER R WITH DOT BELOW AND MACRON" -> 7773
      [] name = "LATIN CAPITAL LETTER R WITH LINE BELOW" -> 7774
      [] name = "LATIN SMALL LETTER R WITH LINE BELOW" -> 7775
      [] name = "LATIN CAPITAL LETTER S WITH DOT ABOVE" -> 7776
      [] name = "LATIN SMALL LETTER S WITH DOT ABOVE" -> 7777
      [] name = "LATIN CAPITAL LETTER S WITH DOT BELOW" -> 7778
      [] name = "LATIN SMALL LETTER S WITH DOT BELOW" -> 7779
      [] name = "LATIN CAPITAL LETTER S WITH ACUTE AND DOT ABOVE" -> 7780
      [] name = "LATIN SMALL LETTER S WITH ACUTE AND DOT ABOVE" -> 7781
      [] name = "LATIN CAPITAL LETTER S WITH CARON AND DOT ABOVE" -> 7782
      [] name = "LATIN SMALL LETTER S WITH CARON AND DOT ABOVE" -> 7783
      [] name = "LATIN CAPITAL LETTER S WITH DOT BELOW AND DOT ABOVE" -> 7784
      [] name = "LATIN SMALL LETTER S WITH DOT BELOW AND DOT ABOVE" -> 7785
      [] name = "LATIN CAPITAL LETTER T WITH DOT ABOVE" -> 7786
      [] name = "LATIN SMALL LETTER T WITH DOT ABOVE" -> 7787
      [] name = "LATIN CAPITAL LETTER T WITH DOT BELOW" -> 7788
      [] name = "LATIN SMALL LETTER T WITH DOT BELOW" -> 7789
      [] name = "LATIN CAPITAL LETTER T WITH LINE BELOW" -> 7790
      [] name = "LATIN SMALL LETTER T WITH LINE BELOW" -> 7791
      [] name = "LATIN CAPITAL LETTER T WITH CIRCUMFLEX BELOW" -> 7792
      [] name = "LATIN SMALL LETTER T WITH CIRCUMFLEX BELOW" -> 7793
      [] name = "LATIN CAPITAL LETTER U WITH DIAERESIS BELOW" -> 7794
      [] name = "LATIN SMALL LETTER U WITH DIAERESIS BELOW" -> 7795
      [] name = "LATIN CAPITAL LETTER U WITH TILDE BELOW" -> 7796
      [] name = "LATIN SMALL LETTER U WITH TILDE BELOW" -> 7797
      [] name = "LATIN CAPITAL LETTER U WITH CIRCUMFLEX BELOW" -> 7798
      [] name = "LATIN SMALL LETTER U WITH CIRCUMFLEX BELOW" -> 7799
      [] name = "LATIN CAPITAL LETTER U WITH TILDE AND ACUTE" -> 7800
      [] name = "LATIN SMALL LETTER U WITH TILDE AND ACUTE" -> 7801
      [] name = "LATIN CAPITAL LETTER U WITH MACRON AND DIAERESIS" -> 7802
      [] name = "LATIN SMALL LETTER U WITH MACRON AND DIAERESIS" -> 7803
      [] name = "LATIN CAPITAL LETTER V WITH TILDE" -> 7804
      [] name = "LATIN SMALL LETTER V WITH TILDE" -> 7805
      [] name = "LATIN CAPITAL LETTER V WITH DOT BELOW" -> 7806
      [] name = "LATIN SMALL LETTER V WITH DOT BELOW" -> 7807
      [] name = "LATIN CAPITAL LETTER W WITH GRAVE" -> 7808
      [] name = "LATIN SMALL LETTER W WITH GRAVE" -> 7809
      [] name = "LATIN CAPITAL LETTER W WITH ACUTE" -> 7810
      [] name = "LATIN SMALL LETTER W WITH ACUTE" -> 7811
      [] name = "LATIN CAPITAL LETTER W WITH DIAERESIS" -> 7812
      [] name = "LATIN SMALL LETTER W WITH DIAERESIS" -> 7813
      [] name = "LATIN CAPITAL LETTER W WITH DOT ABOVE" -> 7814
      [] name = "LATIN SMALL LETTER W WITH DOT ABOVE" -> 7815
      [] name = "LATIN CAPITAL LETTER W WITH DOT BELOW" -> 7816
      [] name = "LATIN SMALL LETTER W WITH DOT BELOW" -> 7817
      [] name = "LATIN CAPITAL LETTER X WITH DOT ABOVE" -> 7818
      [] name = "LATIN SMALL LETTER X WITH DOT ABOVE" -> 7819
      [] name = "LATIN CAPITAL LETTER X WITH DIAERESIS" -> 7820
      [] name = "LATIN SMALL LETTER X WITH DIAERESIS" -> 7821
      [] name = "LATIN CAPITAL LETTER Y WITH DOT ABOVE" -> 7822
      [] name = "LATIN SMALL LETTER Y WITH DOT ABOVE" -> 7823
      [] name = "LATIN CAPITAL LETTER Z WITH CIRCUMFLEX" -> 7824
      [] name = "LATIN SMALL LETTER Z WITH CIRCUMFLEX" -> 7825
      [] name = "LATIN CAPITAL LETTER Z WITH DOT BELOW" -> 7826
      [] name = "LATIN SMALL LETTER Z WITH DOT BELOW" -> 7827
      [] name = "LATIN CAPITAL LETTER Z WITH LINE BELOW" -> 7828
      [] name = "LATIN SMALL LETTER Z WITH LINE BELOW" -> 7829
      [] name = "LATIN SMALL LETTER H WITH LINE BELOW" -> 7830
      [] name = "LATIN SMALL LETTER T WITH DIAERESIS" -> 7831
      [] name = "LATIN SMALL LETTER W WITH RING ABOVE" -> 7832
      [] name = "LATIN SMALL LETTER Y WITH RING ABOVE" -> 7833
      [] name = "LATIN SMALL LETTER A WITH RIGHT HALF RING" -> 7834
      [] name = "LATIN SMALL LETTER LONG S WITH DOT ABOVE" -> 7835
      [] name = "LATIN SMALL LETTER LONG S WITH DIAGONAL STROKE" -> 7836
      [] name = "LATIN SMALL LETTER LONG S WITH HIGH STROKE" -> 7837
      [] name = "LATIN CAPITAL LETTER SHARP S" -> 7838
      [] name = "LATIN SMALL LETTER DELTA" -> 7839
      [] name = "LATIN CAPITAL LETTER A WITH DOT BELOW" -> 7840
      [] name = "LATIN SMALL LETTER A WITH DOT BELOW" -> 7841
      [] name = "LATIN CAPITAL LETTER A WITH HOOK ABOVE" -> 7842
      [] name = "LATIN SMALL LETTER A WITH HOOK ABOVE" -> 7843
      [] name = "LATIN CAPITAL LETTER A WITH CIRCUMFLEX AND ACUTE" -> 7844
      [] name = "LATIN SMALL LETTER A WITH CIRCUMFLEX AND ACUTE" -> 7845
      [] name = "LATIN CAPITAL LETTER A WITH CIRCUMFLEX AND GRAVE" -> 7846
      [] name = "LATIN SMALL LETTER A WITH CIRCUMFLEX AND GRAVE" -> 7847
      [] name = "LATIN CAPITAL LETTER A WITH CIRCUMFLEX AND HOOK ABOVE" -> 7848
      [] name = "LATIN SMALL LETTER A WITH CIRCUMFLEX AND HOOK ABOVE" -> 7849
      [] name = "LATIN CAPITAL LETTER A WITH CIRCUMFLEX AND TILDE" -> 7850
      [] name = "LATIN SMALL LETTER A WITH CIRCUMFLEX AND TILDE" -> 7851
      [] name = "LATIN CAPITAL LETTER A WITH CIRCUMFLEX AND DOT BELOW" -> 7852
      [] name = "LATIN SMALL LETTER A WITH CIRCUMFLEX AND DOT BELOW" -> 7853
      [] name = "LATIN CAPITAL LETTER A WITH BREVE AND ACUTE" -> 7854
      [] name = "LATIN SMALL LETTER A WITH BREVE AND ACUTE" -> 7855
      [] name = "LATIN CAPITAL LETTER A WITH BREVE AND GRAVE" -> 7856
      [] name = "LATIN SMALL LETTER A WITH BREVE AND GRAVE" -> 7857
      [] name = "LATIN CAPITAL LETTER A WITH BREVE AND HOOK ABOVE" -> 7858
      [] name = "LATIN SMALL LETTER A WITH BREVE AND HOOK ABOVE" -> 7859
      [] name = "LATIN CAPITAL LETTER A WITH BREVE AND TILDE" -> 7860
      [] name = "LATIN SMALL LETTER A WITH BREVE AND TILDE" -> 7861
      [] name = "LATIN CAPITAL LETTER A WITH BREVE AND DOT BELOW" -> 7862
      [] name = "LATIN SMALL LETTER A WITH BREVE AND DOT BELOW" -> 7863
      [] name = "LATIN CAPITAL LETTER E WITH DOT BELOW" -> 7864
      [] name = "LATIN SMALL LETTER E WITH DOT BELOW" -> 7865
      [] name = "LATIN CAPITAL LETTER E WITH HOOK ABOVE" -> 7866
      [] name = "LATIN SMALL LETTER E WITH HOOK ABOVE" -> 7867
      [] name = "LATIN CAPITAL LETTER E WITH TILDE" -> 7868
      [] name = "LATIN SMALL LETTER E WITH TILDE" -> 7869
      [] name = "LATIN CAPITAL LETTER E WITH CIRCUMFLEX AND ACUTE" -> 7870
      [] name = "LATIN SMALL LETTER E WITH CIRCUMFLEX AND ACUTE" -> 7871
      [] name = "LATIN CAPITAL LETTER E WITH CIRCUMFLEX AND GRAVE" -> 7872
      [] name = "LATIN SMALL LETTER E WITH CIRCUMFLEX AND GRAVE" -> 7873
      [] name = "LATIN CAPITAL LETTER E WITH CIRCUMFLEX AND HOOK ABOVE" -> 7874
      [] name = "LATIN SMALL LETTER E WITH CIRCUMFLEX AND HOOK ABOVE" -> 7875
      [] name = "LATIN CAPITAL LETTER E WITH CIRCUMFLEX AND TILDE" -> 7876
      [] name = "LATIN SMALL LETTER E WITH CIRCUMFLEX AND TILDE" -> 7877
      [] name = "LATIN CAPITAL LETTER E WITH CIRCUMFLEX AND DOT BELOW" -> 7878
      [] name = "LATIN SMALL LETTER E WITH CIRCUMFLEX AND DOT BELOW" -> 7879
      [] name = "LATIN CAPITAL LETTER I WITH HOOK ABOVE" -> 7880
      [] name = "LATIN SMALL LETTER I WITH HOOK ABOVE" -> 7881
      [] name = "LATIN CAPITAL LETTER I WITH DOT BELOW" -> 7882
      [] name = "LATIN SMALL LETTER I WITH DOT BELOW" -> 7883
      [] name = "LATIN CAPITAL LETTER O WITH DOT BELOW" -> 7884
      [] name = "LATIN SMALL LETTER O WITH DOT BELOW" -> 7885
      [] name = "LATIN CAPITAL LETTER O WITH HOOK ABOVE" -> 7886
      [] name = "LATIN SMALL LETTER O WITH HOOK ABOVE" -> 7887
      [] name = "LATIN CAPITAL LETTER O WITH CIRCUMFLEX AND ACUTE" -> 7888
      [] name = "LATIN SMALL LETTER O WITH CIRCUMFLEX AND ACUTE" -> 7889
      [] name = "LATIN CAPITAL LETTER O WITH CIRCUMFLEX AND GRAVE" -> 7890
      [] name = "LATIN SMALL LETTER O WITH CIRCUMFLEX AND GRAVE" -> 7891
      [] name = "LATIN CAPITAL LETTER O WITH CIRCUMFLEX AND HOOK ABOVE" -> 7892
      [] name = "LATIN SMALL LETTER O WITH CIRCUMFLEX AND HOOK ABOVE" -> 7893
      [] name = "LATIN CAPITAL LETTER O WITH CIRCUMFLEX AND TILDE" -> 7894
      [] name = "LATIN SMALL LETTER O WITH CIRCUMFLEX AND TILDE" -> 7895
      [] name = "LATIN CAPITAL LETTER O WITH CIRCUMFLEX AND DOT BELOW" -> 7896
      [] name = "LATIN SMALL LETTER O WITH CIRCUMFLEX AND DOT BELOW" -> 7897
      [] name = "LATIN CAPITAL LETTER O WITH HORN AND ACUTE" -> 7898
      [] name = "LATIN SMALL LETTER O WITH HORN AND ACUTE" -> 7899
      [] name = "LATIN CAPITAL LETTER O WITH HORN AND GRAVE" -> 7900
      [] name = "LATIN SMALL LETTER O WITH HORN AND GRAVE" -> 7901
      [] name = "LATIN CAPITAL LETTER O WITH HORN AND HOOK ABOVE" -> 7902
      [] name = "LATIN SMALL LETTER O WITH HORN AND HOOK ABOVE" -> 7903
      [] name = "LATIN CAPITAL LETTER O WITH HORN AND TILDE" -> 7904
      [] name = "LATIN SMALL LETTER O WITH HORN AND TILDE" -> 7905
      [] name = "LATIN CAPITAL LETTER O WITH HORN AND DOT BELOW" -> 7906
      [] name = "LATIN SMALL LETTER O WITH HORN AND DOT BELOW" -> 7907
      [] name = "LATIN CAPITAL LETTER U WITH DOT BELOW" -> 7908
      [] name = "LATIN SMALL LETTER U WITH DOT BELOW" -> 7909
      [] name = "LATIN CAPITAL LETTER U WITH HOOK ABOVE" -> 7910
      [] name = "LATIN SMALL LETTER U WITH HOOK ABOVE" -> 7911
      [] name = "LATIN CAPITAL LETTER U WITH HORN AND ACUTE" -> 7912
      [] name = "LATIN SMALL LETTER U WITH HORN AND ACUTE" -> 7913
      [] name = "LATIN CAPITAL LETTER U WITH HORN AND GRAVE" -> 7914
      [] name = "LATIN SMALL LETTER U WITH HORN AND GRAVE" -> 7915
      [] name = "LATIN CAPITAL LETTER U WITH HORN AND HOOK ABOVE" -> 7916
      [] name = "LATIN SMALL LETTER U WITH HORN AND HOOK ABOVE" -> 7917
      [] name = "LATIN CAPITAL LETTER U WITH HORN AND TILDE" -> 7918
      [] name = "LATIN SMALL LETTER U WITH HORN AND TILDE" -> 7919
      [] name = "LATIN CAPITAL LETTER U WITH HORN AND DOT BELOW" -> 7920
      [] name = "LATIN SMALL LETTER U WITH HORN AND DOT BELOW" -> 7921
      [] name = "LATIN CAPITAL LETTER Y WITH GRAVE" -> 7922
      [] name = "LATIN SMALL LETTER Y WITH GRAVE" -> 7923
      [] name = "LATIN CAPITAL LETTER Y WITH DOT BELOW" -> 7924
      [] name = "LATIN SMALL LETTER Y WITH DOT BELOW" -> 7925
      [] name = "LATIN CAPITAL LETTER Y WITH HOOK ABOVE" -> 7926
      [] name = "LATIN SMALL LETTER Y WITH HOOK ABOVE" -> 7927
      [] name = "LATIN CAPITAL LETTER Y WITH TILDE" -> 7928
      [] name = "LATIN SMALL LETTER Y WITH TILDE" -> 7929
      [] name = "LATIN CAPITAL LETTER MIDDLE-WELSH LL" -> 7930
      [] name = "LATIN SMALL LETTER MIDDLE-WELSH LL" -> 7931
      [] name = "LATIN CAPITAL LETTER MIDDLE-WELSH V" -> 7932
      [] name = "LATIN SMALL LETTER MIDDLE-WELSH V" -> 7933
      [] name = "LATIN CAPITAL LETTER Y WITH LOOP" -> 7934
      [] name = "LATIN SMALL LETTER Y WITH LOOP" -> 7935
      [] name = "GREEK SMALL LETTER ALPHA WITH PSILI" -> 7936
      [] name = "GREEK SMALL LETTER ALPHA WITH DASIA" -> 7937
      [] name = "GREEK SMALL LETTER ALPHA WITH PSILI AND VARIA" -> 7938
      [] name = "GREEK SMALL LETTER ALPHA WITH DASIA AND VARIA" -> 7939
      [] name = "GREEK SMALL LETTER ALPHA WITH PSILI AND OXIA" -> 7940
      [] name = "GREEK SMALL LETTER ALPHA WITH DASIA AND OXIA" -> 7941
      [] name = "GREEK SMALL LETTER ALPHA WITH PSILI AND PERISPOMENI" -> 7942
      [] name = "GREEK SMALL LETTER ALPHA WITH DASIA AND PERISPOMENI" -> 7943
      [] name = "GREEK CAPITAL LETTER ALPHA WITH PSILI" -> 7944
      [] name = "GREEK CAPITAL LETTER ALPHA WITH DASIA" -> 7945
      [] name = "GREEK CAPITAL LETTER ALPHA WITH PSILI AND VARIA" -> 7946
      [] name = "GREEK CAPITAL LETTER ALPHA WITH DASIA AND VARIA" -> 7947
      [] name = "GREEK CAPITAL LETTER ALPHA WITH PSILI AND OXIA" -> 7948
      [] name = "GREEK CAPITAL LETTER ALPHA WITH DASIA AND OXIA" -> 7949
      [] name = "GREEK CAPITAL LETTER ALPHA WITH PSILI AND PERISPOMENI" -> 7950
      [] name = "GREEK CAPITAL LETTER ALPHA WITH DASIA AND PERISPOMENI" -> 7951
      [] name = "GREEK SMALL LETTER EPSILON WITH PSILI" -> 7952
      [] name = "GREEK SMALL LETTER EPSILON WITH DASIA" -> 7953
      [] name = "GREEK SMALL LETTER EPSILON WITH PSILI AND VARIA" -> 7954
      [] name = "GREEK SMALL LETTER EPSILON WITH DASIA AND VARIA" -> 7955
      [] name = "GREEK SMALL LETTER EPSILON WITH PSILI AND OXIA" -> 7956
      [] name = "GREEK SMALL LETTER EPSILON WITH DASIA AND OXIA" -> 7957
      [] name = "GREEK CAPITAL LETTER EPSILON WITH PSILI" -> 7960
      [] name = "GREEK CAPITAL LETTER EPSILON WITH DASIA" -> 7961
      [] name = "GREEK CAPITAL LETTER EPSILON WITH PSILI AND VARIA" -> 7962
      [] name = "GREEK CAPITAL LETTER EPSILON WITH DASIA AND VARIA" -> 7963
      [] name = "GREEK CAPITAL LETTER EPSILON WITH PSILI AND OXIA" -> 7964
      [] name = "GREEK CAPITAL LETTER EPSILON WITH DASIA AND OXIA" -> 7965
      [] name = "GREEK SMALL LETTER ETA WITH PSILI" -> 7968
      [] name = "GREEK SMALL LETTER ETA WITH DASIA" -> 7969
      [] name = "GREEK SMALL LETTER ETA WITH PSILI AND VARIA" -> 7970
      [] name = "GREEK SMALL LETTER ETA WITH DASIA AND VARIA" -> 7971
      [] name = "GREEK SMALL LETTER ETA WITH PSILI AND OXIA" -> 7972
      [] name = "GREEK SMALL LETTER ETA WITH DASIA AND OXIA" -> 7973
      [] name = "GREEK SMALL LETTER ETA WITH PSILI AND PERISPOMENI" -> 7974
      [] name = "GREEK SMALL LETTER ETA WITH DASIA AND PERISPOMENI" -> 7975
      [] name = "GREEK CAPITAL LETTER ETA WITH PSILI" -> 7976
      [] name = "GREEK CAPITAL LETTER ETA WITH DASIA" -> 7977
      [] name = "GREEK CAPITAL LETTER ETA WITH PSILI AND VARIA" -> 7978
      [] name = "GREEK CAPITAL LETTER ETA WITH DASIA AND VARIA" -> 7979
      [] name = "GREEK CAPITAL LETTER ETA WITH PSILI AND OXIA" -> 7980
      [] name = "GREEK CAPITAL LETTER ETA WITH DASIA AND OXIA" -> 7981
      [] name = "GREEK CAPITAL LETTER ETA WITH PSILI AND PERISPOMENI" -> 7982
      [] name = "GREEK CAPITAL LETTER ETA WITH DASIA AND PERISPOMENI" -> 7983
      [] name = "GREEK SMALL LETTER IOTA WITH PSILI" -> 7984
      [] name = "GREEK SMALL LETTER IOTA WITH DASIA" -> 7985
      [] name = "GREEK SMALL LETTER IOTA WITH PSILI AND VARIA" -> 7986
      [] name = "GREEK SMALL LETTER IOTA WITH DASIA AND VARIA" -> 7987
      [] name = "GREEK SMALL LETTER IOTA WITH PSILI AND OXIA" -> 7988
      [] name = "GREEK SMALL LETTER IOTA WITH DASIA AND OXIA" -> 7989
      [] name = "GREEK SMALL LETTER IOTA WITH PSILI AND PERISPOMENI" -> 7990
      [] name = "GREEK SMALL LETTER IOTA WITH DASIA AND PERISPOMENI" -> 7991
      [] name = "GREEK CAPITAL LETTER IOTA WITH PSILI" -> 7992
      [] name = "GREEK CAPITAL LETTER IOTA WITH DASIA" -> 7993
      [] name = "GREEK CAPITAL LETTER IOTA WITH PSILI AND VARIA" -> 7994
      [] name = "GREEK CAPITAL LETTER IOTA WITH DASIA AND VARIA" -> 7995
      [] name = "GREEK CAPITAL LETTER IOTA WITH PSILI AND OXIA" -> 7996
      [] name = "GREEK CAPITAL LETTER IOTA WITH DASIA AND OXIA" -> 7997
      [] name = "GREEK CAPITAL LETTER IOTA WITH PSILI AND PERISPOMENI" -> 7998
      [] name = "GREEK CAPITAL LETTER IOTA WITH DASIA AND PERISPOMENI" -> 7999
      [] name = "GREEK SMALL LETTER OMICRON WITH PSILI" -> 8000
      [] name = "GREEK SMALL LETTER OMICRON WITH DASIA" -> 8001
      [] name = "GREEK SMALL LETTER OMICRON WITH PSILI AND VARIA" -> 8002
      [] name = "GREEK SMALL LETTER OMICRON WITH DASIA AND VARIA" -> 8003
      [] name = "GREEK SMALL LETTER OMICRON WITH PSILI AND OXIA" -> 8004
      [] name = "GREEK SMALL LETTER OMICRON WITH DASIA AND OXIA" -> 8005
      [] name = "GREEK CAPITAL LETTER OMICRON WITH PSILI" -> 8008
      [] name = "GREEK CAPITAL LETTER OMICRON WITH DASIA" -> 8009
      [] name = "GREEK CAPITAL LETTER OMICRON WITH PSILI AND VARIA" -> 8010
      [] name = "GREEK CAPITAL LETTER OMICRON WITH DASIA AND VARIA" -> 8011
      [] name = "GREEK CAPITAL LETTER OMICRON WITH PSILI AND OXIA" -> 8012
      [] name = "GREEK CAPITAL LETTER OMICRON WITH DASIA AND OXIA" -> 8013
      [] name = "GREEK SMALL LETTER UPSILON WITH PSILI" -> 8016
      [] name = "GREEK SMALL LETTER UPSILON WITH DASIA" -> 8017
      [] name = "GREEK SMALL LETTER UPSILON WITH PSILI AND VARIA" -> 8018
      [] name = "GREEK SMALL LETTER UPSILON WITH DASIA AND VARIA" -> 8019
      [] name = "GREEK SMALL LETTER UPSILON WITH PSILI AND OXIA" -> 8020
      [] name = "GREEK SMALL LETTER UPSILON WITH DASIA AND OXIA" -> 8021
      [] name = "GREEK SMALL LETTER UPSILON WITH PSILI AND PERISPOMENI" -> 8022
      [] name = "GREEK SMALL LETTER UPSILON WITH DASIA AND PERISPOMENI" -> 8023
      [] name = "GREEK CAPITAL LETTER UPSILON WITH DASIA" -> 8025
      [] name = "GREEK CAPITAL LETTER UPSILON WITH DASIA AND VARIA" -> 8027
      [] name = "GREEK CAPITAL LETTER UPSILON WITH DASIA AND OXIA" -> 8029
      [] name = "GREEK CAPITAL LETTER UPSILON WITH DASIA AND PERISPOMENI" -> 8031
      [] name = "GREEK SMALL LETTER OMEGA WITH PSILI" -> 8032
      [] name = "GREEK SMALL LETTER OMEGA WITH DASIA" -> 8033
      [] name = "GREEK SMALL LETTER OMEGA WITH PSILI AND VARIA" -> 8034
      [] name = "GREEK SMALL LETTER OMEGA WITH DASIA AND VARIA" -> 8035
      [] name = "GREEK SMALL LETTER OMEGA WITH PSILI AND OXIA" -> 8036
      [] name = "GREEK SMALL LETTER OMEGA WITH DASIA AND OXIA" -> 8037
      [] name = "GREEK SMALL LETTER OMEGA WITH PSILI AND PERISPOMENI" -> 8038
      [] name = "GREEK SMALL LETTER OMEGA WITH DASIA AND PERISPOMENI" -> 8039
      [] name = "GREEK CAPITAL LETTER OMEGA WITH PSILI" -> 8040
      [] name = "GREEK CAPITAL LETTER OMEGA WITH DASIA" -> 8041
      [] name = "GREEK CAPITAL LETTER OMEGA WITH PSILI AND VARIA" -> 8042
      [] name = "GREEK CAPITAL LETTER OMEGA WITH DASIA AND VARIA" -> 8043
      [] name = "GREEK CAPITAL LETTER OMEGA WITH PSILI AND OXIA" -> 8044
      [] name = "GREEK CAPITAL LETTER OMEGA WITH DASIA AND OXIA" -> 8045
      [] name = "GREEK CAPITAL LETTER OMEGA WITH PSILI AND PERISPOMENI" -> 8046
      [] name = "GREEK CAPITAL LETTER OMEGA WITH DASIA AND PERISPOMENI" -> 8047
      [] name = "GREEK SMALL LETTER ALPHA WITH VARIA" -> 8048
      [] name = "GREEK SMALL LETTER ALPHA WITH OXIA" -> 8049
      [] name = "GREEK SMALL LETTER EPSILON WITH VARIA" -> 8050
      [] name = "GREEK SMALL LETTER EPSILON WITH OXIA" -> 8051
      [] name = "GREEK SMALL LETTER ETA WITH VARIA" -> 8052
      [] name = "GREEK SMALL LETTER ETA WITH OXIA" -> 8053
      [] name = "GREEK SMALL LETTER IOTA WITH VARIA" -> 8054
      [] name = "GREEK SMALL LETTER IOTA WITH OXIA" -> 8055
      [] name = "GREEK SMALL LETTER OMICRON WITH VARIA" -> 8056
      [] name = "GREEK SMALL LETTER OMICRON WITH OXIA" -> 8057
      [] name = "GREEK SMALL LETTER UPSILON WITH VARIA" -> 8058
      [] name = "GREEK SMALL LETTER UPSILON WITH OXIA" -> 8059
      [] name = "GREEK SMALL LETTER OMEGA WITH VARIA" -> 8060
      [] name = "GREEK SMALL LETTER OMEGA WITH OXIA" -> 8061
      [] name = "GREEK SMALL LETTER ALPHA WITH PSILI AND YPOGEGRAMMENI" -> 8064
      [] name = "GREEK SMALL LETTER ALPHA WITH DASIA AND YPOGEGRAMMENI" -> 8065
      [] name = "GREEK SMALL LETTER ALPHA WITH PSILI AND VARIA AND YPOGEGRAMMENI" -> 8066
      [] name = "GREEK SMALL LETTER ALPHA WITH DASIA AND VARIA AND YPOGEGRAMMENI" -> 8067
      [] name = "GREEK SMALL LETTER ALPHA WITH PSILI AND OXIA AND YPOGEGRAMMENI" -> 8068
      [] name = "GREEK SMALL LETTER ALPHA WITH DASIA AND OXIA AND YPOGEGRAMMENI" -> 8069
      [] name = "GREEK SMALL LETTER ALPHA WITH PSILI AND PERISPOMENI AND YPOGEGRAMMENI" -> 8070
      [] name = "GREEK SMALL LETTER ALPHA WITH DASIA AND PERISPOMENI AND YPOGEGRAMMENI" -> 8071
      [] name = "GREEK CAPITAL LETTER ALPHA WITH PSILI AND PROSGEGRAMMENI" -> 8072
      [] name = "GREEK CAPITAL LETTER ALPHA WITH DASIA AND PROSGEGRAMMENI" -> 8073
      [] name = "GREEK CAPITAL LETTER ALPHA WITH PSILI AND VARIA AND PROSGEGRAMMENI" -> 8074
      [] name = "GREEK CAPITAL LETTER ALPHA WITH DASIA AND VARIA AND PROSGEGRAMMENI" -> 8075
      [] name = "GREEK CAPITAL LETTER ALPHA WITH PSILI AND OXIA AND PROSGEGRAMMENI" -> 8076
      [] name = "GREEK CAPITAL LETTER ALPHA WITH DASIA AND OXIA AND PROSGEGRAMMENI" -> 8077
      [] name = "GREEK CAPITAL LETTER ALPHA WITH PSILI AND PERISPOMENI AND PROSGEGRAMMENI" -> 8078
      [] name = "GREEK CAPITAL LETTER ALPHA WITH DASIA AND PERISPOMENI AND PROSGEGRAMMENI" -> 8079
      [] name = "GREEK SMALL LETTER ETA WITH PSILI AND YPOGEGRAMMENI" -> 8080
      [] name = "GREEK SMALL LETTER ETA WITH DASIA AND YPOGEGRAMMENI" -> 8081
      [] name = "GREEK SMALL LETTER ETA WITH PSILI AND VARIA AND YPOGEGRAMMENI" -> 8082
      [] name = "GREEK SMALL LETTER ETA WITH DASIA AND VARIA AND YPOGEGRAMMENI" -> 8083
      [] name = "GREEK SMALL LETTER ETA WITH PSILI AND OXIA AND YPOGEGRAMMENI" -> 8084
      [] name = "GREEK SMALL LETTER ETA WITH DASIA AND OXIA AND YPOGEGRAMMENI" -> 8085
      [] name = "GREEK SMALL LETTER ETA WITH PSILI AND PERISPOMENI AND YPOGEGRAMMENI" -> 8086
      [] name = "GREEK SMALL LETTER ETA WITH DASIA AND PERISPOMENI AND YPOGEGRAMMENI" -> 8087
      [] name = "GREEK CAPITAL LETTER ETA WITH PSILI AND PROSGEGRAMMENI" -> 8088
      [] name = "GREEK CAPITAL LETTER ETA WITH DASIA AND PROSGEGRAMMENI" -> 8089
      [] name = "GREEK CAPITAL LETTER ETA WITH PSILI AND VARIA AND PROSGEGRAMMENI" -> 8090
      [] name = "GREEK CAPITAL LETTER ETA WITH DASIA AND VARIA AND PROSGEGRAMMENI" -> 8091
      [] name = "GREEK CAPITAL LETTER ETA WITH PSILI AND OXIA AND PROSGEGRAMMENI" -> 8092
      [] name = "GREEK CAPITAL LETTER ETA WITH DASIA AND OXIA AND PROSGEGRAMMENI" -> 8093
      [] name = "GREEK CAPITAL LETTER ETA WITH PSILI AND PERISPOMENI AND PROSGEGRAMMENI" -> 8094
      [] name = "GREEK CAPITAL LETTER ETA WITH DASIA AND PERISPOMENI AND PROSGEGRAMMENI" -> 8095
      [] name = "GREEK SMALL LETTER OMEGA WITH PSILI AND YPOGEGRAMMENI" -> 8096
      [] name = "GREEK SMALL LETTER OMEGA WITH DASIA AND YPOGEGRAMMENI" -> 8097
      [] name = "GREEK SMALL LETTER OMEGA WITH PSILI AND VARIA AND YPOGEGRAMMENI" -> 8098
      [] name = "GREEK SMALL LETTER OMEGA WITH DASIA AND VARIA AND YPOGEGRAMMENI" -> 8099
      [] name = "GREEK SMALL LETTER OMEGA WITH PSILI AND OXIA AND YPOGEGRAMMENI" -> 8100
      [] name = "GREEK SMALL LETTER OMEGA WITH DASIA AND OXIA AND YPOGEGRAMMENI" -> 8101
      [] name = "GREEK SMALL LETTER OMEGA WITH PSILI AND PERISPOMENI AND YPOGEGRAMMENI" -> 8102
      [] name = "GREEK SMALL LETTER OMEGA WITH DASIA AND PERISPOMENI AND YPOGEGRAMMENI" -> 8103
      [] name = "GREEK CAPITAL LETTER OMEGA WITH PSILI AND PROSGEGRAMMENI" -> 8104
      [] name = "GREEK CAPITAL LETTER OMEGA WITH DASIA AND PROSGEGRAMMENI" -> 8105
      [] name = "GREEK CAPITAL LETTER OMEGA WITH PSILI AND VARIA AND PROSGEGRAMMENI" -> 8106
      [] name = "GREEK CAPITAL LETTER OMEGA WITH DASIA AND VARIA AND PROSGEGRAMMENI" -> 8107
      [] name = "GREEK CAPITAL LETTER OMEGA WITH PSILI AND OXIA AND PROSGEGRAMMENI" -> 8108
      [] name = "GREEK CAPITAL LETTER OMEGA WITH DASIA AND OXIA AND PROSGEGRAMMENI" -> 8109
      [] name = "GREEK CAPITAL LETTER OMEGA WITH PSILI AND PERISPOMENI AND PROSGEGRAMMENI" -> 8110
      [] name = "GREEK CAPITAL LETTER OMEGA WITH DASIA AND PERISPOMENI AND PROSGEGRAMMENI" -> 8111
      [] name = "GREEK SMALL LETTER ALPHA WITH VRACHY" -> 8112
      [] name = "GREEK SMALL LETTER ALPHA WITH MACRON" -> 8113
      [] name = "GREEK SMALL LETTER ALPHA WITH VARIA AND YPOGEGRAMMENI" -> 8114
      [] name = "GREEK SMALL LETTER ALPHA WITH YPOGEGRAMMENI" -> 8115
      [] name = "GREEK SMALL LETTER ALPHA WITH OXIA AND YPOGEGRAMMENI" -> 8116
      [] name = "GREEK SMALL LETTER ALPHA WITH PERISPOMENI" -> 8118
      [] name = "GREEK SMALL LETTER ALPHA WITH PERISPOMENI AND YPOGEGRAMMENI" -> 8119
      [] name = "GREEK CAPITAL LETTER ALPHA WITH VRACHY" -> 8120
      [] name = "GREEK CAPITAL LETTER ALPHA WITH MACRON" -> 8121
      [] name = "GREEK CAPITAL LETTER ALPHA WITH VARIA" -> 8122
      [] name = "GREEK CAPITAL LETTER ALPHA WITH OXIA" -> 8123
      [] name = "GREEK CAPITAL LETTER ALPHA WITH PROSGEGRAMMENI" -> 8124
      [] name = "GREEK KORONIS" -> 8125
      [] name = "GREEK PROSGEGRAMMENI" -> 8126
      [] name = "GREEK PSILI" -> 8127
      [] name = "GREEK PERISPOMENI" -> 8128
      [] name = "GREEK DIALYTIKA AND PERISPOMENI" -> 8129
      [] name = "GREEK SMALL LETTER ETA WITH VARIA AND YPOGEGRAMMENI" -> 8130
      [] name = "GREEK SMALL LETTER ETA WITH YPOGEGRAMMENI" -> 8131
      [] name = "GREEK SMALL LETTER ETA WITH OXIA AND YPOGEGRAMMENI" -> 8132
      [] name = "GREEK SMALL LETTER ETA WITH PERISPOMENI" -> 8134
      [] name = "GREEK SMALL LETTER ETA WITH PERISPOMENI AND YPOGEGRAMMENI" -> 8135
      [] name = "GREEK CAPITAL LETTER EPSILON WITH VARIA" -> 8136
      [] name = "GREEK CAPITAL LETTER EPSILON WITH OXIA" -> 8137
      [] name = "GREEK CAPITAL LETTER ETA WITH VARIA" -> 8138
      [] name = "GREEK CAPITAL LETTER ETA WITH OXIA" -> 8139
      [] name = "GREEK CAPITAL LETTER ETA WITH PROSGEGRAMMENI" -> 8140
      [] name = "GREEK PSILI AND VARIA" -> 8141
      [] name = "GREEK PSILI AND OXIA" -> 8142
      [] name = "GREEK PSILI AND PERISPOMENI" -> 8143
      [] name = "GREEK SMALL LETTER IOTA WITH VRACHY" -> 8144
      [] name = "GREEK SMALL LETTER IOTA WITH MACRON" -> 8145
      [] name = "GREEK SMALL LETTER IOTA WITH DIALYTIKA AND VARIA" -> 8146
      [] name = "GREEK SMALL LETTER IOTA WITH DIALYTIKA AND OXIA" -> 8147
      [] name = "GREEK SMALL LETTER IOTA WITH PERISPOMENI" -> 8150
      [] name = "GREEK SMALL LETTER IOTA WITH DIALYTIKA AND PERISPOMENI" -> 8151
      [] name = "GREEK CAPITAL LETTER IOTA WITH VRACHY" -> 8152
      [] name = "GREEK CAPITAL LETTER IOTA WITH MACRON" -> 8153
      [] name = "GREEK CAPITAL LETTER IOTA WITH VARIA" -> 8154
      [] name = "GREEK CAPITAL LETTER IOTA WITH OXIA" -> 8155
      [] name = "GREEK DASIA AND VARIA" -> 8157
      [] name = "GREEK DASIA AND OXIA" -> 8158
      [] name = "GREEK DASIA AND PERISPOMENI" -> 8159
      [] name = "GREEK SMALL LETTER UPSILON WITH VRACHY" -> 8160
      [] name = "GREEK SMALL LETTER UPSILON WITH MACRON" -> 8161
      [] name = "GREEK SMALL LETTER UPSILON WITH DIALYTIKA AND VARIA" -> 8162
      [] name = "GREEK SMALL LETTER UPSILON WITH DIALYTIKA AND OXIA" -> 8163
      [] name = "GREEK SMALL LETTER RHO WITH PSILI" -> 8164
      [] name = "GREEK SMALL LETTER RHO WITH DASIA" -> 8165
      [] name = "GREEK SMALL LETTER UPSILON WITH PERISPOMENI" -> 8166
      [] name = "GREEK SMALL LETTER UPSILON WITH DIALYTIKA AND PERISPOMENI" -> 8167
      [] name = "GREEK CAPITAL LETTER UPSILON WITH VRACHY" -> 8168
      [] name = "GREEK CAPITAL LETTER UPSILON WITH MACRON" -> 8169
      [] name = "GREEK CAPITAL LETTER UPSILON WITH VARIA" -> 8170
      [] name = "GREEK CAPITAL LETTER UPSILON WITH OXIA" -> 8171
      [] name = "GREEK CAPITAL LETTER RHO WITH DASIA" -> 8172
      [] name = "GREEK DIALYTIKA AND VARIA" -> 8173
      [] name = "GREEK DIALYTIKA AND OXIA" -> 8174
      [] name = "GREEK VARIA" -> 8175
      [] name = "GREEK SMALL LETTER OMEGA WITH VARIA AND YPOGEGRAMMENI" -> 8178
      [] name = "GREEK SMALL LETTER OMEGA WITH YPOGEGRAMMENI" -> 8179
      [] name = "GREEK SMALL LETTER OMEGA WITH OXIA AND YPOGEGRAMMENI" -> 8180
      [] name = "GREEK SMALL LETTER OMEGA WITH PERISPOMENI" -> 8182
      [] name = "GREEK SMALL LETTER OMEGA WITH PERISPOMENI AND YPOGEGRAMMENI" -> 8183
      [] name = "GREEK CAPITAL LETTER OMICRON WITH VARIA" -> 8184
      [] name = "GREEK CAPITAL LETTER OMICRON WITH OXIA" -> 8185
      [] name = "GREEK CAPITAL LETTER OMEGA WITH VARIA" -> 8186
      [] name = "GREEK CAPITAL LETTER OMEGA WITH OXIA" -> 8187
      [] name = "GREEK CAPITAL LETTER OMEGA WITH PROSGEGRAMMENI" -> 8188
      [] name = "GREEK OXIA" -> 8189
      [] name = "GREEK DASIA" -> 8190
      [] name = "EN QUAD" -> 8192
      [] name = "EM QUAD" -> 8193
      [] name = "EN SPACE" -> 8194
      [] name = "EM SPACE" -> 8195
      [] name = "THREE-PER-EM SPACE" -> 8196
      [] name = "FOUR-PER-EM SPACE" -> 8197
      [] name = "SIX-PER-EM SPACE" -> 8198
      [] name = "FIGURE SPACE" -> 8199
      [] name = "PUNCTUATION SPACE" -> 8200
      [] name = "THIN SPACE" -> 8201
      [] name = "HAIR SPACE" -> 8202
      [] name = "ZERO WIDTH SPACE" -> 8203
      [] name = "ZWSP" -> 8203
      [] name = "ZERO WIDTH NON-JOINER" -> 8204
      [] name = "ZWNJ" -> 8204
      [] name = "ZERO WIDTH JOINER" -> 8205
      [] name = "ZWJ" -> 8205
      [] name = "LEFT-TO-RIGHT MARK" -> 8206
      [] name = "LRM" -> 8206
      [] name = "RIGHT-TO-LEFT MARK" -> 8207
      [] name = "RLM" -> 8207
      [] name = "HYPHEN" -> 8208
      [] name = "NON-BREAKING HYPHEN" -> 8209
      [] name = "FIGURE DASH" -> 8210
      [] name = "EN DASH" -> 8211
      [] name = "EM DASH" -> 8212
      [] name = "HORIZONTAL BAR" -> 8213
      [] name = "DOUBLE VERTICAL LINE" -> 8214
      [] name = "DOUBLE LOW LINE" -> 8215
      [] name = "LEFT SINGLE QUOTATION MARK" -> 8216
      [] name = "RIGHT SINGLE QUOTATION MARK" -> 8217
      [] name = "SINGLE LOW-9 QUOTATION MARK" -> 8218
      [] name = "SINGLE HIGH-REVERSED-9 QUOTATION MARK" -> 8219
      [] name = "LEFT DOUBLE QUOTATION MARK" -> 8220
      [] name = "RIGHT DOUBLE QUOTATION MARK" -> 8221
      [] name = "DOUBLE LOW-9 QUOTATION MARK" -> 8222
      [] name = "DOUBLE HIGH-REVERSED-9 QUOTATION MARK" -> 8223
      [] name = "DAGGER" -> 8224
      [] name = "DOUBLE DAGGER" -> 8225
      [] name = "BULLET" -> 8226
      [] name = "TRIANGULAR BULLET" -> 8227
      [] name = "ONE DOT LEADER" -> 8228
      [] name = "TWO DOT LEADER" -> 8229
      [] name = "HORIZONTAL ELLIPSIS" -> 8230
      [] name = "HYPHENATION POINT" -> 8231
      [] name = "LINE SEPARATOR" -> 8232
      [] name = "PARAGRAPH SEPARATOR" -> 8233
      [] name = "LEFT-TO-RIGHT EMBEDDING" -> 8234
      [] name = "LRE" -> 8234
      [] name = "RIGHT-TO-LEFT EMBEDDING" -> 8235
      [] name = "RLE" -> 8235
      [] name = "PDF" -> 8236
      [] name = "POP DIRECTIONAL FORMATTING" -> 8236
      [] name = "LEFT-TO-RIGHT OVERRIDE" -> 8237
      [] name = "LRO" -> 8237
      [] name = "RIGHT-TO-LEFT OVERRIDE" -> 8238
      [] name = "RLO" -> 8238
      [] name = "NARROW NO-BREAK SPACE" -> 8239
      [] name = "NNBSP" -> 8239
      [] name = "PER MILLE SIGN" -> 8240
      [] name = "PER TEN THOUSAND SIGN" -> 8241
      [] name = "PRIME" -> 8242
      [] name = "DOUBLE PRIME" -> 8243
      [] name = "TRIPLE PRIME" -> 8244
      [] name = "REVERSED PRIME" -> 8245
      [] name = "REVERSED DOUBLE PRIME" -> 8246
      [] name = "REVERSED TRIPLE PRIME" -> 8247
      [] name = "CARET" -> 8248
      [] name = "SINGLE LEFT-POINTING ANGLE QUOTATION MARK" -> 8249
      [] name = "SINGLE RIGHT-POINTING ANGLE QUOTATION MARK" -> 8250
      [] name = "REFERENCE MARK" -> 8251
      [] name = "DOUBLE EXCLAMATION MARK" -> 8252
      [] name = "INTERROBANG" -> 8253
      [] name = "OVERLINE" -> 8254
      [] name = "UNDERTIE" -> 8255
      [] name = "CHARACTER TIE" -> 8256
      [] name = "CARET INSERTION POINT" -> 8257
      [] name = "ASTERISM" -> 8258
      [] name = "HYPHEN BULLET" -> 8259
      [] name = "FRACTION SLASH" -> 8260
      [] name = "LEFT SQUARE BRACKET WITH QUILL" -> 8261
      [] name = "RIGHT SQUARE BRACKET WITH QUILL" -> 8262
      [] name = "DOUBLE QUESTION MARK" -> 8263
      [] name = "QUESTION EXCLAMATION MARK" -> 8264
      [] name = "EXCLAMATION QUESTION MARK" -> 8265
      [] name = "TIRONIAN SIGN ET" -> 8266
      [] name = "REVERSED PILCROW SIGN" -> 8267
      [] name = "BLACK LEFTWARDS BULLET" -> 8268
      [] name = "BLACK RIGHTWARDS BULLET" -> 8269
      [] name = "LOW ASTERISK" -> 8270
      [] name = "REVERSED SEMICOLON" -> 8271
      [] name = "CLOSE UP" -> 8272
      [] name = "TWO ASTERISKS ALIGNED VERTICALLY" -> 8273
      [] name = "COMMERCIAL MINUS SIGN" -> 8274
      [] name = "SWUNG DASH" -> 8275
      [] name = "INVERTED UNDERTIE" -> 8276
      [] name = "FLOWER PUNCTUATION MARK" -> 8277
      [] name = "THREE DOT PUNCTUATION" -> 8278
      [] name = "QUADRUPLE PRIME" -> 8279
      [] name = "FOUR DOT PUNCTUATION" -> 8280
      [] name = "FIVE DOT PUNCTUATION" -> 8281
      [] name = "TWO DOT PUNCTUATION" -> 8282
      [] name = "FOUR DOT MARK" -> 8283
      [] name = "DOTTED CROSS" -> 8284
      [] name = "TRICOLON" -> 8285
      [] name = "VERTICAL FOUR DOTS" -> 8286
      [] name = "MEDIUM MATHEMATICAL SPACE" -> 8287
      [] name = "MMSP" -> 8287
      [] name = "WJ" -> 8288
      [] name = "WORD JOINER" -> 8288
      [] name = "FUNCTION APPLICATION" -> 8289
      [] name = "INVISIBLE TIMES" -> 8290
      [] name = "INVISIBLE SEPARATOR" -> 8291
      [] name = "INVISIBLE PLUS" -> 8292
      [] name = "LEFT-TO-RIGHT ISOLATE" -> 8294
      [] name = "LRI" -> 8294
      [] name = "RIGHT-TO-LEFT ISOLATE" -> 8295
      [] name = "RLI" -> 8295
      [] name = "FIRST STRONG ISOLATE" -> 8296
      [] name = "FSI" -> 8296
      [] name = "PDI" -> 8297
      [] name = "POP DIRECTIONAL ISOLATE" -> 8297
      [] name = "INHIBIT SYMMETRIC SWAPPING" -> 8298
      [] name = "ACTIVATE SYMMETRIC SWAPPING" -> 8299
      [] name = "INHIBIT ARABIC FORM SHAPING" -> 8300
      [] name = "ACTIVATE ARABIC FORM SHAPING" -> 8301
      [] name = "NATIONAL DIGIT SHAPES" -> 8302
      [] name = "NOMINAL DIGIT SHAPES" -> 8303
      [] name = "SUPERSCRIPT ZERO" -> 8304
      [] name = "SUPERSCRIPT LATIN SMALL LETTER I" -> 8305
      [] name = "SUPERSCRIPT FOUR" -> 8308
      [] name = "SUPERSCRIPT FIVE" -> 8309
      [] name = "SUPERSCRIPT SIX" -> 8310
      [] name = "SUPERSCRIPT SEVEN" -> 8311
      [] name = "SUPERSCRIPT EIGHT" -> 8312
      [] name = "SUPERSCRIPT NINE" -> 8313
      [] name = "SUPERSCRIPT PLUS SIGN" -> 8314
      [] name = "SUPERSCRIPT MINUS" -> 8315
      [] name = "SUPERSCRIPT EQUALS SIGN" -> 8316
      [] name = "SUPERSCRIPT LEFT PARENTHESIS" -> 8317
      [] name = "SUPERSCRIPT RIGHT PARENTHESIS" -> 8318
      [] name = "SUPERSCRIPT LATIN SMALL LETTER N" -> 8319
      [] name = "SUBSCRIPT ZERO" -> 8320
      [] name = "SUBSCRIPT ONE" -> 8321
      [] name = "SUBSCRIPT TWO" -> 8322
      [] name = "SUBSCRIPT THREE" -> 8323
      [] name = "SUBSCRIPT FOUR" -> 8324
      [] name = "SUBSCRIPT FIVE" -> 8325
      [] name = "SUBSCRIPT SIX" -> 8326
      [] name = "SUBSCRIPT SEVEN" -> 8327
      [] name = "SUBSCRIPT EIGHT" -> 8328
      [] name = "SUBSCRIPT NINE" -> 8329
      [] name = "SUBSCRIPT PLUS SIGN" -> 8330
      [] name = "SUBSCRIPT MINUS" -> 8331
      [] name = "SUBSCRIPT EQUALS SIGN" -> 8332
      [] name = "SUBSCRIPT LEFT PARENTHESIS" -> 8333
      [] name = "SUBSCRIPT RIGHT PARENTHESIS" -> 8334
      [] name = "LATIN SUBSCRIPT SMALL LETTER A" -> 8336
      [] name = "LATIN SUBSCRIPT SMALL LETTER E" -> 8337
      [] name = "LATIN SUBSCRIPT SMALL LETTER O" -> 8338
      [] name = "LATIN SUBSCRIPT SMALL LETTER X" -> 8339
      [] name = "LATIN SUBSCRIPT SMALL LETTER SCHWA" -> 8340
      [] name = "LATIN SUBSCRIPT SMALL LETTER H" -> 8341
      [] name = "LATIN SUBSCRIPT SMALL LETTER K" -> 8342
      [] name = "LATIN SUBSCRIPT SMALL LETTER L" -> 8343
      [] name = "LATIN SUBSCRIPT SMALL LETTER M" -> 8344
      [] name = "LATIN SUBSCRIPT SMALL LETTER N" -> 8345
      [] name = "LATIN SUBSCRIPT SMALL LETTER P" -> 8346
      [] name = "LATIN SUBSCRIPT SMALL LETTER S" -> 8347
      [] name = "LATIN SUBSCRIPT SMALL LETTER T" -> 8348
      [] name = "EURO-CURRENCY SIGN" -> 8352
      [] name = "COLON SIGN" -> 8353
      [] name = "CRUZEIRO SIGN" -> 8354
      [] name = "FRENCH FRANC SIGN" -> 8355
      [] name = "LIRA SIGN" -> 8356
      [] name = "MILL SIGN" -> 8357
      [] name = "NAIRA SIGN" -> 8358
      [] name = "PESETA SIGN" -> 8359
      [] name = "RUPEE SIGN" -> 8360
      [] name = "WON SIGN" -> 8361
      [] name = "NEW SHEQEL SIGN" -> 8362
      [] name = "DONG SIGN" -> 8363
      [] name = "EURO SIGN" -> 8364
      [] name = "KIP SIGN" -> 8365
      [] name = "TUGRIK SIGN" -> 8366
      [] name = "DRACHMA SIGN" -> 8367
      [] name = "GERMAN PENNY SIGN" -> 8368
      [] name = "PESO SIGN" -> 8369
      [] name = "GUARANI SIGN" -> 8370
      [] name = "AUSTRAL SIGN" -> 8371
      [] name = "HRYVNIA SIGN" -> 8372
      [] name = "CEDI SIGN" -> 8373
      [] name = "LIVRE TOURNOIS SIGN" -> 8374
      [] name = "SPESMILO SIGN" -> 8375
      [] name = "TENGE SIGN" -> 8376
      [] name = "INDIAN RUPEE SIGN" -> 8377
      [] name = "TURKISH LIRA SIGN" -> 8378
      [] name = "NORDIC MARK SIGN" -> 8379
      [] name = "MANAT SIGN" -> 8380
      [] name = "RUBLE SIGN" -> 8381
      [] name = "LARI SIGN" -> 8382
      [] name = "BITCOIN SIGN" -> 8383
      [] name = "SOM SIGN" -> 8384
      [] name = "COMBINING LEFT HARPOON ABOVE" -> 8400
      [] name = "COMBINING RIGHT HARPOON ABOVE" -> 8401
      [] name = "COMBINING LONG VERTICAL LINE OVERLAY" -> 8402
      [] name = "COMBINING SHORT VERTICAL LINE OVERLAY" -> 8403
      [] name = "COMBINING ANTICLOCKWISE ARROW ABOVE" -> 8404
      [] name = "COMBINING CLOCKWISE ARROW ABOVE" -> 8405
      [] name = "COMBINING LEFT ARROW ABOVE" -> 8406
      [] name = "COMBINING RIGHT ARROW ABOVE" -> 8407
      [] name = "COMBINING RING OVERLAY" -> 8408
      [] name = "COMBINING CLOCKWISE RING OVERLAY" -> 8409
      [] name = "COMBINING ANTICLOCKWISE RING OVERLAY" -> 8410
      [] name = "COMBINING THREE DOTS ABOVE" -> 8411
      [] name = "COMBINING FOUR DOTS ABOVE" -> 8412
      [] name = "COMBINING ENCLOSING CIRCLE" -> 8413
      [] name = "COMBINING ENCLOSING SQUARE" -> 8414
      [] name = "COMBINING ENCLOSING DIAMOND" -> 8415
      [] name = "COMBINING ENCLOSING CIRCLE BACKSLASH" -> 8416
      [] name = "COMBINING LEFT RIGHT ARROW ABOVE" -> 8417
      [] name = "COMBINING ENCLOSING SCREEN" -> 8418
      [] name = "COMBINING ENCLOSING KEYCAP" -> 8419
      [] name = "COMBINING ENCLOSING UPWARD POINTING TRIANGLE" -> 8420
      [] name = "COMBINING REVERSE SOLIDUS OVERLAY" -> 8421
      [] name = "COMBINING DOUBLE VERTICAL STROKE OVERLAY" -> 8422
      [] name = "COMBINING ANNUITY SYMBOL" -> 8423
      [] name = "COMBINING TRIPLE UNDERDOT" -> 8424
      [] name = "COMBINING WIDE BRIDGE ABOVE" -> 8425
      [] name = "COMBINING LEFTWARDS ARROW OVERLAY" -> 8426
      [] name = "COMBINING LONG DOUBLE SOLIDUS OVERLAY" -> 8427
      [] name = "COMBINING RIGHTWARDS HARPOON WITH BARB DOWNWARDS" -> 8428
      [] name = "COMBINING LEFTWARDS HARPOON WITH BARB DOWNWARDS" -> 8429
      [] name = "COMBINING LEFT ARROW BELOW" -> 8430
      [] name = "COMBINING RIGHT ARROW BELOW" -> 8431
      [] name = "COMBINING ASTERISK ABOVE" -> 8432
      [] name = "ACCOUNT OF" -> 8448
      [] name = "ADDRESSED TO THE SUBJECT" -> 8449
      [] name = "DOUBLE-STRUCK CAPITAL C" -> 8450
      [] name = "DEGREE CELSIUS" -> 8451
      [] name = "CENTRE LINE SYMBOL" -> 8452
      [] name = "CARE OF" -> 8453
      [] name = "CADA UNA" -> 8454
      [] name = "EULER CONSTANT" -> 8455
      [] name = "SCRUPLE" -> 8456
      [] name = "DEGREE FAHRENHEIT" -> 8457
      [] name = "SCRIPT SMALL G" -> 8458
      [] name = "SCRIPT CAPITAL H" -> 8459
      [] name = "BLACK-LETTER CAPITAL H" -> 8460
      [] name = "DOUBLE-STRUCK CAPITAL H" -> 8461
      [] name = "PLANCK CONSTANT" -> 8462
      [] name = "PLANCK CONSTANT OVER TWO PI" -> 8463
      [] name = "SCRIPT CAPITAL I" -> 8464
      [] name = "BLACK-LETTER CAPITAL I" -> 8465
      [] name = "SCRIPT CAPITAL L" -> 8466
      [] name = "SCRIPT SMALL L" -> 8467
      [] name = "L B BAR SYMBOL" -> 8468
      [] name = "DOUBLE-STRUCK CAPITAL N" -> 8469
      [] name = "NUMERO SIGN" -> 8470
      [] name = "SOUND RECORDING COPYRIGHT" -> 8471
      [] name = "SCRIPT CAPITAL P" -> 8472
      [] name = "WEIERSTRASS ELLIPTIC FUNCTION" -> 8472
      [] name = "DOUBLE-STRUCK CAPITAL P" -> 8473
      [] name = "DOUBLE-STRUCK CAPITAL Q" -> 8474
      [] name = "SCRIPT CAPITAL R" -> 8475
      [] name = "BLACK-LETTER CAPITAL R" -> 8476
      [] name = "DOUBLE-STRUCK CAPITAL R" -> 8477
      [] name = "PRESCRIPTION TAKE" -> 8478
      [] name = "RESPONSE" -> 8479
      [] name = "SERVICE MARK" -> 8480
      [] name = "TELEPHONE SIGN" -> 8481
      [] name = "TRADE MARK SIGN" -> 8482
      [] name = "VERSICLE" -> 8483
      [] name = "DOUBLE-STRUCK CAPITAL Z" -> 8484
      [] name = "OUNCE SIGN" -> 8485
      [] name = "OHM SIGN" -> 8486
      [] name = "INVERTED OHM SIGN" -> 8487
      [] name = "BLACK-LETTER CAPITAL Z" -> 8488
      [] name = "TURNED GREEK SMALL LETTER IOTA" -> 8489
      [] name = "KELVIN SIGN" -> 8490
      [] name = "ANGSTROM SIGN" -> 8491
      [] name = "SCRIPT CAPITAL B" -> 8492
      [] name = "BLACK-LETTER CAPITAL C" -> 8493
      [] name = "ESTIMATED SYMBOL" -> 8494
      [] name = "SCRIPT SMALL E" -> 8495
      [] name = "SCRIPT CAPITAL E" -> 8496
      [] name = "SCRIPT CAPITAL F" -> 8497
      [] name = "TURNED CAPITAL F" -> 8498
      [] name = "SCRIPT CAPITAL M" -> 8499
      [] name = "SCRIPT SMALL O" -> 8500
      [] name = "ALEF SYMBOL" -> 8501
      [] name = "BET SYMBOL" -> 8502
      [] name = "GIMEL SYMBOL" -> 8503
      [] name = "DALET SYMBOL" -> 8504
      [] name = "INFORMATION SOURCE" -> 8505
      [] name = "ROTATED CAPITAL Q" -> 8506
      [] name = "FACSIMILE SIGN" -> 8507
      [] name = "DOUBLE-STRUCK SMALL PI" -> 8508
      [] name = "DOUBLE-STRUCK SMALL GAMMA" -> 8509
      [] name = "DOUBLE-STRUCK CAPITAL GAMMA" -> 8510
      [] name = "DOUBLE-STRUCK CAPITAL PI" -> 8511
      [] name = "DOUBLE-STRUCK N-ARY SUMMATION" -> 8512
      [] name = "TURNED SANS-SERIF CAPITAL G" -> 8513
      [] name = "TURNED SANS-SERIF CAPITAL L" -> 8514
      [] name = "REVERSED SANS-SERIF CAPITAL L" -> 8515
      [] name = "TURNED SANS-SERIF CAPITAL Y" -> 8516
      [] name = "DOUBLE-STRUCK ITALIC CAPITAL D" -> 8517
      [] name = "DOUBLE-STRUCK ITALIC SMALL D" -> 8518
      [] name = "DOUBLE-STRUCK ITALIC SMALL E" -> 8519
      [] name = "DOUBLE-STRUCK ITALIC SMALL I" -> 8520
      [] name = "DOUBLE-STRUCK ITALIC SMALL J" -> 8521
      [] name = "PROPERTY LINE" -> 8522
      [] name = "TURNED AMPERSAND" -> 8523
      [] name = "PER SIGN" -> 8524
      [] name = "AKTIESELSKAB" -> 8525
      [] name = "TURNED SMALL F" -> 8526
      [] name = "SYMBOL FOR SAMARITAN SOURCE" -> 8527
      [] name = "VULGAR FRACTION ONE SEVENTH" -> 8528
      [] name = "VULGAR FRACTION ONE NINTH" -> 8529
      [] name = "VULGAR FRACTION ONE TENTH" -> 8530
      [] name = "VULGAR FRACTION ONE THIRD" -> 8531
      [] name = "VULGAR FRACTION TWO THIRDS" -> 8532
      [] name = "VULGAR FRACTION ONE FIFTH" -> 8533
      [] name = "VULGAR FRACTION TWO FIFTHS" -> 8534
      [] name = "VULGAR FRACTION THREE FIFTHS" -> 8535
      [] name = "VULGAR FRACTION FOUR FIFTHS" -> 8536
      [] name = "VULGAR FRACTION ONE SIXTH" -> 8537
      [] name = "VULGAR FRACTION FIVE SIXTHS" -> 8538
      [] name = "VULGAR FRACTION ONE EIGHTH" -> 8539
      [] name = "VULGAR FRACTION THREE EIGHTHS" -> 8540
      [] name = "VULGAR FRACTION FIVE EIGHTHS" -> 8541
      [] name = "VULGAR FRACTION SEVEN EIGHTHS" -> 8542
      [] name = "FRACTION NUMERATOR ONE" -> 8543
      [] name = "ROMAN NUMERAL ONE" -> 8544
      [] name = "ROMAN NUMERAL TWO" -> 8545
      [] name = "ROMAN NUMERAL THREE" -> 8546
      [] name = "ROMAN NUMERAL FOUR" -> 8547
      [] name = "ROMAN NUMERAL FIVE" -> 8548
      [] name = "ROMAN NUMERAL SIX" -> 8549
      [] name = "ROMAN NUMERAL SEVEN" -> 8550
      [] name = "ROMAN NUMERAL EIGHT" -> 8551
      [] name = "ROMAN NUMERAL NINE" -> 8552
      [] name = "ROMAN NUMERAL TEN" -> 8553
      [] name = "ROMAN NUMERAL ELEVEN" -> 8554
      [] name = "ROMAN NUMERAL TWELVE" -> 8555
      [] name = "ROMAN NUMERAL FIFTY" -> 8556
      [] name = "ROMAN NUMERAL ONE HUNDRED" -> 8557
      [] name = "ROMAN NUMERAL FIVE HUNDRED" -> 8558
      [] name = "ROMAN NUMERAL ONE THOUSAND" -> 8559
      [] name = "SMALL ROMAN NUMERAL ONE" -> 8560
      [] name = "SMALL ROMAN NUMERAL TWO" -> 8561
      [] name = "SMALL ROMAN NUMERAL THREE" -> 8562
      [] name = "SMALL ROMAN NUMERAL FOUR" -> 8563
      [] name = "SMALL ROMAN NUMERAL FIVE" -> 8564
      [] name = "SMALL ROMAN NUMERAL SIX" -> 8565
      [] name = "SMALL ROMAN NUMERAL SEVEN" -> 8566
      [] name = "SMALL ROMAN NUMERAL EIGHT" -> 8567
      [] name = "SMALL ROMAN NUMERAL NINE" -> 8568
      [] name = "SMALL ROMAN NUMERAL TEN" -> 8569
      [] name = "SMALL ROMAN NUMERAL ELEVEN" -> 8570
      [] name = "SMALL ROMAN NUMERAL TWELVE" -> 8571
      [] name = "SMALL ROMAN NUMERAL FIFTY" -> 8572
      [] name = "SMALL ROMAN NUMERAL ONE HUNDRED" -> 8573
      [] name = "SMALL ROMAN NUMERAL FIVE HUNDRED" -> 8574
      [] name = "SMALL ROMAN NUMERAL ONE THOUSAND" -> 8575
      [] name = "ROMAN NUMERAL ONE THOUSAND C D" -> 8576
      [] name = "ROMAN NUMERAL FIVE THOUSAND" -> 8577
      [] name = "ROMAN NUMERAL TEN THOUSAND" -> 8578
      [] name = "ROMAN NUMERAL REVERSED ONE HUNDRED" -> 8579
      [] name = "LATIN SMALL LETTER REVERSED C" -> 8580
      [] name = "ROMAN NUMERAL SIX LATE FORM" -> 8581
      [] name = "ROMAN NUMERAL FIFTY EARLY FORM" -> 8582
      [] name = "ROMAN NUMERAL FIFTY THOUSAND" -> 8583
      [] name = "ROMAN NUMERAL ONE HUNDRED THOUSAND" -> 8584
      [] name = "VULGAR FRACTION ZERO THIRDS" -> 8585
      [] name = "TURNED DIGIT TWO" -> 8586
      [] name = "TURNED DIGIT THREE" -> 8587
      [] name = "LEFTWARDS ARROW" -> 8592
      [] name = "UPWARDS ARROW" -> 8593
      [] name = "RIGHTWARDS ARROW" -> 8594
      [] name = "DOWNWARDS ARROW" -> 8595
      [] name = "LEFT RIGHT ARROW" -> 8596
      [] name = "UP DOWN ARROW" -> 8597
      [] name = "NORTH WEST ARROW" -> 8598
      [] name = "NORTH EAST ARROW" -> 8599
      [] name = "SOUTH EAST ARROW" -> 8600
      [] name = "SOUTH WEST ARROW" -> 8601
      [] name = "LEFTWARDS ARROW WITH STROKE" -> 8602
      [] name = "RIGHTWARDS ARROW WITH STROKE" -> 8603
      [] name = "LEFTWARDS WAVE ARROW" -> 8604
      [] name = "RIGHTWARDS WAVE ARROW" -> 8605
      [] name = "LEFTWARDS TWO HEADED ARROW" -> 8606
      [] name = "UPWARDS TWO HEADED ARROW" -> 8607
      [] name = "RIGHTWARDS TWO HEADED ARROW" -> 8608
      [] name = "DOWNWARDS TWO HEADED ARROW" -> 8609
      [] name = "LEFTWARDS ARROW WITH TAIL" -> 8610
      [] name = "RIGHTWARDS ARROW WITH TAIL" -> 8611
      [] name = "LEFTWARDS ARROW FROM BAR" -> 8612
      [] name = "UPWARDS ARROW FROM BAR" -> 8613
      [] name = "RIGHTWARDS ARROW FROM BAR" -> 8614
      [] name = "DOWNWARDS ARROW FROM BAR" -> 8615
      [] name = "UP DOWN ARROW WITH BASE" -> 8616
      [] name = "LEFTWARDS ARROW WITH HOOK" -> 8617
      [] name = "RIGHTWARDS ARROW WITH HOOK" -> 8618
      [] name = "LEFTWARDS ARROW WITH LOOP" -> 8619
      [] name = "RIGHTWARDS ARROW WITH LOOP" -> 8620
      [] name = "LEFT RIGHT WAVE ARROW" -> 8621
      [] name = "LEFT RIGHT ARROW WITH STROKE" -> 8622
      [] name = "DOWNWARDS ZIGZAG ARROW" -> 8623
      [] name = "UPWARDS ARROW WITH TIP LEFTWARDS" -> 8624
      [] name = "UPWARDS ARROW WITH TIP RIGHTWARDS" -> 8625
      [] name = "DOWNWARDS ARROW WITH TIP LEFTWARDS" -> 8626
      [] name = "DOWNWARDS ARROW WITH TIP RIGHTWARDS" -> 8627
      [] name = "RIGHTWARDS ARROW WITH CORNER DOWNWARDS" -> 8628
      [] name = "DOWNWARDS ARROW WITH CORNER LEFTWARDS" -> 8629
      [] name = "ANTICLOCKWISE TOP SEMICIRCLE ARROW" -> 8630
      [] name = "CLOCKWISE TOP SEMICIRCLE ARROW" -> 8631
      [] name = "NORTH WEST ARROW TO LONG BAR" -> 8632
      [] name = "LEFTWARDS ARROW TO BAR OVER RIGHTWARDS ARROW TO BAR" -> 8633
      [] name = "ANTICLOCKWISE OPEN CIRCLE ARROW" -> 8634
      [] name = "CLOCKWISE OPEN CIRCLE ARROW" -> 8635
      [] name = "LEFTWARDS HARPOON WITH BARB UPWARDS" -> 8636
      [] name = "LEFTWARDS HARPOON WITH BARB DOWNWARDS" -> 8637
      [] name = "UPWARDS HARPOON WITH BARB RIGHTWARDS" -> 8638
      [] name = "UPWARDS HARPOON WITH BARB LEFTWARDS" -> 8639
      [] name = "RIGHTWARDS HARPOON WITH BARB UPWARDS" -> 8640
      [] name = "RIGHTWARDS HARPOON WITH BARB DOWNWARDS" -> 8641
      [] name = "DOWNWARDS HARPOON WITH BARB RIGHTWARDS" -> 8642
      [] name = "DOWNWARDS HARPOON WITH BARB LEFTWARDS" -> 8643
      [] name = "RIGHTWARDS ARROW OVER LEFTWARDS ARROW" -> 8644
      [] name = "UPWARDS ARROW LEFTWARDS OF DOWNWARDS ARROW" -> 8645
      [] name = "LEFTWARDS ARROW OVER RIGHTWARDS ARROW" -> 8646
      [] name = "LEFTWARDS PAIRED ARROWS" -> 8647
      [] name = "UPWARDS PAIRED ARROWS" -> 8648
      [] name = "RIGHTWARDS PAIRED ARROWS" -> 8649
      [] name = "DOWNWARDS PAIRED ARROWS" -> 8650
      [] name = "LEFTWARDS HARPOON OVER RIGHTWARDS HARPOON" -> 8651
      [] name = "RIGHTWARDS HARPOON OVER LEFTWARDS HARPOON" -> 8652
      [] name = "LEFTWARDS DOUBLE ARROW WITH STROKE" -> 8653
      [] name = "LEFT RIGHT DOUBLE ARROW WITH STROKE" -> 8654
      [] name = "RIGHTWARDS DOUBLE ARROW WITH STROKE" -> 8655
      [] name = "LEFTWARDS DOUBLE ARROW" -> 8656
      [] name = "UPWARDS DOUBLE ARROW" -> 8657
      [] name = "RIGHTWARDS DOUBLE ARROW" -> 8658
      [] name = "DOWNWARDS DOUBLE ARROW" -> 8659
      [] name = "LEFT RIGHT DOUBLE ARROW" -> 8660
      [] name = "UP DOWN DOUBLE ARROW" -> 8661
      [] name = "NORTH WEST DOUBLE ARROW" -> 8662
      [] name = "NORTH EAST DOUBLE ARROW" -> 8663
      [] name = "SOUTH EAST DOUBLE ARROW" -> 8664
      [] name = "SOUTH WEST DOUBLE ARROW" -> 8665
      [] name = "LEFTWARDS TRIPLE ARROW" -> 8666
      [] name = "RIGHTWARDS TRIPLE ARROW" -> 8667
      [] name = "LEFTWARDS SQUIGGLE ARROW" -> 8668
      [] name = "RIGHTWARDS SQUIGGLE ARROW" -> 8669
      [] name = "UPWARDS ARROW WITH DOUBLE STROKE" -> 8670
      [] name = "DOWNWARDS ARROW WITH DOUBLE STROKE" -> 8671
      [] name = "LEFTWARDS DASHED ARROW" -> 8672
      [] name = "UPWARDS DASHED ARROW" -> 8673
      [] name = "RIGHTWARDS DASHED ARROW" -> 8674
      [] name = "DOWNWARDS DASHED ARROW" -> 8675
      [] name = "LEFTWARDS ARROW TO BAR" -> 8676
      [] name = "RIGHTWARDS ARROW TO BAR" -> 8677
      [] name = "LEFTWARDS WHITE ARROW" -> 8678
      [] name = "UPWARDS WHITE ARROW" -> 8679
      [] name = "RIGHTWARDS WHITE ARROW" -> 8680
      [] name = "DOWNWARDS WHITE ARROW" -> 8681
      [] name = "UPWARDS WHITE ARROW FROM BAR" -> 8682
      [] name = "UPWARDS WHITE ARROW ON PEDESTAL" -> 8683
      [] name = "UPWARDS WHITE ARROW ON PEDESTAL WITH HORIZONTAL BAR" -> 8684
      [] name = "UPWARDS WHITE ARROW ON PEDESTAL WITH VERTICAL BAR" -> 8685
      [] name = "UPWARDS WHITE DOUBLE ARROW" -> 8686
      [] name = "UPWARDS WHITE DOUBLE ARROW ON PEDESTAL" -> 8687
      [] name = "RIGHTWARDS WHITE ARROW FROM WALL" -> 8688
      [] name = "NORTH WEST ARROW TO CORNER" -> 8689
      [] name = "SOUTH EAST ARROW TO CORNER" -> 8690
      [] name = "UP DOWN WHITE ARROW" -> 8691
      [] name = "RIGHT ARROW WITH SMALL CIRCLE" -> 8692
      [] name = "DOWNWARDS ARROW LEFTWARDS OF UPWARDS ARROW" -> 8693
      [] name = "THREE RIGHTWARDS ARROWS" -> 8694
      [] name = "LEFTWARDS ARROW WITH VERTICAL STROKE" -> 8695
      [] name = "RIGHTWARDS ARROW WITH VERTICAL STROKE" -> 8696
      [] name = "LEFT RIGHT ARROW WITH VERTICAL STROKE" -> 8697
      [] name = "LEFTWARDS ARROW WITH DOUBLE VERTICAL STROKE" -> 8698
      [] name = "RIGHTWARDS ARROW WITH DOUBLE VERTICAL STROKE" -> 8699
      [] name = "LEFT RIGHT ARROW WITH DOUBLE VERTICAL STROKE" -> 8700
      [] name = "LEFTWARDS OPEN-HEADED ARROW" -> 8701
      [] name = "RIGHTWARDS OPEN-HEADED ARROW" -> 8702
      [] name = "LEFT RIGHT OPEN-HEADED ARROW" -> 8703
      [] name = "FOR ALL" -> 8704
      [] name = "COMPLEMENT" -> 8705
      [] name = "PARTIAL DIFFERENTIAL" -> 8706
      [] name = "THERE EXISTS" -> 8707
      [] name = "THERE DOES NOT EXIST" -> 8708
      [] name = "EMPTY SET" -> 8709
      [] name = "INCREMENT" -> 8710
      [] name = "NABLA" -> 8711
      [] name = "ELEMENT OF" -> 8712
      [] name = "NOT AN ELEMENT OF" -> 8713
      [] name = "SMALL ELEMENT OF" -> 8714
      [] name = "CONTAINS AS MEMBER" -> 8715
      [] name = "DOES NOT CONTAIN AS MEMBER" -> 8716
      [] name = "SMALL CONTAINS AS MEMBER" -> 8717
      [] name = "END OF PROOF" -> 8718
      [] name = "N-ARY PRODUCT" -> 8719
      [] name = "N-ARY COPRODUCT" -> 8720
      [] name = "N-ARY SUMMATION" -> 8721
      [] name = "MINUS SIGN" -> 8722
      [] name = "MINUS-OR-PLUS SIGN" -> 8723
      [] name = "DOT PLUS" -> 8724
      [] name = "DIVISION SLASH" -> 8725
      [] name = "SET MINUS" -> 8726
      [] name = "ASTERISK OPERATOR" -> 8727
      [] name = "RING OPERATOR" -> 8728
      [] name = "BULLET OPERATOR" -> 8729
      [] name = "SQUARE ROOT" -> 8730
      [] name = "CUBE ROOT" -> 8731
      [] name = "FOURTH ROOT" -> 8732
      [] name = "PROPORTIONAL TO" -> 8733
      [] name = "INFINITY" -> 8734
      [] name = "RIGHT ANGLE" -> 8735
      [] name = "ANGLE" -> 8736
      [] name = "MEASURED ANGLE" -> 8737
      [] name = "SPHERICAL ANGLE" -> 8738
      [] name = "DIVIDES" -> 8739
      [] name = "DOES NOT DIVIDE" -> 8740
      [] name = "PARALLEL TO" -> 8741
      [] name = "NOT PARALLEL TO" -> 8742
      [] name = "LOGICAL AND" -> 8743
      [] name = "LOGICAL OR" -> 8744
      [] name = "INTERSECTION" -> 8745
      [] name = "UNION" -> 8746
      [] name = "INTEGRAL" -> 8747
      [] name = "DOUBLE INTEGRAL" -> 8748
      [] name = "TRIPLE INTEGRAL" -> 8749
      [] name = "CONTOUR INTEGRAL" -> 8750
      [] name = "SURFACE INTEGRAL" -> 8751
      [] name = "VOLUME INTEGRAL" -> 8752
      [] name = "CLOCKWISE INTEGRAL" -> 8753
      [] name = "CLOCKWISE CONTOUR INTEGRAL" -> 8754
      [] name = "ANTICLOCKWISE CONTOUR INTEGRAL" -> 8755
      [] name = "THEREFORE" -> 8756
      [] name = "BECAUSE" -> 8757
      [] name = "RATIO" -> 8758
      [] name = "PROPORTION" -> 8759
      [] name = "DOT MINUS" -> 8760
      [] name = "EXCESS" -> 8761
      [] name = "GEOMETRIC PROPORTION" -> 8762
      [] name = "HOMOTHETIC" -> 8763
      [] name = "TILDE OPERATOR" -> 8764
      [] name = "REVERSED TILDE" -> 8765
      [] name = "INVERTED LAZY S" -> 8766
      [] name = "SINE WAVE" -> 8767
      [] name = "WREATH PRODUCT" -> 8768
      [] name = "NOT TILDE" -> 8769
      [] name = "MINUS TILDE" -> 8770
      [] name = "ASYMPTOTICALLY EQUAL TO" -> 8771
      [] name = "NOT ASYMPTOTICALLY EQUAL TO" -> 8772
      [] name = "APPROXIMATELY EQUAL TO" -> 8773
      [] name = "APPROXIMATELY BUT NOT ACTUALLY EQUAL TO" -> 8774
      [] name = "NEITHER APPROXIMATELY NOR ACTUALLY EQUAL TO" -> 8775
      [] name = "ALMOST EQUAL TO" -> 8776
      [] name = "NOT ALMOST EQUAL TO" -> 8777
      [] name = "ALMOST EQUAL OR EQUAL TO" -> 8778
      [] name = "TRIPLE TILDE" -> 8779
      [] name = "ALL EQUAL TO" -> 8780
      [] name = "EQUIVALENT TO" -> 8781
      [] name = "GEOMETRICALLY EQUIVALENT TO" -> 8782
      [] name = "DIFFERENCE BETWEEN" -> 8783
      [] name = "APPROACHES THE LIMIT" -> 8784
      [] name = "GEOMETRICALLY EQUAL TO" -> 8785
      [] name = "APPROXIMATELY EQUAL TO OR THE IMAGE OF" -> 8786
      [] name = "IMAGE OF OR APPROXIMATELY EQUAL TO" -> 8787
      [] name = "COLON EQUALS" -> 8788
      [] name = "EQUALS COLON" -> 8789
      [] name = "RING IN EQUAL TO" -> 8790
      [] name = "RING EQUAL TO" -> 8791
      [] name = "CORRESPONDS TO" -> 8792
      [] name = "ESTIMATES" -> 8793
      [] name = "EQUIANGULAR TO" -> 8794
      [] name = "STAR EQUALS" -> 8795
      [] name = "DELTA EQUAL TO" -> 8796
      [] name = "EQUAL TO BY DEFINITION" -> 8797
      [] name = "MEASURED BY" -> 8798
      [] name = "QUESTIONED EQUAL TO" -> 8799
      [] name = "NOT EQUAL TO" -> 8800
      [] name = "IDENTICAL TO" -> 8801
      [] name = "NOT IDENTICAL TO" -> 8802
      [] name = "STRICTLY EQUIVALENT TO" -> 8803
      [] name = "LESS-THAN OR EQUAL TO" -> 8804
      [] name = "GREATER-THAN OR EQUAL TO" -> 8805
      [] name = "LESS-THAN OVER EQUAL TO" -> 8806
      [] name = "GREATER-THAN OVER EQUAL TO" -> 8807
      [] name = "LESS-THAN BUT NOT EQUAL TO" -> 8808
      [] name = "GREATER-THAN BUT NOT EQUAL TO" -> 8809
      [] name = "MUCH LESS-THAN" -> 8810
      [] name = "MUCH GREATER-THAN" -> 8811
      [] name = "BETWEEN" -> 8812
      [] name = "NOT EQUIVALENT TO" -> 8813
      [] name = "NOT LESS-THAN" -> 8814
      [] name = "NOT GREATER-THAN" -> 8815
      [] name = "NEITHER LESS-THAN NOR EQUAL TO" -> 8816
      [] name = "NEITHER GREATER-THAN NOR EQUAL TO" -> 8817
      [] name = "LESS-THAN OR EQUIVALENT TO" -> 8818
      [] name = "GREATER-THAN OR EQUIVALENT TO" -> 8819
      [] name = "NEITHER LESS-THAN NOR EQUIVALENT TO" -> 8820
      [] name = "NEITHER GREATER-THAN NOR EQUIVALENT TO" -> 8821
      [] name = "LESS-THAN OR GREATER-THAN" -> 8822
      [] name = "GREATER-THAN OR LESS-THAN" -> 8823
      [] name = "NEITHER LESS-THAN NOR GREATER-THAN" -> 8824
      [] name = "NEITHER GREATER-THAN NOR LESS-THAN" -> 8825
      [] name = "PRECEDES" -> 8826
      [] name = "SUCCEEDS" -> 8827
      [] name = "PRECEDES OR EQUAL TO" -> 8828
      [] name = "SUCCEEDS OR EQUAL TO" -> 8829
      [] name = "PRECEDES OR EQUIVALENT TO" -> 8830
      [] name = "SUCCEEDS OR EQUIVALENT TO" -> 8831
      [] name = "DOES NOT PRECEDE" -> 8832
      [] name = "DOES NOT SUCCEED" -> 8833
      [] name = "SUBSET OF" -> 8834
      [] name = "SUPERSET OF" -> 8835
      [] name = "NOT A SUBSET OF" -> 8836
      [] name = "NOT A SUPERSET OF" -> 8837
      [] name = "SUBSET OF OR EQUAL TO" -> 8838
      [] name = "SUPERSET OF OR EQUAL TO" -> 8839
      [] name = "NEITHER A SUBSET OF NOR EQUAL TO" -> 8840
      [] name = "NEITHER A SUPERSET OF NOR EQUAL TO" -> 8841
      [] name = "SUBSET OF WITH NOT EQUAL TO" -> 8842
      [] name = "SUPERSET OF WITH NOT EQUAL TO" -> 8843
      [] name = "MULTISET" -> 8844
      [] name = "MULTISET MULTIPLICATION" -> 8845
      [] name = "MULTISET UNION" -> 8846
      [] name = "SQUARE IMAGE OF" -> 8847
      [] name = "SQUARE ORIGINAL OF" -> 8848
      [] name = "SQUARE IMAGE OF OR EQUAL TO" -> 8849
      [] name = "SQUARE ORIGINAL OF OR EQUAL TO" -> 8850
      [] name = "SQUARE CAP" -> 8851
      [] name = "SQUARE CUP" -> 8852
      [] name = "CIRCLED PLUS" -> 8853
      [] name = "CIRCLED MINUS" -> 8854
      [] name = "CIRCLED TIMES" -> 8855
      [] name = "CIRCLED DIVISION SLASH" -> 8856
      [] name = "CIRCLED DOT OPERATOR" -> 8857
      [] name = "CIRCLED RING OPERATOR" -> 8858
      [] name = "CIRCLED ASTERISK OPERATOR" -> 8859
      [] name = "CIRCLED EQUALS" -> 8860
      [] name = "CIRCLED DASH" -> 8861
      [] name = "SQUARED PLUS" -> 8862
      [] name = "SQUARED MINUS" -> 8863
      [] name = "SQUARED TIMES" -> 8864
      [] name = "SQUARED DOT OPERATOR" -> 8865
      [] name = "RIGHT TACK" -> 8866
      [] name = "LEFT TACK" -> 8867
      [] name = "DOWN TACK" -> 8868
      [] name = "UP TACK" -> 8869
      [] name = "ASSERTION" -> 8870
      [] name = "MODELS" -> 8871
      [] name = "TRUE" -> 8872
      [] name = "FORCES" -> 8873
      [] name = "TRIPLE VERTICAL BAR RIGHT TURNSTILE" -> 8874
      [] name = "DOUBLE VERTICAL BAR DOUBLE RIGHT TURNSTILE" -> 8875
      [] name = "DOES NOT PROVE" -> 8876
      [] name = "NOT TRUE" -> 8877
      [] name = "DOES NOT FORCE" -> 8878
      [] name = "NEGATED DOUBLE VERTICAL BAR DOUBLE RIGHT TURNSTILE" -> 8879
      [] name = "PRECEDES UNDER RELATION" -> 8880
      [] name = "SUCCEEDS UNDER RELATION" -> 8881
      [] name = "NORMAL SUBGROUP OF" -> 8882
      [] name = "CONTAINS AS NORMAL SUBGROUP" -> 8883
      [] name = "NORMAL SUBGROUP OF OR EQUAL TO" -> 8884
      [] name = "CONTAINS AS NORMAL SUBGROUP OR EQUAL TO" -> 8885
      [] name = "ORIGINAL OF" -> 8886
      [] name = "IMAGE OF" -> 8887
      [] name = "MULTIMAP" -> 8888
      [] name = "HERMITIAN CONJUGATE MATRIX" -> 8889
      [] name = "INTERCALATE" -> 8890
      [] name = "XOR" -> 8891
      [] name = "NAND" -> 8892
      [] name = "NOR" -> 8893
      [] name = "RIGHT ANGLE WITH ARC" -> 8894
      [] name = "RIGHT TRIANGLE" -> 8895
      [] name = "N-ARY LOGICAL AND" -> 8896
      [] name = "N-ARY LOGICAL OR" -> 8897
      [] name = "N-ARY INTERSECTION" -> 8898
      [] name = "N-ARY UNION" -> 8899
      [] name = "DIAMOND OPERATOR" -> 8900
      [] name = "DOT OPERATOR" -> 8901
      [] name = "STAR OPERATOR" -> 8902
      [] name = "DIVISION TIMES" -> 8903
      [] name = "BOWTIE" -> 8904
      [] name = "LEFT NORMAL FACTOR SEMIDIRECT PRODUCT" -> 8905
      [] name = "RIGHT NORMAL FACTOR SEMIDIRECT PRODUCT" -> 8906
      [] name = "LEFT SEMIDIRECT PRODUCT" -> 8907
      [] name = "RIGHT SEMIDIRECT PRODUCT" -> 8908
      [] name = "REVERSED TILDE EQUALS" -> 8909
      [] name = "CURLY LOGICAL OR" -> 8910
      [] name = "CURLY LOGICAL AND" -> 8911
      [] name = "DOUBLE SUBSET" -> 8912
      [] name = "DOUBLE SUPERSET" -> 8913
      [] name = "DOUBLE INTERSECTION" -> 8914
      [] name = "DOUBLE UNION" -> 8915
      [] name = "PITCHFORK" -> 8916
      [] name = "EQUAL AND PARALLEL TO" -> 8917
      [] name = "LESS-THAN WITH DOT" -> 8918
      [] name = "GREATER-THAN WITH DOT" -> 8919
      [] name = "VERY MUCH LESS-THAN" -> 8920
      [] name = "VERY MUCH GREATER-THAN" -> 8921
      [] name = "LESS-THAN EQUAL TO OR GREATER-THAN" -> 8922
      [] name = "GREATER-THAN EQUAL TO OR LESS-THAN" -> 8923
      [] name = "EQUAL TO OR LESS-THAN" -> 8924
      [] name = "EQUAL TO OR GREATER-THAN" -> 8925
      [] name = "EQUAL TO OR PRECEDES" -> 8926
      [] name = "EQUAL TO OR SUCCEEDS" -> 8927
      [] name = "DOES NOT PRECEDE OR EQUAL" -> 8928
      [] name = "DOES NOT SUCCEED OR EQUAL" -> 8929
      [] name = "NOT SQUARE IMAGE OF OR EQUAL TO" -> 8930
      [] name = "NOT SQUARE ORIGINAL OF OR EQUAL TO" -> 8931
      [] name = "SQUARE IMAGE OF OR NOT EQUAL TO" -> 8932
      [] name = "SQUARE ORIGINAL OF OR NOT EQUAL TO" -> 8933
      [] name = "LESS-THAN BUT NOT EQUIVALENT TO" -> 8934
      [] name = "GREATER-THAN BUT NOT EQUIVALENT TO" -> 8935
      [] name = "PRECEDES BUT NOT EQUIVALENT TO" -> 8936
      [] name = "SUCCEEDS BUT NOT EQUIVALENT TO" -> 8937
      [] name = "NOT NORMAL SUBGROUP OF" -> 8938
      [] name = "DOES NOT CONTAIN AS NORMAL SUBGROUP" -> 8939
      [] name = "NOT NORMAL SUBGROUP OF OR EQUAL TO" -> 8940
      [] name = "DOES NOT CONTAIN AS NORMAL SUBGROUP OR EQUAL" -> 8941
      [] name = "VERTICAL ELLIPSIS" -> 8942
      [] name = "MIDLINE HORIZONTAL ELLIPSIS" -> 8943
      [] name = "UP RIGHT DIAGONAL ELLIPSIS" -> 8944
      [] name = "DOWN RIGHT DIAGONAL ELLIPSIS" -> 8945
      [] name = "ELEMENT OF WITH LONG HORIZONTAL STROKE" -> 8946
      [] name = "ELEMENT OF WITH VERTICAL BAR AT END OF HORIZONTAL STROKE" -> 8947
      [] name = "SMALL ELEMENT OF WITH VERTICAL BAR AT END OF HORIZONTAL STROKE" -> 8948
      [] name = "ELEMENT OF WITH DOT ABOVE" -> 8949
      [] name = "ELEMENT OF WITH OVERBAR" -> 8950
      [] name = "SMALL ELEMENT OF WITH OVERBAR" -> 8951
      [] name = "ELEMENT OF WITH UNDERBAR" -> 8952
      [] name = "ELEMENT OF WITH TWO HORIZONTAL STROKES" -> 8953
      [] name = "CONTAINS WITH LONG HORIZONTAL STROKE" -> 8954
      [] name = "CONTAINS WITH VERTICAL BAR AT END OF HORIZONTAL STROKE" -> 8955
      [] name = "SMALL CONTAINS WITH VERTICAL BAR AT END OF HORIZONTAL STROKE" -> 8956
      [] name = "CONTAINS WITH OVERBAR" -> 8957
      [] name = "SMALL CONTAINS WITH OVERBAR" -> 8958
      [] name = "Z NOTATION BAG MEMBERSHIP" -> 8959
      [] name = "DIAMETER SIGN" -> 8960
      [] name = "ELECTRIC ARROW" -> 8961
      [] name = "HOUSE" -> 8962
      [] name = "UP ARROWHEAD" -> 8963
      [] name = "DOWN ARROWHEAD" -> 8964
      [] name = "PROJECTIVE" -> 8965
      [] name = "PERSPECTIVE" -> 8966
      [] name = "WAVY LINE" -> 8967
      [] name = "LEFT CEILING" -> 8968
      [] name = "RIGHT CEILING" -> 8969
      [] name = "LEFT FLOOR" -> 8970
      [] name = "RIGHT FLOOR" -> 8971
      [] name = "BOTTOM RIGHT CROP" -> 8972
      [] name = "BOTTOM LEFT CROP" -> 8973
      [] name = "TOP RIGHT CROP" -> 8974
      [] name = "TOP LEFT CROP" -> 8975
      [] name = "REVERSED NOT SIGN" -> 8976
      [] name = "SQUARE LOZENGE" -> 8977
      [] name = "ARC" -> 8978
      [] name = "SEGMENT" -> 8979
      [] name = "SECTOR" -> 8980
      [] name = "TELEPHONE RECORDER" -> 8981
      [] name = "POSITION INDICATOR" -> 8982
      [] name = "VIEWDATA SQUARE" -> 8983
      [] name = "PLACE OF INTEREST SIGN" -> 8984
      [] name = "TURNED NOT SIGN" -> 8985
      [] name = "WATCH" -> 8986
      [] name = "HOURGLASS" -> 8987
      [] name = "TOP LEFT CORNER" -> 8988
      [] name = "TOP RIGHT CORNER" -> 8989
      [] name = "BOTTOM LEFT CORNER" -> 8990
      [] name = "BOTTOM RIGHT CORNER" -> 8991
      [] name = "TOP HALF INTEGRAL" -> 8992
      [] name = "BOTTOM HALF INTEGRAL" -> 8993
      [] name = "FROWN" -> 8994
      [] name = "SMILE" -> 8995
      [] name = "UP ARROWHEAD BETWEEN TWO HORIZONTAL BARS" -> 8996
      [] name = "OPTION KEY" -> 8997
      [] name = "ERASE TO THE RIGHT" -> 8998
      [] name = "X IN A RECTANGLE BOX" -> 8999
      [] name = "KEYBOARD" -> 9000
      [] name = "LEFT-POINTING ANGLE BRACKET" -> 9001
      [] name = "RIGHT-POINTING ANGLE BRACKET" -> 9002
      [] name = "ERASE TO THE LEFT" -> 9003
      [] name = "BENZENE RING" -> 9004
      [] name = "CYLINDRICITY" -> 9005
      [] name = "ALL AROUND-PROFILE" -> 9006
      [] name = "SYMMETRY" -> 9007
      [] name = "TOTAL RUNOUT" -> 9008
      [] name = "DIMENSION ORIGIN" -> 9009
      [] name = "CONICAL TAPER" -> 9010
      [] name = "SLOPE" -> 9011
      [] name = "COUNTERBORE" -> 9012
      [] name = "COUNTERSINK" -> 9013
      [] name = "APL FUNCTIONAL SYMBOL I-BEAM" -> 9014
      [] name = "APL FUNCTIONAL SYMBOL SQUISH QUAD" -> 9015
      [] name = "APL FUNCTIONAL SYMBOL QUAD EQUAL" -> 9016
      [] name = "APL FUNCTIONAL SYMBOL QUAD DIVIDE" -> 9017
      [] name = "APL FUNCTIONAL SYMBOL QUAD DIAMOND" -> 9018
      [] name = "APL FUNCTIONAL SYMBOL QUAD JOT" -> 9019
      [] name = "APL FUNCTIONAL SYMBOL QUAD CIRCLE" -> 9020
      [] name = "APL FUNCTIONAL SYMBOL CIRCLE STILE" -> 9021
      [] name = "APL FUNCTIONAL SYMBOL CIRCLE JOT" -> 9022
      [] name = "APL FUNCTIONAL SYMBOL SLASH BAR" -> 9023
      [] name = "APL FUNCTIONAL SYMBOL BACKSLASH BAR" -> 9024
      [] name = "APL FUNCTIONAL SYMBOL QUAD SLASH" -> 9025
      [] name = "APL FUNCTIONAL SYMBOL QUAD BACKSLASH" -> 9026
      [] name = "APL FUNCTIONAL SYMBOL QUAD LESS-THAN" -> 9027
      [] name = "APL FUNCTIONAL SYMBOL QUAD GREATER-THAN" -> 9028
      [] name = "APL FUNCTIONAL SYMBOL LEFTWARDS VANE" -> 9029
      [] name = "APL FUNCTIONAL SYMBOL RIGHTWARDS VANE" -> 9030
      [] name = "APL FUNCTIONAL SYMBOL QUAD LEFTWARDS ARROW" -> 9031
      [] name = "APL FUNCTIONAL SYMBOL QUAD RIGHTWARDS ARROW" -> 9032
      [] name = "APL FUNCTIONAL SYMBOL CIRCLE BACKSLASH" -> 9033
      [] name = "APL FUNCTIONAL SYMBOL DOWN TACK UNDERBAR" -> 9034
      [] name = "APL FUNCTIONAL SYMBOL DELTA STILE" -> 9035
      [] name = "APL FUNCTIONAL SYMBOL QUAD DOWN CARET" -> 9036
      [] name = "APL FUNCTIONAL SYMBOL QUAD DELTA" -> 9037
      [] name = "APL FUNCTIONAL SYMBOL DOWN TACK JOT" -> 9038
      [] name = "APL FUNCTIONAL SYMBOL UPWARDS VANE" -> 9039
      [] name = "APL FUNCTIONAL SYMBOL QUAD UPWARDS ARROW" -> 9040
      [] name = "APL FUNCTIONAL SYMBOL UP TACK OVERBAR" -> 9041
      [] name = "APL FUNCTIONAL SYMBOL DEL STILE" -> 9042
      [] name = "APL FUNCTIONAL SYMBOL QUAD UP CARET" -> 9043
      [] name = "APL FUNCTIONAL SYMBOL QUAD DEL" -> 9044
      [] name = "APL FUNCTIONAL SYMBOL UP TACK JOT" -> 9045
      [] name = "APL FUNCTIONAL SYMBOL DOWNWARDS VANE" -> 9046
      [] name = "APL FUNCTIONAL SYMBOL QUAD DOWNWARDS ARROW" -> 9047
      [] name = "APL FUNCTIONAL SYMBOL QUOTE UNDERBAR" -> 9048
      [] name = "APL FUNCTIONAL SYMBOL DELTA UNDERBAR" -> 9049
      [] name = "APL FUNCTIONAL SYMBOL DIAMOND UNDERBAR" -> 9050
      [] name = "APL FUNCTIONAL SYMBOL JOT UNDERBAR" -> 9051
      [] name = "APL FUNCTIONAL SYMBOL CIRCLE UNDERBAR" -> 9052
      [] name = "APL FUNCTIONAL SYMBOL UP SHOE JOT" -> 9053
      [] name = "APL FUNCTIONAL SYMBOL QUOTE QUAD" -> 9054
      [] name = "APL FUNCTIONAL SYMBOL CIRCLE STAR" -> 9055
      [] name = "APL FUNCTIONAL SYMBOL QUAD COLON" -> 9056
      [] name = "APL FUNCTIONAL SYMBOL UP TACK DIAERESIS" -> 9057
      [] name = "APL FUNCTIONAL SYMBOL DEL DIAERESIS" -> 9058
      [] name = "APL FUNCTIONAL SYMBOL STAR DIAERESIS" -> 9059
      [] name = "APL FUNCTIONAL SYMBOL JOT DIAERESIS" -> 9060
      [] name = "APL FUNCTIONAL SYMBOL CIRCLE DIAERESIS" -> 9061
      [] name = "APL FUNCTIONAL SYMBOL DOWN SHOE STILE" -> 9062
      [] name = "APL FUNCTIONAL SYMBOL LEFT SHOE STILE" -> 9063
      [] name = "APL FUNCTIONAL SYMBOL TILDE DIAERESIS" -> 9064
      [] name = "APL FUNCTIONAL SYMBOL GREATER-THAN DIAERESIS" -> 9065
      [] name = "APL FUNCTIONAL SYMBOL COMMA BAR" -> 9066
      [] name = "APL FUNCTIONAL SYMBOL DEL TILDE" -> 9067
      [] name = "APL FUNCTIONAL SYMBOL ZILDE" -> 9068
      [] name = "APL FUNCTIONAL SYMBOL STILE TILDE" -> 9069
      [] name = "APL FUNCTIONAL SYMBOL SEMICOLON UNDERBAR" -> 9070
      [] name = "APL FUNCTIONAL SYMBOL QUAD NOT EQUAL" -> 9071
      [] name = "APL FUNCTIONAL SYMBOL QUAD QUESTION" -> 9072
      [] name = "APL FUNCTIONAL SYMBOL DOWN CARET TILDE" -> 9073
      [] name = "APL FUNCTIONAL SYMBOL UP CARET TILDE" -> 9074
      [] name = "APL FUNCTIONAL SYMBOL IOTA" -> 9075
      [] name = "APL FUNCTIONAL SYMBOL RHO" -> 9076
      [] name = "APL FUNCTIONAL SYMBOL OMEGA" -> 9077
      [] name = "APL FUNCTIONAL SYMBOL ALPHA UNDERBAR" -> 9078
      [] name = "APL FUNCTIONAL SYMBOL EPSILON UNDERBAR" -> 9079
      [] name = "APL FUNCTIONAL SYMBOL IOTA UNDERBAR" -> 9080
      [] name = "APL FUNCTIONAL SYMBOL OMEGA UNDERBAR" -> 9081
      [] name = "APL FUNCTIONAL SYMBOL ALPHA" -> 9082
      [] name = "NOT CHECK MARK" -> 9083
      [] name = "RIGHT ANGLE WITH DOWNWARDS ZIGZAG ARROW" -> 9084
      [] name = "SHOULDERED OPEN BOX" -> 9085
      [] name = "BELL SYMBOL" -> 9086
      [] name = "VERTICAL LINE WITH MIDDLE DOT" -> 9087
      [] name = "INSERTION SYMBOL" -> 9088
      [] name = "CONTINUOUS UNDERLINE SYMBOL" -> 9089
      [] name = "DISCONTINUOUS UNDERLINE SYMBOL" -> 9090
      [] name = "EMPHASIS SYMBOL" -> 9091
      [] name = "COMPOSITION SYMBOL" -> 9092
      [] name = "WHITE SQUARE WITH CENTRE VERTICAL LINE" -> 9093
      [] name = "ENTER SYMBOL" -> 9094
      [] name = "ALTERNATIVE KEY SYMBOL" -> 9095
      [] name = "HELM SYMBOL" -> 9096
      [] name = "CIRCLED HORIZONTAL BAR WITH NOTCH" -> 9097
      [] name = "CIRCLED TRIANGLE DOWN" -> 9098
      [] name = "BROKEN CIRCLE WITH NORTHWEST ARROW" -> 9099
      [] name = "UNDO SYMBOL" -> 9100
      [] name = "MONOSTABLE SYMBOL" -> 9101
      [] name = "HYSTERESIS SYMBOL" -> 9102
      [] name = "OPEN-CIRCUIT-OUTPUT H-TYPE SYMBOL" -> 9103
      [] name = "OPEN-CIRCUIT-OUTPUT L-TYPE SYMBOL" -> 9104
      [] name = "PASSIVE-PULL-DOWN-OUTPUT SYMBOL" -> 9105
      [] name = "PASSIVE-PULL-UP-OUTPUT SYMBOL" -> 9106
      [] name = "DIRECT CURRENT SYMBOL FORM TWO" -> 9107
      [] name = "SOFTWARE-FUNCTION SYMBOL" -> 9108
      [] name = "APL FUNCTIONAL SYMBOL QUAD" -> 9109
      [] name = "DECIMAL SEPARATOR KEY SYMBOL" -> 9110
      [] name = "PREVIOUS PAGE" -> 9111
      [] name = "NEXT PAGE" -> 9112
      [] name = "PRINT SCREEN SYMBOL" -> 9113
      [] name = "CLEAR SCREEN SYMBOL" -> 9114
      [] name = "LEFT PARENTHESIS UPPER HOOK" -> 9115
      [] name = "LEFT PARENTHESIS EXTENSION" -> 9116
      [] name = "LEFT PARENTHESIS LOWER HOOK" -> 9117
      [] name = "RIGHT PARENTHESIS UPPER HOOK" -> 9118
      [] name = "RIGHT PARENTHESIS EXTENSION" -> 9119
      [] name = "RIGHT PARENTHESIS LOWER HOOK" -> 9120
      [] name = "LEFT SQUARE BRACKET UPPER CORNER" -> 9121
      [] name = "LEFT SQUARE BRACKET EXTENSION" -> 9122
      [] name = "LEFT SQUARE BRACKET LOWER CORNER" -> 9123
      [] name = "RIGHT SQUARE BRACKET UPPER CORNER" -> 9124
      [] name = "RIGHT SQUARE BRACKET EXTENSION" -> 9125
      [] name = "RIGHT SQUARE BRACKET LOWER CORNER" -> 9126
      [] name = "LEFT CURLY BRACKET UPPER HOOK" -> 9127
      [] name = "LEFT CURLY BRACKET MIDDLE PIECE" -> 9128
      [] name = "LEFT CURLY BRACKET LOWER HOOK" -> 9129
      [] name = "CURLY BRACKET EXTENSION" -> 9130
      [] name = "RIGHT CURLY BRACKET UPPER HOOK" -> 9131
      [] name = "RIGHT CURLY BRACKET MIDDLE PIECE" -> 9132
      [] name = "RIGHT CURLY BRACKET LOWER HOOK" -> 9133
      [] name = "INTEGRAL EXTENSION" -> 9134
      [] name = "HORIZONTAL LINE EXTENSION" -> 9135
      [] name = "UPPER LEFT OR LOWER RIGHT CURLY BRACKET SECTION" -> 9136
      [] name = "UPPER RIGHT OR LOWER LEFT CURLY BRACKET SECTION" -> 9137
      [] name = "SUMMATION TOP" -> 9138
      [] name = "SUMMATION BOTTOM" -> 9139
      [] name = "TOP SQUARE BRACKET" -> 9140
      [] name = "BOTTOM SQUARE BRACKET" -> 9141
      [] name = "BOTTOM SQUARE BRACKET OVER TOP SQUARE BRACKET" -> 9142
      [] name = "RADICAL SYMBOL BOTTOM" -> 9143
      [] name = "LEFT VERTICAL BOX LINE" -> 9144
      [] name = "RIGHT VERTICAL BOX LINE" -> 9145
      [] name = "HORIZONTAL SCAN LINE-1" -> 9146
      [] name = "HORIZONTAL SCAN LINE-3" -> 9147
      [] name = "HORIZONTAL SCAN LINE-7" -> 9148
      [] name = "HORIZONTAL SCAN LINE-9" -> 9149
      [] name = "DENTISTRY SYMBOL LIGHT VERTICAL AND TOP RIGHT" -> 9150
      [] name = "DENTISTRY SYMBOL LIGHT VERTICAL AND BOTTOM RIGHT" -> 9151
      [] name = "DENTISTRY SYMBOL LIGHT VERTICAL WITH CIRCLE" -> 9152
      [] name = "DENTISTRY SYMBOL LIGHT DOWN AND HORIZONTAL WITH CIRCLE" -> 9153
      [] name = "DENTISTRY SYMBOL LIGHT UP AND HORIZONTAL WITH CIRCLE" -> 9154
      [] name = "DENTISTRY SYMBOL LIGHT VERTICAL WITH TRIANGLE" -> 9155
      [] name = "DENTISTRY SYMBOL LIGHT DOWN AND HORIZONTAL WITH TRIANGLE" -> 9156
      [] name = "DENTISTRY SYMBOL LIGHT UP AND HORIZONTAL WITH TRIANGLE" -> 9157
      [] name = "DENTISTRY SYMBOL LIGHT VERTICAL AND WAVE" -> 9158
      [] name = "DENTISTRY SYMBOL LIGHT DOWN AND HORIZONTAL WITH WAVE" -> 9159
      [] name = "DENTISTRY SYMBOL LIGHT UP AND HORIZONTAL WITH WAVE" -> 9160
      [] name = "DENTISTRY SYMBOL LIGHT DOWN AND HORIZONTAL" -> 9161
      [] name = "DENTISTRY SYMBOL LIGHT UP AND HORIZONTAL" -> 9162
      [] name = "DENTISTRY SYMBOL LIGHT VERTICAL AND TOP LEFT" -> 9163
      [] name = "DENTISTRY SYMBOL LIGHT VERTICAL AND BOTTOM LEFT" -> 9164
      [] name = "SQUARE FOOT" -> 9165
      [] name = "RETURN SYMBOL" -> 9166
      [] name = "EJECT SYMBOL" -> 9167
      [] name = "VERTICAL LINE EXTENSION" -> 9168
      [] name = "METRICAL BREVE" -> 9169
      [] name = "METRICAL LONG OVER SHORT" -> 9170
      [] name = "METRICAL SHORT OVER LONG" -> 9171
      [] name = "METRICAL LONG OVER TWO SHORTS" -> 9172
      [] name = "METRICAL TWO SHORTS OVER LONG" -> 9173
      [] name = "METRICAL TWO SHORTS JOINED" -> 9174
      [] name = "METRICAL TRISEME" -> 9175
      [] name = "METRICAL TETRASEME" -> 9176
      [] name = "METRICAL PENTASEME" -> 9177
      [] name = "EARTH GROUND" -> 9178
      [] name = "FUSE" -> 9179
      [] name = "TOP PARENTHESIS" -> 9180
      [] name = "BOTTOM PARENTHESIS" -> 9181
      [] name = "TOP CURLY BRACKET" -> 9182
      [] name = "BOTTOM CURLY BRACKET" -> 9183
      [] name = "TOP TORTOISE SHELL BRACKET" -> 9184
      [] name = "BOTTOM TORTOISE SHELL BRACKET" -> 9185
      [] name = "WHITE TRAPEZIUM" -> 9186
      [] name = "BENZENE RING WITH CIRCLE" -> 9187
      [] name = "STRAIGHTNESS" -> 9188
      [] name = "FLATNESS" -> 9189
      [] name = "AC CURRENT" -> 9190
      [] name = "ELECTRICAL INTERSECTION" -> 9191
      [] name = "DECIMAL EXPONENT SYMBOL" -> 9192
      [] name = "BLACK RIGHT-POINTING DOUBLE TRIANGLE" -> 9193
      [] name = "BLACK LEFT-POINTING DOUBLE TRIANGLE" -> 9194
      [] name = "BLACK UP-POINTING DOUBLE TRIANGLE" -> 9195
      [] name = "BLACK DOWN-POINTING DOUBLE TRIANGLE" -> 9196
      [] name = "BLACK RIGHT-POINTING DOUBLE TRIANGLE WITH VERTICAL BAR" -> 9197
      [] name = "BLACK LEFT-POINTING DOUBLE TRIANGLE WITH VERTICAL BAR" -> 9198
      [] name = "BLACK RIGHT-POINTING TRIANGLE WITH DOUBLE VERTICAL BAR" -> 9199
      [] name = "ALARM CLOCK" -> 9200
      [] name = "STOPWATCH" -> 9201
      [] name = "TIMER CLOCK" -> 9202
      [] name = "HOURGLASS WITH FLOWING SAND" -> 9203
      [] name = "BLACK MEDIUM LEFT-POINTING TRIANGLE" -> 9204
      [] name = "BLACK MEDIUM RIGHT-POINTING TRIANGLE" -> 9205
      [] name = "BLACK MEDIUM UP-POINTING TRIANGLE" -> 9206
      [] name = "BLACK MEDIUM DOWN-POINTING TRIANGLE" -> 9207
      [] name = "DOUBLE VERTICAL BAR" -> 9208
      [] name = "BLACK SQUARE FOR STOP" -> 9209
      [] name = "BLACK CIRCLE FOR RECORD" -> 9210
      [] name = "POWER SYMBOL" -> 9211
      [] name = "POWER ON-OFF SYMBOL" -> 9212
      [] name = "POWER ON SYMBOL" -> 9213
      [] name = "POWER SLEEP SYMBOL" -> 9214
      [] name = "OBSERVER EYE SYMBOL" -> 9215
      [] name = "SYMBOL FOR NULL" -> 9216
      [] name = "SYMBOL FOR START OF HEADING" -> 9217
      [] name = "SYMBOL FOR START OF TEXT" -> 9218
      [] name = "SYMBOL FOR END OF TEXT" -> 9219
      [] name = "SYMBOL FOR END OF TRANSMISSION" -> 9220
      [] name = "SYMBOL FOR ENQUIRY" -> 9221
      [] name = "SYMBOL FOR ACKNOWLEDGE" -> 9222
      [] name = "SYMBOL FOR BELL" -> 9223
      [] name = "SYMBOL FOR BACKSPACE" -> 9224
      [] name = "SYMBOL FOR HORIZONTAL TABULATION" -> 9225
      [] name = "SYMBOL FOR LINE FEED" -> 9226
      [] name = "SYMBOL FOR VERTICAL TABULATION" -> 9227
      [] name = "SYMBOL FOR FORM FEED" -> 9228
      [] name = "SYMBOL FOR CARRIAGE RETURN" -> 9229
      [] name = "SYMBOL FOR SHIFT OUT" -> 9230
      [] name = "SYMBOL FOR SHIFT IN" -> 9231
      [] name = "SYMBOL FOR DATA LINK ESCAPE" -> 9232
      [] name = "SYMBOL FOR DEVICE CONTROL ONE" -> 9233
      [] name = "SYMBOL FOR DEVICE CONTROL TWO" -> 9234
      [] name = "SYMBOL FOR DEVICE CONTROL THREE" -> 9235
      [] name = "SYMBOL FOR DEVICE CONTROL FOUR" -> 9236
      [] name = "SYMBOL FOR NEGATIVE ACKNOWLEDGE" -> 9237
      [] name = "SYMBOL FOR SYNCHRONOUS IDLE" -> 9238
      [] name = "SYMBOL FOR END OF TRANSMISSION BLOCK" -> 9239
      [] name = "SYMBOL FOR CANCEL" -> 9240
      [] name = "SYMBOL FOR END OF MEDIUM" -> 9241
      [] name = "SYMBOL FOR SUBSTITUTE" -> 9242
      [] name = "SYMBOL FOR ESCAPE" -> 9243
      [] name = "SYMBOL FOR FILE SEPARATOR" -> 9244
      [] name = "SYMBOL FOR GROUP SEPARATOR" -> 9245
      [] name = "SYMBOL FOR RECORD SEPARATOR" -> 9246
      [] name = "SYMBOL FOR UNIT SEPARATOR" -> 9247
      [] name = "SYMBOL FOR SPACE" -> 9248
      [] name = "SYMBOL FOR DELETE" -> 9249
      [] name = "BLANK SYMBOL" -> 9250
      [] name = "OPEN BOX" -> 9251
      [] name = "SYMBOL FOR NEWLINE" -> 9252
      [] name = "SYMBOL FOR DELETE FORM TWO" -> 9253
      [] name = "SYMBOL FOR SUBSTITUTE FORM TWO" -> 9254
      [] name = "OCR HOOK" -> 9280
      [] name = "OCR CHAIR" -> 9281
      [] name = "OCR FORK" -> 9282
      [] name = "OCR INVERTED FORK" -> 9283
      [] name = "OCR BELT BUCKLE" -> 9284
      [] name = "OCR BOW TIE" -> 9285
      [] name = "OCR BRANCH BANK IDENTIFICATION" -> 9286
      [] name = "OCR AMOUNT OF CHECK" -> 9287
      [] name = "MICR ON US SYMBOL" -> 9288
      [] name = "OCR DASH" -> 9288
      [] name = "MICR DASH SYMBOL" -> 9289
      [] name = "OCR CUSTOMER ACCOUNT NUMBER" -> 9289
      [] name = "OCR DOUBLE BACKSLASH" -> 9290
      [] name = "CIRCLED DIGIT ONE" -> 9312
      [] name = "CIRCLED DIGIT TWO" -> 9313
      [] name = "CIRCLED DIGIT THREE" -> 9314
      [] name = "CIRCLED DIGIT FOUR" -> 9315
      [] name = "CIRCLED DIGIT FIVE" -> 9316
      [] name = "CIRCLED DIGIT SIX" -> 9317
      [] name = "CIRCLED DIGIT SEVEN" -> 9318
      [] name = "CIRCLED DIGIT EIGHT" -> 9319
      [] name = "CIRCLED DIGIT NINE" -> 9320
      [] name = "CIRCLED NUMBER TEN" -> 9321
      [] name = "CIRCLED NUMBER ELEVEN" -> 9322
      [] name = "CIRCLED NUMBER TWELVE" -> 9323
      [] name = "CIRCLED NUMBER THIRTEEN" -> 9324
      [] name = "CIRCLED NUMBER FOURTEEN" -> 9325
      [] name = "CIRCLED NUMBER FIFTEEN" -> 9326
      [] name = "CIRCLED NUMBER SIXTEEN" -> 9327
      [] name = "CIRCLED NUMBER SEVENTEEN" -> 9328
      [] name = "CIRCLED NUMBER EIGHTEEN" -> 9329
      [] name = "CIRCLED NUMBER NINETEEN" -> 9330
      [] name = "CIRCLED NUMBER TWENTY" -> 9331
      [] name = "PARENTHESIZED DIGIT ONE" -> 9332
      [] name = "PARENTHESIZED DIGIT TWO" -> 9333
      [] name = "PARENTHESIZED DIGIT THREE" -> 9334
      [] name = "PARENTHESIZED DIGIT FOUR" -> 9335
      [] name = "PARENTHESIZED DIGIT FIVE" -> 9336
      [] name = "PARENTHESIZED DIGIT SIX" -> 9337
      [] name = "PARENTHESIZED DIGIT SEVEN" -> 9338
      [] name = "PARENTHESIZED DIGIT EIGHT" -> 9339
      [] name = "PARENTHESIZED DIGIT NINE" -> 9340
      [] name = "PARENTHESIZED NUMBER TEN" -> 9341
      [] name = "PARENTHESIZED NUMBER ELEVEN" -> 9342
      [] name = "PARENTHESIZED NUMBER TWELVE" -> 9343
      [] name = "PARENTHESIZED NUMBER THIRTEEN" -> 9344
      [] name = "PARENTHESIZED NUMBER FOURTEEN" -> 9345
      [] name = "PARENTHESIZED NUMBER FIFTEEN" -> 9346
      [] name = "PARENTHESIZED NUMBER SIXTEEN" -> 9347
      [] name = "PARENTHESIZED NUMBER SEVENTEEN" -> 9348
      [] name = "PARENTHESIZED NUMBER EIGHTEEN" -> 9349
      [] name = "PARENTHESIZED NUMBER NINETEEN" -> 9350
      [] name = "PARENTHESIZED NUMBER TWENTY" -> 9351
      [] name = "DIGIT ONE FULL STOP" -> 9352
      [] name = "DIGIT TWO FULL STOP" -> 9353
      [] name = "DIGIT THREE FULL STOP" -> 9354
      [] name = "DIGIT FOUR FULL STOP" -> 9355
      [] name = "DIGIT FIVE FULL STOP" -> 9356
      [] name = "DIGIT SIX FULL STOP" -> 9357
      [] name = "DIGIT SEVEN FULL STOP" -> 9358
      [] name = "DIGIT EIGHT FULL STOP" -> 9359
      [] name = "DIGIT NINE FULL STOP" -> 9360
      [] name = "NUMBER TEN FULL STOP" -> 9361
      [] name = "NUMBER ELEVEN FULL STOP" -> 9362
      [] name = "NUMBER TWELVE FULL STOP" -> 9363
      [] name = "NUMBER THIRTEEN FULL STOP" -> 9364
      [] name = "NUMBER FOURTEEN FULL STOP" -> 9365
      [] name = "NUMBER FIFTEEN FULL STOP" -> 9366
      [] name = "NUMBER SIXTEEN FULL STOP" -> 9367
      [] name = "NUMBER SEVENTEEN FULL STOP" -> 9368
      [] name = "NUMBER EIGHTEEN FULL STOP" -> 9369
      [] name = "NUMBER NINETEEN FULL STOP" -> 9370
      [] name = "NUMBER TWENTY FULL STOP" -> 9371
      [] name = "PARENTHESIZED LATIN SMALL LETTER A" -> 9372
      [] name = "PARENTHESIZED LATIN SMALL LETTER B" -> 9373
      [] name = "PARENTHESIZED LATIN SMALL LETTER C" -> 9374
      [] name = "PARENTHESIZED LATIN SMALL LETTER D" -> 9375
      [] name = "PARENTHESIZED LATIN SMALL LETTER E" -> 9376
      [] name = "PARENTHESIZED LATIN SMALL LETTER F" -> 9377
      [] name = "PARENTHESIZED LATIN SMALL LETTER G" -> 9378
      [] name = "PARENTHESIZED LATIN SMALL LETTER H" -> 9379
      [] name = "PARENTHESIZED LATIN SMALL LETTER I" -> 9380
      [] name = "PARENTHESIZED LATIN SMALL LETTER J" -> 9381
      [] name = "PARENTHESIZED LATIN SMALL LETTER K" -> 9382
      [] name = "PARENTHESIZED LATIN SMALL LETTER L" -> 9383
      [] name = "PARENTHESIZED LATIN SMALL LETTER M" -> 9384
      [] name = "PARENTHESIZED LATIN SMALL LETTER N" -> 9385
      [] name = "PARENTHESIZED LATIN SMALL LETTER O" -> 9386
      [] name = "PARENTHESIZED LATIN SMALL LETTER P" -> 9387
      [] name = "PARENTHESIZED LATIN SMALL LETTER Q" -> 9388
      [] name = "PARENTHESIZED LATIN SMALL LETTER R" -> 9389
      [] name = "PARENTHESIZED LATIN SMALL LETTER S" -> 9390
      [] name = "PARENTHESIZED LATIN SMALL LETTER T" -> 9391
      [] name = "PARENTHESIZED LATIN SMALL LETTER U" -> 9392
      [] name = "PARENTHESIZED LATIN SMALL LETTER V" -> 9393
      [] name = "PARENTHESIZED LATIN SMALL LETTER W" -> 9394
      [] name = "PARENTHESIZED LATIN SMALL LETTER X" -> 9395
      [] name = "PARENTHESIZED LATIN SMALL LETTER Y" -> 9396
      [] name = "PARENTHESIZED LATIN SMALL LETTER Z" -> 9397
      [] name = "CIRCLED LATIN CAPITAL LETTER A" -> 9398
      [] name = "CIRCLED LATIN CAPITAL LETTER B" -> 9399
      [] name = "CIRCLED LATIN CAPITAL LETTER C" -> 9400
      [] name = "CIRCLED LATIN CAPITAL LETTER D" -> 9401
      [] name = "CIRCLED LATIN CAPITAL LETTER E" -> 9402
      [] name = "CIRCLED LATIN CAPITAL LETTER F" -> 9403
      [] name = "CIRCLED LATIN CAPITAL LETTER G" -> 9404
      [] name = "CIRCLED LATIN CAPITAL LETTER H" -> 9405
      [] name = "CIRCLED LATIN CAPITAL LETTER I" -> 9406
      [] name = "CIRCLED LATIN CAPITAL LETTER J" -> 9407
      [] name = "CIRCLED LATIN CAPITAL LETTER K" -> 9408
      [] name = "CIRCLED LATIN CAPITAL LETTER L" -> 9409
      [] name = "CIRCLED LATIN CAPITAL LETTER M" -> 9410
      [] name = "CIRCLED LATIN CAPITAL LETTER N" -> 9411
      [] name = "CIRCLED LATIN CAPITAL LETTER O" -> 9412
      [] name = "CIRCLED LATIN CAPITAL LETTER P" -> 9413
      [] name = "CIRCLED LATIN CAPITAL LETTER Q" -> 9414
      [] name = "CIRCLED LATIN CAPITAL LETTER R" -> 9415
      [] name = "CIRCLED LATIN CAPITAL LETTER S" -> 9416
      [] name = "CIRCLED LATIN CAPITAL LETTER T" -> 9417
      [] name = "CIRCLED LATIN CAPITAL LETTER U" -> 9418
      [] name = "CIRCLED LATIN CAPITAL LETTER V" -> 9419
      [] name = "CIRCLED LATIN CAPITAL LETTER W" -> 9420
      [] name = "CIRCLED LATIN CAPITAL LETTER X" -> 9421
      [] name = "CIRCLED LATIN CAPITAL LETTER Y" -> 9422
      [] name = "CIRCLED LATIN CAPITAL LETTER Z" -> 9423
      [] name = "CIRCLED LATIN SMALL LETTER A" -> 9424
      [] name = "CIRCLED LATIN SMALL LETTER B" -> 9425
      [] name = "CIRCLED LATIN SMALL LETTER C" -> 9426
      [] name = "CIRCLED LATIN SMALL LETTER D" -> 9427
      [] name = "CIRCLED LATIN SMALL LETTER E" -> 9428
      [] name = "CIRCLED LATIN SMALL LETTER F" -> 9429
      [] name = "CIRCLED LATIN SMALL LETTER G" -> 9430
      [] name = "CIRCLED LATIN SMALL LETTER H" -> 9431
      [] name = "CIRCLED LATIN SMALL LETTER I" -> 9432
      [] name = "CIRCLED LATIN SMALL LETTER J" -> 9433
      [] name = "CIRCLED LATIN SMALL LETTER K" -> 9434
      [] name = "CIRCLED LATIN SMALL LETTER L" -> 9435
      [] name = "CIRCLED LATIN SMALL LETTER M" -> 9436
      [] name = "CIRCLED LATIN SMALL LETTER N" -> 9437
      [] name = "CIRCLED LATIN SMALL LETTER O" -> 9438
      [] name = "CIRCLED LATIN SMALL LETTER P" -> 9439
      [] name = "CIRCLED LATIN SMALL LETTER Q" -> 9440
      [] name = "CIRCLED LATIN SMALL LETTER R" -> 9441
      [] name = "CIRCLED LATIN SMALL LETTER S" -> 9442
      [] name = "CIRCLED LATIN SMALL LETTER T" -> 9443
      [] name = "CIRCLED LATIN SMALL LETTER U" -> 9444
      [] name = "CIRCLED LATIN SMALL LETTER V" -> 9445
      [] name = "CIRCLED LATIN SMALL LETTER W" -> 9446
      [] name = "CIRCLED LATIN SMALL LETTER X" -> 9447
      [] name = "CIRCLED LATIN SMALL LETTER Y" -> 9448
      [] name = "CIRCLED LATIN SMALL LETTER Z" -> 9449
      [] name = "CIRCLED DIGIT ZERO" -> 9450
      [] name = "NEGATIVE CIRCLED NUMBER ELEVEN" -> 9451
      [] name = "NEGATIVE CIRCLED NUMBER TWELVE" -> 9452
      [] name = "NEGATIVE CIRCLED NUMBER THIRTEEN" -> 9453
      [] name = "NEGATIVE CIRCLED NUMBER FOURTEEN" -> 9454
      [] name = "NEGATIVE CIRCLED NUMBER FIFTEEN" -> 9455
      [] name = "NEGATIVE CIRCLED NUMBER SIXTEEN" -> 9456
      [] name = "NEGATIVE CIRCLED NUMBER SEVENTEEN" -> 9457
      [] name = "NEGATIVE CIRCLED NUMBER EIGHTEEN" -> 9458
      [] name = "NEGATIVE CIRCLED NUMBER NINETEEN" -> 9459
      [] name = "NEGATIVE CIRCLED NUMBER TWENTY" -> 9460
      [] name = "DOUBLE CIRCLED DIGIT ONE" -> 9461
      [] name = "DOUBLE CIRCLED DIGIT TWO" -> 9462
      [] name = "DOUBLE CIRCLED DIGIT THREE" -> 9463
      [] name = "DOUBLE CIRCLED DIGIT FOUR" -> 9464
      [] name = "DOUBLE CIRCLED DIGIT FIVE" -> 9465
      [] name = "DOUBLE CIRCLED DIGIT SIX" -> 9466
      [] name = "DOUBLE CIRCLED DIGIT SEVEN" -> 9467
      [] name = "DOUBLE CIRCLED DIGIT EIGHT" -> 9468
      [] name = "DOUBLE CIRCLED DIGIT NINE" -> 9469
      [] name = "DOUBLE CIRCLED NUMBER TEN" -> 9470
      [] name = "NEGATIVE CIRCLED DIGIT ZERO" -> 9471
      [] name = "BOX DRAWINGS LIGHT HORIZONTAL" -> 9472
      [] name = "BOX DRAWINGS HEAVY HORIZONTAL" -> 9473
      [] name = "BOX DRAWINGS LIGHT VERTICAL" -> 9474
      [] name = "BOX DRAWINGS HEAVY VERTICAL" -> 9475
      [] name = "BOX DRAWINGS LIGHT TRIPLE DASH HORIZONTAL" -> 9476
      [] name = "BOX DRAWINGS HEAVY TRIPLE DASH HORIZONTAL" -> 9477
      [] name = "BOX DRAWINGS LIGHT TRIPLE DASH VERTICAL" -> 9478
      [] name = "BOX DRAWINGS HEAVY TRIPLE DASH VERTICAL" -> 9479
      [] name = "BOX DRAWINGS LIGHT QUADRUPLE DASH HORIZONTAL" -> 9480
      [] name = "BOX DRAWINGS HEAVY QUADRUPLE DASH HORIZONTAL" -> 9481
      [] name = "BOX DRAWINGS LIGHT QUADRUPLE DASH VERTICAL" -> 9482
      [] name = "BOX DRAWINGS HEAVY QUADRUPLE DASH VERTICAL" -> 9483
      [] name = "BOX DRAWINGS LIGHT DOWN AND RIGHT" -> 9484
      [] name = "BOX DRAWINGS DOWN LIGHT AND RIGHT HEAVY" -> 9485
      [] name = "BOX DRAWINGS DOWN HEAVY AND RIGHT LIGHT" -> 9486
      [] name = "BOX DRAWINGS HEAVY DOWN AND RIGHT" -> 9487
      [] name = "BOX DRAWINGS LIGHT DOWN AND LEFT" -> 9488
      [] name = "BOX DRAWINGS DOWN LIGHT AND LEFT HEAVY" -> 9489
      [] name = "BOX DRAWINGS DOWN HEAVY AND LEFT LIGHT" -> 9490
      [] name = "BOX DRAWINGS HEAVY DOWN AND LEFT" -> 9491
      [] name = "BOX DRAWINGS LIGHT UP AND RIGHT" -> 9492
      [] name = "BOX DRAWINGS UP LIGHT AND RIGHT HEAVY" -> 9493
      [] name = "BOX DRAWINGS UP HEAVY AND RIGHT LIGHT" -> 9494
      [] name = "BOX DRAWINGS HEAVY UP AND RIGHT" -> 9495
      [] name = "BOX DRAWINGS LIGHT UP AND LEFT" -> 9496
      [] name = "BOX DRAWINGS UP LIGHT AND LEFT HEAVY" -> 9497
      [] name = "BOX DRAWINGS UP HEAVY AND LEFT LIGHT" -> 9498
      [] name = "BOX DRAWINGS HEAVY UP AND LEFT" -> 9499
      [] name = "BOX DRAWINGS LIGHT VERTICAL AND RIGHT" -> 9500
      [] name = "BOX DRAWINGS VERTICAL LIGHT AND RIGHT HEAVY" -> 9501
      [] name = "BOX DRAWINGS UP HEAVY AND RIGHT DOWN LIGHT" -> 9502
      [] name = "BOX DRAWINGS DOWN HEAVY AND RIGHT UP LIGHT" -> 9503
      [] name = "BOX DRAWINGS VERTICAL HEAVY AND RIGHT LIGHT" -> 9504
      [] name = "BOX DRAWINGS DOWN LIGHT AND RIGHT UP HEAVY" -> 9505
      [] name = "BOX DRAWINGS UP LIGHT AND RIGHT DOWN HEAVY" -> 9506
      [] name = "BOX DRAWINGS HEAVY VERTICAL AND RIGHT" -> 9507
      [] name = "BOX DRAWINGS LIGHT VERTICAL AND LEFT" -> 9508
      [] name = "BOX DRAWINGS VERTICAL LIGHT AND LEFT HEAVY" -> 9509
      [] name = "BOX DRAWINGS UP HEAVY AND LEFT DOWN LIGHT" -> 9510
      [] name = "BOX DRAWINGS DOWN HEAVY AND LEFT UP LIGHT" -> 9511
      [] name = "BOX DRAWINGS VERTICAL HEAVY AND LEFT LIGHT" -> 9512
      [] name = "BOX DRAWINGS DOWN LIGHT AND LEFT UP HEAVY" -> 9513
      [] name = "BOX DRAWINGS UP LIGHT AND LEFT DOWN HEAVY" -> 9514
      [] name = "BOX DRAWINGS HEAVY VERTICAL AND LEFT" -> 9515
      [] name = "BOX DRAWINGS LIGHT DOWN AND HORIZONTAL" -> 9516
      [] name = "BOX DRAWINGS LEFT HEAVY AND RIGHT DOWN LIGHT" -> 9517
      [] name = "BOX DRAWINGS RIGHT HEAVY AND LEFT DOWN LIGHT" -> 9518
      [] name = "BOX DRAWINGS DOWN LIGHT AND HORIZONTAL HEAVY" -> 9519
      [] name = "BOX DRAWINGS DOWN HEAVY AND HORIZONTAL LIGHT" -> 9520
      [] name = "BOX DRAWINGS RIGHT LIGHT AND LEFT DOWN HEAVY" -> 9521
      [] name = "BOX DRAWINGS LEFT LIGHT AND RIGHT DOWN HEAVY" -> 9522
      [] name = "BOX DRAWINGS HEAVY DOWN AND HORIZONTAL" -> 9523
      [] name = "BOX DRAWINGS LIGHT UP AND HORIZONTAL" -> 9524
      [] name = "BOX DRAWINGS LEFT HEAVY AND RIGHT UP LIGHT" -> 9525
      [] name = "BOX DRAWINGS RIGHT HEAVY AND LEFT UP LIGHT" -> 9526
      [] name = "BOX DRAWINGS UP LIGHT AND HORIZONTAL HEAVY" -> 9527
      [] name = "BOX DRAWINGS UP HEAVY AND HORIZONTAL LIGHT" -> 9528
      [] name = "BOX DRAWINGS RIGHT LIGHT AND LEFT UP HEAVY" -> 9529
      [] name = "BOX DRAWINGS LEFT LIGHT AND RIGHT UP HEAVY" -> 9530
      [] name = "BOX DRAWINGS HEAVY UP AND HORIZONTAL" -> 9531
      [] name = "BOX DRAWINGS LIGHT VERTICAL AND HORIZONTAL" -> 9532
      [] name = "BOX DRAWINGS LEFT HEAVY AND RIGHT VERTICAL LIGHT" -> 9533
      [] name = "BOX DRAWINGS RIGHT HEAVY AND LEFT VERTICAL LIGHT" -> 9534
      [] name = "BOX DRAWINGS VERTICAL LIGHT AND HORIZONTAL HEAVY" -> 9535
      [] name = "BOX DRAWINGS UP HEAVY AND DOWN HORIZONTAL LIGHT" -> 9536
      [] name = "BOX DRAWINGS DOWN HEAVY AND UP HORIZONTAL LIGHT" -> 9537
      [] name = "BOX DRAWINGS VERTICAL HEAVY AND HORIZONTAL LIGHT" -> 9538
      [] name = "BOX DRAWINGS LEFT UP HEAVY AND RIGHT DOWN LIGHT" -> 9539
      [] name = "BOX DRAWINGS RIGHT UP HEAVY AND LEFT DOWN LIGHT" -> 9540
      [] name = "BOX DRAWINGS LEFT DOWN HEAVY AND RIGHT UP LIGHT" -> 9541
      [] name = "BOX DRAWINGS RIGHT DOWN HEAVY AND LEFT UP LIGHT" -> 9542
      [] name = "BOX DRAWINGS DOWN LIGHT AND UP HORIZONTAL HEAVY" -> 9543
      [] name = "BOX DRAWINGS UP LIGHT AND DOWN HORIZONTAL HEAVY" -> 9544
      [] name = "BOX DRAWINGS RIGHT LIGHT AND LEFT VERTICAL HEAVY" -> 9545
      [] name = "BOX DRAWINGS LEFT LIGHT AND RIGHT VERTICAL HEAVY" -> 9546
      [] name = "BOX DRAWINGS HEAVY VERTICAL AND HORIZONTAL" -> 9547
      [] name = "BOX DRAWINGS LIGHT DOUBLE DASH HORIZONTAL" -> 9548
      [] name = "BOX DRAWINGS HEAVY DOUBLE DASH HORIZONTAL" -> 9549
      [] name = "BOX DRAWINGS LIGHT DOUBLE DASH VERTICAL" -> 9550
      [] name = "BOX DRAWINGS HEAVY DOUBLE DASH VERTICAL" -> 9551
      [] name = "BOX DRAWINGS DOUBLE HORIZONTAL" -> 9552
      [] name = "BOX DRAWINGS DOUBLE VERTICAL" -> 9553
      [] name = "BOX DRAWINGS DOWN SINGLE AND RIGHT DOUBLE" -> 9554
      [] name = "BOX DRAWINGS DOWN DOUBLE AND RIGHT SINGLE" -> 9555
      [] name = "BOX DRAWINGS DOUBLE DOWN AND RIGHT" -> 9556
      [] name = "BOX DRAWINGS DOWN SINGLE AND LEFT DOUBLE" -> 9557
      [] name = "BOX DRAWINGS DOWN DOUBLE AND LEFT SINGLE" -> 9558
      [] name = "BOX DRAWINGS DOUBLE DOWN AND LEFT" -> 9559
      [] name = "BOX DRAWINGS UP SINGLE AND RIGHT DOUBLE" -> 9560
      [] name = "BOX DRAWINGS UP DOUBLE AND RIGHT SINGLE" -> 9561
      [] name = "BOX DRAWINGS DOUBLE UP AND RIGHT" -> 9562
      [] name = "BOX DRAWINGS UP SINGLE AND LEFT DOUBLE" -> 9563
      [] name = "BOX DRAWINGS UP DOUBLE AND LEFT SINGLE" -> 9564
      [] name = "BOX DRAWINGS DOUBLE UP AND LEFT" -> 9565
      [] name = "BOX DRAWINGS VERTICAL SINGLE AND RIGHT DOUBLE" -> 9566
      [] name = "BOX DRAWINGS VERTICAL DOUBLE AND RIGHT SINGLE" -> 9567
      [] name = "BOX DRAWINGS DOUBLE VERTICAL AND RIGHT" -> 9568
      [] name = "BOX DRAWINGS VERTICAL SINGLE AND LEFT DOUBLE" -> 9569
      [] name = "BOX DRAWINGS VERTICAL DOUBLE AND LEFT SINGLE" -> 9570
      [] name = "BOX DRAWINGS DOUBLE VERTICAL AND LEFT" -> 9571
      [] name = "BOX DRAWINGS DOWN SINGLE AND HORIZONTAL DOUBLE" -> 9572
      [] name = "BOX DRAWINGS DOWN DOUBLE AND HORIZONTAL SINGLE" -> 9573
      [] name = "BOX DRAWINGS DOUBLE DOWN AND HORIZONTAL" -> 9574
      [] name = "BOX DRAWINGS UP SINGLE AND HORIZONTAL DOUBLE" -> 9575
      [] name = "BOX DRAWINGS UP DOUBLE AND HORIZONTAL SINGLE" -> 9576
      [] name = "BOX DRAWINGS DOUBLE UP AND HORIZONTAL" -> 9577
      [] name = "BOX DRAWINGS VERTICAL SINGLE AND HORIZONTAL DOUBLE" -> 9578
      [] name = "BOX DRAWINGS VERTICAL DOUBLE AND HORIZONTAL SINGLE" -> 9579
      [] name = "BOX DRAWINGS DOUBLE VERTICAL AND HORIZONTAL" -> 9580
      [] name = "BOX DRAWINGS LIGHT ARC DOWN AND RIGHT" -> 9581
      [] name = "BOX DRAWINGS LIGHT ARC DOWN AND LEFT" -> 9582
      [] name = "BOX DRAWINGS LIGHT ARC UP AND LEFT" -> 9583
      [] name = "BOX DRAWINGS LIGHT ARC UP AND RIGHT" -> 9584
      [] name = "BOX DRAWINGS LIGHT DIAGONAL UPPER RIGHT TO LOWER LEFT" -> 9585
      [] name = "BOX DRAWINGS LIGHT DIAGONAL UPPER LEFT TO LOWER RIGHT" -> 9586
      [] name = "BOX DRAWINGS LIGHT DIAGONAL CROSS" -> 9587
      [] name = "BOX DRAWINGS LIGHT LEFT" -> 9588
      [] name = "BOX DRAWINGS LIGHT UP" -> 9589
      [] name = "BOX DRAWINGS LIGHT RIGHT" -> 9590
      [] name = "BOX DRAWINGS LIGHT DOWN" -> 9591
      [] name = "BOX DRAWINGS HEAVY LEFT" -> 9592
      [] name = "BOX DRAWINGS HEAVY UP" -> 9593
      [] name = "BOX DRAWINGS HEAVY RIGHT" -> 9594
      [] name = "BOX DRAWINGS HEAVY DOWN" -> 9595
      [] name = "BOX DRAWINGS LIGHT LEFT AND HEAVY RIGHT" -> 9596
      [] name = "BOX DRAWINGS LIGHT UP AND HEAVY DOWN" -> 9597
      [] name = "BOX DRAWINGS HEAVY LEFT AND LIGHT RIGHT" -> 9598
      [] name = "BOX DRAWINGS HEAVY UP AND LIGHT DOWN" -> 9599
      [] name = "UPPER HALF BLOCK" -> 9600
      [] name = "LOWER ONE EIGHTH BLOCK" -> 9601
      [] name = "LOWER ONE QUARTER BLOCK" -> 9602
      [] name = "LOWER THREE EIGHTHS BLOCK" -> 9603
      [] name = "LOWER HALF BLOCK" -> 9604
      [] name = "LOWER FIVE EIGHTHS BLOCK" -> 9605
      [] name = "LOWER THREE QUARTERS BLOCK" -> 9606
      [] name = "LOWER SEVEN EIGHTHS BLOCK" -> 9607
      [] name = "FULL BLOCK" -> 9608
      [] name = "LEFT SEVEN EIGHTHS BLOCK" -> 9609
      [] name = "LEFT THREE QUARTERS BLOCK" -> 9610
      [] name = "LEFT FIVE EIGHTHS BLOCK" -> 9611
      [] name = "LEFT HALF BLOCK" -> 9612
      [] name = "LEFT THREE EIGHTHS BLOCK" -> 9613
      [] name = "LEFT ONE QUARTER BLOCK" -> 9614
      [] name = "LEFT ONE EIGHTH BLOCK" -> 9615
      [] name = "RIGHT HALF BLOCK" -> 9616
      [] name = "LIGHT SHADE" -> 9617
      [] name = "MEDIUM SHADE" -> 9618
      [] name = "DARK SHADE" -> 9619
      [] name = "UPPER ONE EIGHTH BLOCK" -> 9620
      [] name = "RIGHT ONE EIGHTH BLOCK" -> 9621
      [] name = "QUADRANT LOWER LEFT" -> 9622
      [] name = "QUADRANT LOWER RIGHT" -> 9623
      [] name = "QUADRANT UPPER LEFT" -> 9624
      [] name = "QUADRANT UPPER LEFT AND LOWER LEFT AND LOWER RIGHT" -> 9625
      [] name = "QUADRANT UPPER LEFT AND LOWER RIGHT" -> 9626
      [] name = "QUADRANT UPPER LEFT AND UPPER RIGHT AND LOWER LEFT" -> 9627
      [] name = "QUADRANT UPPER LEFT AND UPPER RIGHT AND LOWER RIGHT" -> 9628
      [] name = "QUADRANT UPPER RIGHT" -> 9629
      [] name = "QUADRANT UPPER RIGHT AND LOWER LEFT" -> 9630
      [] name = "QUADRANT UPPER RIGHT AND LOWER LEFT AND LOWER RIGHT" -> 9631
      [] name = "BLACK SQUARE" -> 9632
      [] name = "WHITE SQUARE" -> 9633
      [] name = "WHITE SQUARE WITH ROUNDED CORNERS" -> 9634
      [] name = "WHITE SQUARE CONTAINING BLACK SMALL SQUARE" -> 9635
      [] name = "SQUARE WITH HORIZONTAL FILL" -> 9636
      [] name = "SQUARE WITH VERTICAL FILL" -> 9637
      [] name = "SQUARE WITH ORTHOGONAL CROSSHATCH FILL" -> 9638
      [] name = "SQUARE WITH UPPER LEFT TO LOWER RIGHT FILL" -> 9639
      [] name = "SQUARE WITH UPPER RIGHT TO LOWER LEFT FILL" -> 9640
      [] name = "SQUARE WITH DIAGONAL CROSSHATCH FILL" -> 9641
      [] name = "BLACK SMALL SQUARE" -> 9642
      [] name = "WHITE SMALL SQUARE" -> 9643
      [] name = "BLACK RECTANGLE" -> 9644
      [] name = "WHITE RECTANGLE" -> 9645
      [] name = "BLACK VERTICAL RECTANGLE" -> 9646
      [] name = "WHITE VERTICAL RECTANGLE" -> 9647
      [] name = "BLACK PARALLELOGRAM" -> 9648
      [] name = "WHITE PARALLELOGRAM" -> 9649
      [] name = "BLACK UP-POINTING TRIANGLE" -> 9650
      [] name = "WHITE UP-POINTING TRIANGLE" -> 9651
      [] name = "BLACK UP-POINTING SMALL TRIANGLE" -> 9652
      [] name = "WHITE UP-POINTING SMALL TRIANGLE" -> 9653
      [] name = "BLACK RIGHT-POINTING TRIANGLE" -> 9654
      [] name = "WHITE RIGHT-POINTING TRIANGLE" -> 9655
      [] name = "BLACK RIGHT-POINTING SMALL TRIANGLE" -> 9656
      [] name = "WHITE RIGHT-POINTING SMALL TRIANGLE" -> 9657
      [] name = "BLACK RIGHT-POINTING POINTER" -> 9658
      [] name = "WHITE RIGHT-POINTING POINTER" -> 9659
      [] name = "BLACK DOWN-POINTING TRIANGLE" -> 9660
      [] name = "WHITE DOWN-POINTING TRIANGLE" -> 9661
      [] name = "BLACK DOWN-POINTING SMALL TRIANGLE" -> 9662
      [] name = "WHITE DOWN-POINTING SMALL TRIANGLE" -> 9663
      [] name = "BLACK LEFT-POINTING TRIANGLE" -> 9664
      [] name = "WHITE LEFT-POINTING TRIANGLE" -> 9665
      [] name = "BLACK LEFT-POINTING SMALL TRIANGLE" -> 9666
      [] name = "WHITE LEFT-POINTING SMALL TRIANGLE" -> 9667
      [] name = "BLACK LEFT-POINTING POINTER" -> 9668
      [] name = "WHITE LEFT-POINTING POINTER" -> 9669
      [] name = "BLACK DIAMOND" -> 9670
      [] name = "WHITE DIAMOND" -> 9671
      [] name = "WHITE DIAMOND CONTAINING BLACK SMALL DIAMOND" -> 9672
      [] name = "FISHEYE" -> 9673
      [] name = "LOZENGE" -> 9674
      [] name = "WHITE CIRCLE" -> 9675
      [] name = "DOTTED CIRCLE" -> 9676
      [] name = "CIRCLE WITH VERTICAL FILL" -> 9677
      [] name = "BULLSEYE" -> 9678
      [] name = "BLACK CIRCLE" -> 9679
      [] name = "CIRCLE WITH LEFT HALF BLACK" -> 9680
      [] name = "CIRCLE WITH RIGHT HALF BLACK" -> 9681
      [] name = "CIRCLE WITH LOWER HALF BLACK" -> 9682
      [] name = "CIRCLE WITH UPPER HALF BLACK" -> 9683
      [] name = "CIRCLE WITH UPPER RIGHT QUADRANT BLACK" -> 9684
      [] name = "CIRCLE WITH ALL BUT UPPER LEFT QUADRANT BLACK" -> 9685
      [] name = "LEFT HALF BLACK CIRCLE" -> 9686
      [] name = "RIGHT HALF BLACK CIRCLE" -> 9687
      [] name = "INVERSE BULLET" -> 9688
      [] name = "INVERSE WHITE CIRCLE" -> 9689
      [] name = "UPPER HALF INVERSE WHITE CIRCLE" -> 9690
      [] name = "LOWER HALF INVERSE WHITE CIRCLE" -> 9691
      [] name = "UPPER LEFT QUADRANT CIRCULAR ARC" -> 9692
      [] name = "UPPER RIGHT QUADRANT CIRCULAR ARC" -> 9693
      [] name = "LOWER RIGHT QUADRANT CIRCULAR ARC" -> 9694
      [] name = "LOWER LEFT QUADRANT CIRCULAR ARC" -> 9695
      [] name = "UPPER HALF CIRCLE" -> 9696
      [] name = "LOWER HALF CIRCLE" -> 9697
      [] name = "BLACK LOWER RIGHT TRIANGLE" -> 9698
      [] name = "BLACK LOWER LEFT TRIANGLE" -> 9699
      [] name = "BLACK UPPER LEFT TRIANGLE" -> 9700
      [] name = "BLACK UPPER RIGHT TRIANGLE" -> 9701
      [] name = "WHITE BULLET" -> 9702
      [] name = "SQUARE WITH LEFT HALF BLACK" -> 9703
      [] name = "SQUARE WITH RIGHT HALF BLACK" -> 9704
      [] name = "SQUARE WITH UPPER LEFT DIAGONAL HALF BLACK" -> 9705
      [] name = "SQUARE WITH LOWER RIGHT DIAGONAL HALF BLACK" -> 9706
      [] name = "WHITE SQUARE WITH VERTICAL BISECTING LINE" -> 9707
      [] name = "WHITE UP-POINTING TRIANGLE WITH DOT" -> 9708
      [] name = "UP-POINTING TRIANGLE WITH LEFT HALF BLACK" -> 9709
      [] name = "UP-POINTING TRIANGLE WITH RIGHT HALF BLACK" -> 9710
      [] name = "LARGE CIRCLE" -> 9711
      [] name = "WHITE SQUARE WITH UPPER LEFT QUADRANT" -> 9712
      [] name = "WHITE SQUARE WITH LOWER LEFT QUADRANT" -> 9713
      [] name = "WHITE SQUARE WITH LOWER RIGHT QUADRANT" -> 9714
      [] name = "WHITE SQUARE WITH UPPER RIGHT QUADRANT" -> 9715
      [] name = "WHITE CIRCLE WITH UPPER LEFT QUADRANT" -> 9716
      [] name = "WHITE CIRCLE WITH LOWER LEFT QUADRANT" -> 9717
      [] name = "WHITE CIRCLE WITH LOWER RIGHT QUADRANT" -> 9718
      [] name = "WHITE CIRCLE WITH UPPER RIGHT QUADRANT" -> 9719
      [] name = "UPPER LEFT TRIANGLE" -> 9720
      [] name = "UPPER RIGHT TRIANGLE" -> 9721
      [] name = "LOWER LEFT TRIANGLE" -> 9722
      [] name = "WHITE MEDIUM SQUARE" -> 9723
      [] name = "BLACK MEDIUM SQUARE" -> 9724
      [] name = "WHITE MEDIUM SMALL SQUARE" -> 9725
      [] name = "BLACK MEDIUM SMALL SQUARE" -> 9726
      [] name = "LOWER RIGHT TRIANGLE" -> 9727
      [] name = "BLACK SUN WITH RAYS" -> 9728
      [] name = "CLOUD" -> 9729
      [] name = "UMBRELLA" -> 9730
      [] name = "SNOWMAN" -> 9731
      [] name = "COMET" -> 9732
      [] name = "BLACK STAR" -> 9733
      [] name = "WHITE STAR" -> 9734
      [] name = "LIGHTNING" -> 9735
      [] name = "THUNDERSTORM" -> 9736
      [] name = "SUN" -> 9737
      [] name = "ASCENDING NODE" -> 9738
      [] name = "DESCENDING NODE" -> 9739
      [] name = "CONJUNCTION" -> 9740
      [] name = "OPPOSITION" -> 9741
      [] name = "BLACK TELEPHONE" -> 9742
      [] name = "WHITE TELEPHONE" -> 9743
      [] name = "BALLOT BOX" -> 9744
      [] name = "BALLOT BOX WITH CHECK" -> 9745
      [] name = "BALLOT BOX WITH X" -> 9746
      [] name = "SALTIRE" -> 9747
      [] name = "UMBRELLA WITH RAIN DROPS" -> 9748
      [] name = "HOT BEVERAGE" -> 9749
      [] name = "WHITE SHOGI PIECE" -> 9750
      [] name = "BLACK SHOGI PIECE" -> 9751
      [] name = "SHAMROCK" -> 9752
      [] name = "REVERSED ROTATED FLORAL HEART BULLET" -> 9753
      [] name = "BLACK LEFT POINTING INDEX" -> 9754
      [] name = "BLACK RIGHT POINTING INDEX" -> 9755
      [] name = "WHITE LEFT POINTING INDEX" -> 9756
      [] name = "WHITE UP POINTING INDEX" -> 9757
      [] name = "WHITE RIGHT POINTING INDEX" -> 9758
      [] name = "WHITE DOWN POINTING INDEX" -> 9759
      [] name = "SKULL AND CROSSBONES" -> 9760
      [] name = "CAUTION SIGN" -> 9761
      [] name = "RADIOACTIVE SIGN" -> 9762
      [] name = "BIOHAZARD SIGN" -> 9763
      [] name = "CADUCEUS" -> 9764
      [] name = "ANKH" -> 9765
      [] name = "ORTHODOX CROSS" -> 9766
      [] name = "CHI RHO" -> 9767
      [] name = "CROSS OF LORRAINE" -> 9768
      [] name = "CROSS OF JERUSALEM" -> 9769
      [] name = "STAR AND CRESCENT" -> 9770
      [] name = "FARSI SYMBOL" -> 9771
      [] name = "ADI SHAKTI" -> 9772
      [] name = "HAMMER AND SICKLE" -> 9773
      [] name = "PEACE SYMBOL" -> 9774
      [] name = "YIN YANG" -> 9775
      [] name = "TRIGRAM FOR HEAVEN" -> 9776
      [] name = "TRIGRAM FOR LAKE" -> 9777
      [] name = "TRIGRAM FOR FIRE" -> 9778
      [] name = "TRIGRAM FOR THUNDER" -> 9779
      [] name = "TRIGRAM FOR WIND" -> 9780
      [] name = "TRIGRAM FOR WATER" -> 9781
      [] name = "TRIGRAM FOR MOUNTAIN" -> 9782
      [] name = "TRIGRAM FOR EARTH" -> 9783
      [] name = "WHEEL OF DHARMA" -> 9784
      [] name = "WHITE FROWNING FACE" -> 9785
      [] name = "WHITE SMILING FACE" -> 9786
      [] name = "BLACK SMILING FACE" -> 9787
      [] name = "WHITE SUN WITH RAYS" -> 9788
      [] name = "FIRST QUARTER MOON" -> 9789
      [] name = "LAST QUARTER MOON" -> 9790
      [] name = "MERCURY" -> 9791
      [] name = "FEMALE SIGN" -> 9792
      [] name = "EARTH" -> 9793
      [] name = "MALE SIGN" -> 9794
      [] name = "JUPITER" -> 9795
      [] name = "SATURN" -> 9796
      [] name = "URANUS" -> 9797
      [] name = "NEPTUNE" -> 9798
      [] name = "PLUTO" -> 9799
      [] name = "ARIES" -> 9800
      [] name = "TAURUS" -> 9801
      [] name = "GEMINI" -> 9802
      [] name = "CANCER" -> 9803
      [] name = "LEO" -> 9804
      [] name = "VIRGO" -> 9805
      [] name = "LIBRA" -> 9806
      [] name = "SCORPIUS" -> 9807
      [] name = "SAGITTARIUS" -> 9808
      [] name = "CAPRICORN" -> 9809
      [] name = "AQUARIUS" -> 9810
      [] name = "PISCES" -> 9811
      [] name = "WHITE CHESS KING" -> 9812
      [] name = "WHITE CHESS QUEEN" -> 9813
      [] name = "WHITE CHESS ROOK" -> 9814
      [] name = "WHITE CHESS BISHOP" -> 9815
      [] name = "WHITE CHESS KNIGHT" -> 9816
      [] name = "WHITE CHESS PAWN" -> 9817
      [] name = "BLACK CHESS KING" -> 9818
      [] name = "BLACK CHESS QUEEN" -> 9819
      [] name = "BLACK CHESS ROOK" -> 9820
      [] name = "BLACK CHESS BISHOP" -> 9821
      [] name = "BLACK CHESS KNIGHT" -> 9822
      [] name = "BLACK CHESS PAWN" -> 9823
      [] name = "BLACK SPADE SUIT" -> 9824
      [] name = "WHITE HEART SUIT" -> 9825
      [] name = "WHITE DIAMOND SUIT" -> 9826
      [] name = "BLACK CLUB SUIT" -> 9827
      [] name = "WHITE SPADE SUIT" -> 9828
      [] name = "BLACK HEART SUIT" -> 9829
      [] name = "BLACK DIAMOND SUIT" -> 9830
      [] name = "WHITE CLUB SUIT" -> 9831
      [] name = "HOT SPRINGS" -> 9832
      [] name = "QUARTER NOTE" -> 9833
      [] name = "EIGHTH NOTE" -> 9834
      [] name = "BEAMED EIGHTH NOTES" -> 9835
      [] name = "BEAMED SIXTEENTH NOTES" -> 9836
      [] name = "MUSIC FLAT SIGN" -> 9837
      [] name = "MUSIC NATURAL SIGN" -> 9838
      [] name = "MUSIC SHARP SIGN" -> 9839
      [] name = "WEST SYRIAC CROSS" -> 9840
      [] name = "EAST SYRIAC CROSS" -> 9841
      [] name = "UNIVERSAL RECYCLING SYMBOL" -> 9842
      [] name = "RECYCLING SYMBOL FOR TYPE-1 PLASTICS" -> 9843
      [] name = "RECYCLING SYMBOL FOR TYPE-2 PLASTICS" -> 9844
      [] name = "RECYCLING SYMBOL FOR TYPE-3 PLASTICS" -> 9845
      [] name = "RECYCLING SYMBOL FOR TYPE-4 PLASTICS" -> 9846
      [] name = "RECYCLING SYMBOL FOR TYPE-5 PLASTICS" -> 9847
      [] name = "RECYCLING SYMBOL FOR TYPE-6 PLASTICS" -> 9848
      [] name = "RECYCLING SYMBOL FOR TYPE-7 PLASTICS" -> 9849
      [] name = "RECYCLING SYMBOL FOR GENERIC MATERIALS" -> 9850
      [] name = "BLACK UNIVERSAL RECYCLING SYMBOL" -> 9851
      [] name = "RECYCLED PAPER SYMBOL" -> 9852
      [] name = "PARTIALLY-RECYCLED PAPER SYMBOL" -> 9853
      [] name = "PERMANENT PAPER SIGN" -> 9854
      [] name = "WHEELCHAIR SYMBOL" -> 9855
      [] name = "DIE FACE-1" -> 9856
      [] name = "DIE FACE-2" -> 9857
      [] name = "DIE FACE-3" -> 9858
      [] name = "DIE FACE-4" -> 9859
      [] name = "DIE FACE-5" -> 9860
      [] name = "DIE FACE-6" -> 9861
      [] name = "WHITE CIRCLE WITH DOT RIGHT" -> 9862
      [] name = "WHITE CIRCLE WITH TWO DOTS" -> 9863
      [] name = "BLACK CIRCLE WITH WHITE DOT RIGHT" -> 9864
      [] name = "BLACK CIRCLE WITH TWO WHITE DOTS" -> 9865
      [] name = "MONOGRAM FOR YANG" -> 9866
      [] name = "MONOGRAM FOR YIN" -> 9867
      [] name = "DIGRAM FOR GREATER YANG" -> 9868
      [] name = "DIGRAM FOR LESSER YIN" -> 9869
      [] name = "DIGRAM FOR LESSER YANG" -> 9870
      [] name = "DIGRAM FOR GREATER YIN" -> 9871
      [] name = "WHITE FLAG" -> 9872
      [] name = "BLACK FLAG" -> 9873
      [] name = "HAMMER AND PICK" -> 9874
      [] name = "ANCHOR" -> 9875
      [] name = "CROSSED SWORDS" -> 9876
      [] name = "STAFF OF AESCULAPIUS" -> 9877
      [] name = "SCALES" -> 9878
      [] name = "ALEMBIC" -> 9879
      [] name = "FLOWER" -> 9880
      [] name = "GEAR" -> 9881
      [] name = "STAFF OF HERMES" -> 9882
      [] name = "ATOM SYMBOL" -> 9883
      [] name = "FLEUR-DE-LIS" -> 9884
      [] name = "OUTLINED WHITE STAR" -> 9885
      [] name = "THREE LINES CONVERGING RIGHT" -> 9886
      [] name = "THREE LINES CONVERGING LEFT" -> 9887
      [] name = "WARNING SIGN" -> 9888
      [] name = "HIGH VOLTAGE SIGN" -> 9889
      [] name = "DOUBLED FEMALE SIGN" -> 9890
      [] name = "DOUBLED MALE SIGN" -> 9891
      [] name = "INTERLOCKED FEMALE AND MALE SIGN" -> 9892
      [] name = "MALE AND FEMALE SIGN" -> 9893
      [] name = "MALE WITH STROKE SIGN" -> 9894
      [] name = "MALE WITH STROKE AND MALE AND FEMALE SIGN" -> 9895
      [] name = "VERTICAL MALE WITH STROKE SIGN" -> 9896
      [] name = "HORIZONTAL MALE WITH STROKE SIGN" -> 9897
      [] name = "MEDIUM WHITE CIRCLE" -> 9898
      [] name = "MEDIUM BLACK CIRCLE" -> 9899
      [] name = "MEDIUM SMALL WHITE CIRCLE" -> 9900
      [] name = "MARRIAGE SYMBOL" -> 9901
      [] name = "DIVORCE SYMBOL" -> 9902
      [] name = "UNMARRIED PARTNERSHIP SYMBOL" -> 9903
      [] name = "COFFIN" -> 9904
      [] name = "FUNERAL URN" -> 9905
      [] name = "NEUTER" -> 9906
      [] name = "CERES" -> 9907
      [] name = "PALLAS" -> 9908
      [] name = "JUNO" -> 9909
      [] name = "VESTA" -> 9910
      [] name = "CHIRON" -> 9911
      [] name = "BLACK MOON LILITH" -> 9912
      [] name = "SEXTILE" -> 9913
      [] name = "SEMISEXTILE" -> 9914
      [] name = "QUINCUNX" -> 9915
      [] name = "SESQUIQUADRATE" -> 9916
      [] name = "SOCCER BALL" -> 9917
      [] name = "BASEBALL" -> 9918
      [] name = "SQUARED KEY" -> 9919
      [] name = "WHITE DRAUGHTS MAN" -> 9920
      [] name = "WHITE DRAUGHTS KING" -> 9921
      [] name = "BLACK DRAUGHTS MAN" -> 9922
      [] name = "BLACK DRAUGHTS KING" -> 9923
      [] name = "SNOWMAN WITHOUT SNOW" -> 9924
      [] name = "SUN BEHIND CLOUD" -> 9925
      [] name = "RAIN" -> 9926
      [] name = "BLACK SNOWMAN" -> 9927
      [] name = "THUNDER CLOUD AND RAIN" -> 9928
      [] name = "TURNED WHITE SHOGI PIECE" -> 9929
      [] name = "TURNED BLACK SHOGI PIECE" -> 9930
      [] name = "WHITE DIAMOND IN SQUARE" -> 9931
      [] name = "CROSSING LANES" -> 9932
      [] name = "DISABLED CAR" -> 9933
      [] name = "OPHIUCHUS" -> 9934
      [] name = "PICK" -> 9935
      [] name = "CAR SLIDING" -> 9936
      [] name = "HELMET WITH WHITE CROSS" -> 9937
      [] name = "CIRCLED CROSSING LANES" -> 9938
      [] name = "CHAINS" -> 9939
      [] name = "NO ENTRY" -> 9940
      [] name = "ALTERNATE ONE-WAY LEFT WAY TRAFFIC" -> 9941
      [] name = "BLACK TWO-WAY LEFT WAY TRAFFIC" -> 9942
      [] name = "WHITE TWO-WAY LEFT WAY TRAFFIC" -> 9943
      [] name = "BLACK LEFT LANE MERGE" -> 9944
      [] name = "WHITE LEFT LANE MERGE" -> 9945
      [] name = "DRIVE SLOW SIGN" -> 9946
      [] name = "HEAVY WHITE DOWN-POINTING TRIANGLE" -> 9947
      [] name = "LEFT CLOSED ENTRY" -> 9948
      [] name = "SQUARED SALTIRE" -> 9949
      [] name = "FALLING DIAGONAL IN WHITE CIRCLE IN BLACK SQUARE" -> 9950
      [] name = "BLACK TRUCK" -> 9951
      [] name = "RESTRICTED LEFT ENTRY-1" -> 9952
      [] name = "RESTRICTED LEFT ENTRY-2" -> 9953
      [] name = "ASTRONOMICAL SYMBOL FOR URANUS" -> 9954
      [] name = "HEAVY CIRCLE WITH STROKE AND TWO DOTS ABOVE" -> 9955
      [] name = "PENTAGRAM" -> 9956
      [] name = "RIGHT-HANDED INTERLACED PENTAGRAM" -> 9957
      [] name = "LEFT-HANDED INTERLACED PENTAGRAM" -> 9958
      [] name = "INVERTED PENTAGRAM" -> 9959
      [] name = "BLACK CROSS ON SHIELD" -> 9960
      [] name = "SHINTO SHRINE" -> 9961
      [] name = "CHURCH" -> 9962
      [] name = "CASTLE" -> 9963
      [] name = "HISTORIC SITE" -> 9964
      [] name = "GEAR WITHOUT HUB" -> 9965
      [] name = "GEAR WITH HANDLES" -> 9966
      [] name = "MAP SYMBOL FOR LIGHTHOUSE" -> 9967
      [] name = "MOUNTAIN" -> 9968
      [] name = "UMBRELLA ON GROUND" -> 9969
      [] name = "FOUNTAIN" -> 9970
      [] name = "FLAG IN HOLE" -> 9971
      [] name = "FERRY" -> 9972
      [] name = "SAILBOAT" -> 9973
      [] name = "SQUARE FOUR CORNERS" -> 9974
      [] name = "SKIER" -> 9975
      [] name = "ICE SKATE" -> 9976
      [] name = "PERSON WITH BALL" -> 9977
      [] name = "TENT" -> 9978
      [] name = "JAPANESE BANK SYMBOL" -> 9979
      [] name = "HEADSTONE GRAVEYARD SYMBOL" -> 9980
      [] name = "FUEL PUMP" -> 9981
      [] name = "CUP ON BLACK SQUARE" -> 9982
      [] name = "WHITE FLAG WITH HORIZONTAL MIDDLE BLACK STRIPE" -> 9983
      [] name = "BLACK SAFETY SCISSORS" -> 9984
      [] name = "UPPER BLADE SCISSORS" -> 9985
      [] name = "BLACK SCISSORS" -> 9986
      [] name = "LOWER BLADE SCISSORS" -> 9987
      [] name = "WHITE SCISSORS" -> 9988
      [] name = "WHITE HEAVY CHECK MARK" -> 9989
      [] name = "TELEPHONE LOCATION SIGN" -> 9990
      [] name = "TAPE DRIVE" -> 9991
      [] name = "AIRPLANE" -> 9992
      [] name = "ENVELOPE" -> 9993
      [] name = "RAISED FIST" -> 9994
      [] name = "RAISED HAND" -> 9995
      [] name = "VICTORY HAND" -> 9996
      [] name = "WRITING HAND" -> 9997
      [] name = "LOWER RIGHT PENCIL" -> 9998
      [] name = "PENCIL" -> 9999
      [] name = "UPPER RIGHT PENCIL" -> 10000
      [] name = "WHITE NIB" -> 10001
      [] name = "BLACK NIB" -> 10002
      [] name = "CHECK MARK" -> 10003
      [] name = "HEAVY CHECK MARK" -> 10004
      [] name = "MULTIPLICATION X" -> 10005
      [] name = "HEAVY MULTIPLICATION X" -> 10006
      [] name = "BALLOT X" -> 10007
      [] name = "HEAVY BALLOT X" -> 10008
      [] name = "OUTLINED GREEK CROSS" -> 10009
      [] name = "HEAVY GREEK CROSS" -> 10010
      [] name = "OPEN CENTRE CROSS" -> 10011
      [] name = "HEAVY OPEN CENTRE CROSS" -> 10012
      [] name = "LATIN CROSS" -> 10013
      [] name = "SHADOWED WHITE LATIN CROSS" -> 10014
      [] name = "OUTLINED LATIN CROSS" -> 10015
      [] name = "MALTESE CROSS" -> 10016
      [] name = "STAR OF DAVID" -> 10017
      [] name = "FOUR TEARDROP-SPOKED ASTERISK" -> 10018
      [] name = "FOUR BALLOON-SPOKED ASTERISK" -> 10019
      [] name = "HEAVY FOUR BALLOON-SPOKED ASTERISK" -> 10020
      [] name = "FOUR CLUB-SPOKED ASTERISK" -> 10021
      [] name = "BLACK FOUR POINTED STAR" -> 10022
      [] name = "WHITE FOUR POINTED STAR" -> 10023
      [] name = "SPARKLES" -> 10024
      [] name = "STRESS OUTLINED WHITE STAR" -> 10025
      [] name = "CIRCLED WHITE STAR" -> 10026
      [] name = "OPEN CENTRE BLACK STAR" -> 10027
      [] name = "BLACK CENTRE WHITE STAR" -> 10028
      [] name = "OUTLINED BLACK STAR" -> 10029
      [] name = "HEAVY OUTLINED BLACK STAR" -> 10030
      [] name = "PINWHEEL STAR" -> 10031
      [] name = "SHADOWED WHITE STAR" -> 10032
      [] name = "HEAVY ASTERISK" -> 10033
      [] name = "OPEN CENTRE ASTERISK" -> 10034
      [] name = "EIGHT SPOKED ASTERISK" -> 10035
      [] name = "EIGHT POINTED BLACK STAR" -> 10036
      [] name = "EIGHT POINTED PINWHEEL STAR" -> 10037
      [] name = "SIX POINTED BLACK STAR" -> 10038
      [] name = "EIGHT POINTED RECTILINEAR BLACK STAR" -> 10039
      [] name = "HEAVY EIGHT POINTED RECTILINEAR BLACK STAR" -> 10040
      [] name = "TWELVE POINTED BLACK STAR" -> 10041
      [] name = "SIXTEEN POINTED ASTERISK" -> 10042
      [] name = "TEARDROP-SPOKED ASTERISK" -> 10043
      [] name = "OPEN CENTRE TEARDROP-SPOKED ASTERISK" -> 10044
      [] name = "HEAVY TEARDROP-SPOKED ASTERISK" -> 10045
      [] name = "SIX PETALLED BLACK AND WHITE FLORETTE" -> 10046
      [] name = "BLACK FLORETTE" -> 10047
      [] name = "WHITE FLORETTE" -> 10048
      [] name = "EIGHT PETALLED OUTLINED BLACK FLORETTE" -> 10049
      [] name = "CIRCLED OPEN CENTRE EIGHT POINTED STAR" -> 10050
      [] name = "HEAVY TEARDROP-SPOKED PINWHEEL ASTERISK" -> 10051
      [] name = "SNOWFLAKE" -> 10052
      [] name = "TIGHT TRIFOLIATE SNOWFLAKE" -> 10053
      [] name = "HEAVY CHEVRON SNOWFLAKE" -> 10054
      [] name = "SPARKLE" -> 10055
      [] name = "HEAVY SPARKLE" -> 10056
      [] name = "BALLOON-SPOKED ASTERISK" -> 10057
      [] name = "EIGHT TEARDROP-SPOKED PROPELLER ASTERISK" -> 10058
      [] name = "HEAVY EIGHT TEARDROP-SPOKED PROPELLER ASTERISK" -> 10059
      [] name = "CROSS MARK" -> 10060
      [] name = "SHADOWED WHITE CIRCLE" -> 10061
      [] name = "NEGATIVE SQUARED CROSS MARK" -> 10062
      [] name = "LOWER RIGHT DROP-SHADOWED WHITE SQUARE" -> 10063
      [] name = "UPPER RIGHT DROP-SHADOWED WHITE SQUARE" -> 10064
      [] name = "LOWER RIGHT SHADOWED WHITE SQUARE" -> 10065
      [] name = "UPPER RIGHT SHADOWED WHITE SQUARE" -> 10066
      [] name = "BLACK QUESTION MARK ORNAMENT" -> 10067
      [] name = "WHITE QUESTION MARK ORNAMENT" -> 10068
      [] name = "WHITE EXCLAMATION MARK ORNAMENT" -> 10069
      [] name = "BLACK DIAMOND MINUS WHITE X" -> 10070
      [] name = "HEAVY EXCLAMATION MARK SYMBOL" -> 10071
      [] name = "LIGHT VERTICAL BAR" -> 10072
      [] name = "MEDIUM VERTICAL BAR" -> 10073
      [] name = "HEAVY VERTICAL BAR" -> 10074
      [] name = "HEAVY SINGLE TURNED COMMA QUOTATION MARK ORNAMENT" -> 10075
      [] name = "HEAVY SINGLE COMMA QUOTATION MARK ORNAMENT" -> 10076
      [] name = "HEAVY DOUBLE TURNED COMMA QUOTATION MARK ORNAMENT" -> 10077
      [] name = "HEAVY DOUBLE COMMA QUOTATION MARK ORNAMENT" -> 10078
      [] name = "HEAVY LOW SINGLE COMMA QUOTATION MARK ORNAMENT" -> 10079
      [] name = "HEAVY LOW DOUBLE COMMA QUOTATION MARK ORNAMENT" -> 10080
      [] name = "CURVED STEM PARAGRAPH SIGN ORNAMENT" -> 10081
      [] name = "HEAVY EXCLAMATION MARK ORNAMENT" -> 10082
      [] name = "HEAVY HEART EXCLAMATION MARK ORNAMENT" -> 10083
      [] name = "HEAVY BLACK HEART" -> 10084
      [] name = "ROTATED HEAVY BLACK HEART BULLET" -> 10085
      [] name = "FLORAL HEART" -> 10086
      [] name = "ROTATED FLORAL HEART BULLET" -> 10087
      [] name = "MEDIUM LEFT PARENTHESIS ORNAMENT" -> 10088
      [] name = "MEDIUM RIGHT PARENTHESIS ORNAMENT" -> 10089
      [] name = "MEDIUM FLATTENED LEFT PARENTHESIS ORNAMENT" -> 10090
      [] name = "MEDIUM FLATTENED RIGHT PARENTHESIS ORNAMENT" -> 10091
      [] name = "MEDIUM LEFT-POINTING ANGLE BRACKET ORNAMENT" -> 10092
      [] name = "MEDIUM RIGHT-POINTING ANGLE BRACKET ORNAMENT" -> 10093
      [] name = "HEAVY LEFT-POINTING ANGLE QUOTATION MARK ORNAMENT" -> 10094
      [] name = "HEAVY RIGHT-POINTING ANGLE QUOTATION MARK ORNAMENT" -> 10095
      [] name = "HEAVY LEFT-POINTING ANGLE BRACKET ORNAMENT" -> 10096
      [] name = "HEAVY RIGHT-POINTING ANGLE BRACKET ORNAMENT" -> 10097
      [] name = "LIGHT LEFT TORTOISE SHELL BRACKET ORNAMENT" -> 10098
      [] name = "LIGHT RIGHT TORTOISE SHELL BRACKET ORNAMENT" -> 10099
      [] name = "MEDIUM LEFT CURLY BRACKET ORNAMENT" -> 10100
      [] name = "MEDIUM RIGHT CURLY BRACKET ORNAMENT" -> 10101
      [] name = "DINGBAT NEGATIVE CIRCLED DIGIT ONE" -> 10102
      [] name = "DINGBAT NEGATIVE CIRCLED DIGIT TWO" -> 10103
      [] name = "DINGBAT NEGATIVE CIRCLED DIGIT THREE" -> 10104
      [] name = "DINGBAT NEGATIVE CIRCLED DIGIT FOUR" -> 10105
      [] name = "DINGBAT NEGATIVE CIRCLED DIGIT FIVE" -> 10106
      [] name = "DINGBAT NEGATIVE CIRCLED DIGIT SIX" -> 10107
      [] name = "DINGBAT NEGATIVE CIRCLED DIGIT SEVEN" -> 10108
      [] name = "DINGBAT NEGATIVE CIRCLED DIGIT EIGHT" -> 10109
      [] name = "DINGBAT NEGATIVE CIRCLED DIGIT NINE" -> 10110
      [] name = "DINGBAT NEGATIVE CIRCLED NUMBER TEN" -> 10111
      [] name = "DINGBAT CIRCLED SANS-SERIF DIGIT ONE" -> 10112
      [] name = "DINGBAT CIRCLED SANS-SERIF DIGIT TWO" -> 10113
      [] name = "DINGBAT CIRCLED SANS-SERIF DIGIT THREE" -> 10114
      [] name = "DINGBAT CIRCLED SANS-SERIF DIGIT FOUR" -> 10115
      [] name = "DINGBAT CIRCLED SANS-SERIF DIGIT FIVE" -> 10116
      [] name = "DINGBAT CIRCLED SANS-SERIF DIGIT SIX" -> 10117
      [] name = "DINGBAT CIRCLED SANS-SERIF DIGIT SEVEN" -> 10118
      [] name = "DINGBAT CIRCLED SANS-SERIF DIGIT EIGHT" -> 10119
      [] name = "DINGBAT CIRCLED SANS-SERIF DIGIT NINE" -> 10120
      [] name = "DINGBAT CIRCLED SANS-SERIF NUMBER TEN" -> 10121
      [] name = "DINGBAT NEGATIVE CIRCLED SANS-SERIF DIGIT ONE" -> 10122
      [] name = "DINGBAT NEGATIVE CIRCLED SANS-SERIF DIGIT TWO" -> 10123
      [] name = "DINGBAT NEGATIVE CIRCLED SANS-SERIF DIGIT THREE" -> 10124
      [] name = "DINGBAT NEGATIVE CIRCLED SANS-SERIF DIGIT FOUR" -> 10125
      [] name = "DINGBAT NEGATIVE CIRCLED SANS-SERIF DIGIT FIVE" -> 10126
      [] name = "DINGBAT NEGATIVE CIRCLED SANS-SERIF DIGIT SIX" -> 10127
      [] name = "DINGBAT NEGATIVE CIRCLED SANS-SERIF DIGIT SEVEN" -> 10128
      [] name = "DINGBAT NEGATIVE CIRCLED SANS-SERIF DIGIT EIGHT" -> 10129
      [] name = "DINGBAT NEGATIVE CIRCLED SANS-SERIF DIGIT NINE" -> 10130
      [] name = "DINGBAT NEGATIVE CIRCLED SANS-SERIF NUMBER TEN" -> 10131
      [] name = "HEAVY WIDE-HEADED RIGHTWARDS ARROW" -> 10132
      [] name = "HEAVY PLUS SIGN" -> 10133
      [] name = "HEAVY MINUS SIGN" -> 10134
      [] name = "HEAVY DIVISION SIGN" -> 10135
      [] name = "HEAVY SOUTH EAST ARROW" -> 10136
      [] name = "HEAVY RIGHTWARDS ARROW" -> 10137
      [] name = "HEAVY NORTH EAST ARROW" -> 10138
      [] name = "DRAFTING POINT RIGHTWARDS ARROW" -> 10139
      [] name = "HEAVY ROUND-TIPPED RIGHTWARDS ARROW" -> 10140
      [] name = "TRIANGLE-HEADED RIGHTWARDS ARROW" -> 10141
      [] name = "HEAVY TRIANGLE-HEADED RIGHTWARDS ARROW" -> 10142
      [] name = "DASHED TRIANGLE-HEADED RIGHTWARDS ARROW" -> 10143
      [] name = "HEAVY DASHED TRIANGLE-HEADED RIGHTWARDS ARROW" -> 10144
      [] name = "BLACK RIGHTWARDS ARROW" -> 10145
      [] name = "THREE-D TOP-LIGHTED RIGHTWARDS ARROWHEAD" -> 10146
      [] name = "THREE-D BOTTOM-LIGHTED RIGHTWARDS ARROWHEAD" -> 10147
      [] name = "BLACK RIGHTWARDS ARROWHEAD" -> 10148
      [] name = "HEAVY BLACK CURVED DOWNWARDS AND RIGHTWARDS ARROW" -> 10149
      [] name = "HEAVY BLACK CURVED UPWARDS AND RIGHTWARDS ARROW" -> 10150
      [] name = "SQUAT BLACK RIGHTWARDS ARROW" -> 10151
      [] name = "HEAVY CONCAVE-POINTED BLACK RIGHTWARDS ARROW" -> 10152
      [] name = "RIGHT-SHADED WHITE RIGHTWARDS ARROW" -> 10153
      [] name = "LEFT-SHADED WHITE RIGHTWARDS ARROW" -> 10154
      [] name = "BACK-TILTED SHADOWED WHITE RIGHTWARDS ARROW" -> 10155
      [] name = "FRONT-TILTED SHADOWED WHITE RIGHTWARDS ARROW" -> 10156
      [] name = "HEAVY LOWER RIGHT-SHADOWED WHITE RIGHTWARDS ARROW" -> 10157
      [] name = "HEAVY UPPER RIGHT-SHADOWED WHITE RIGHTWARDS ARROW" -> 10158
      [] name = "NOTCHED LOWER RIGHT-SHADOWED WHITE RIGHTWARDS ARROW" -> 10159
      [] name = "CURLY LOOP" -> 10160
      [] name = "NOTCHED UPPER RIGHT-SHADOWED WHITE RIGHTWARDS ARROW" -> 10161
      [] name = "CIRCLED HEAVY WHITE RIGHTWARDS ARROW" -> 10162
      [] name = "WHITE-FEATHERED RIGHTWARDS ARROW" -> 10163
      [] name = "BLACK-FEATHERED SOUTH EAST ARROW" -> 10164
      [] name = "BLACK-FEATHERED RIGHTWARDS ARROW" -> 10165
      [] name = "BLACK-FEATHERED NORTH EAST ARROW" -> 10166
      [] name = "HEAVY BLACK-FEATHERED SOUTH EAST ARROW" -> 10167
      [] name = "HEAVY BLACK-FEATHERED RIGHTWARDS ARROW" -> 10168
      [] name = "HEAVY BLACK-FEATHERED NORTH EAST ARROW" -> 10169
      [] name = "TEARDROP-BARBED RIGHTWARDS ARROW" -> 10170
      [] name = "HEAVY TEARDROP-SHANKED RIGHTWARDS ARROW" -> 10171
      [] name = "WEDGE-TAILED RIGHTWARDS ARROW" -> 10172
      [] name = "HEAVY WEDGE-TAILED RIGHTWARDS ARROW" -> 10173
      [] name = "OPEN-OUTLINED RIGHTWARDS ARROW" -> 10174
      [] name = "DOUBLE CURLY LOOP" -> 10175
      [] name = "THREE DIMENSIONAL ANGLE" -> 10176
      [] name = "WHITE TRIANGLE CONTAINING SMALL WHITE TRIANGLE" -> 10177
      [] name = "PERPENDICULAR" -> 10178
      [] name = "OPEN SUBSET" -> 10179
      [] name = "OPEN SUPERSET" -> 10180
      [] name = "LEFT S-SHAPED BAG DELIMITER" -> 10181
      [] name = "RIGHT S-SHAPED BAG DELIMITER" -> 10182
      [] name = "OR WITH DOT INSIDE" -> 10183
      [] name = "REVERSE SOLIDUS PRECEDING SUBSET" -> 10184
      [] name = "SUPERSET PRECEDING SOLIDUS" -> 10185
      [] name = "VERTICAL BAR WITH HORIZONTAL STROKE" -> 10186
      [] name = "MATHEMATICAL RISING DIAGONAL" -> 10187
      [] name = "LONG DIVISION" -> 10188
      [] name = "MATHEMATICAL FALLING DIAGONAL" -> 10189
      [] name = "SQUARED LOGICAL AND" -> 10190
      [] name = "SQUARED LOGICAL OR" -> 10191
      [] name = "WHITE DIAMOND WITH CENTRED DOT" -> 10192
      [] name = "AND WITH DOT" -> 10193
      [] name = "ELEMENT OF OPENING UPWARDS" -> 10194
      [] name = "LOWER RIGHT CORNER WITH DOT" -> 10195
      [] name = "UPPER LEFT CORNER WITH DOT" -> 10196
      [] name = "LEFT OUTER JOIN" -> 10197
      [] name = "RIGHT OUTER JOIN" -> 10198
      [] name = "FULL OUTER JOIN" -> 10199
      [] name = "LARGE UP TACK" -> 10200
      [] name = "LARGE DOWN TACK" -> 10201
      [] name = "LEFT AND RIGHT DOUBLE TURNSTILE" -> 10202
      [] name = "LEFT AND RIGHT TACK" -> 10203
      [] name = "LEFT MULTIMAP" -> 10204
      [] name = "LONG RIGHT TACK" -> 10205
      [] name = "LONG LEFT TACK" -> 10206
      [] name = "UP TACK WITH CIRCLE ABOVE" -> 10207
      [] name = "LOZENGE DIVIDED BY HORIZONTAL RULE" -> 10208
      [] name = "WHITE CONCAVE-SIDED DIAMOND" -> 10209
      [] name = "WHITE CONCAVE-SIDED DIAMOND WITH LEFTWARDS TICK" -> 10210
      [] name = "WHITE CONCAVE-SIDED DIAMOND WITH RIGHTWARDS TICK" -> 10211
      [] name = "WHITE SQUARE WITH LEFTWARDS TICK" -> 10212
      [] name = "WHITE SQUARE WITH RIGHTWARDS TICK" -> 10213
      [] name = "MATHEMATICAL LEFT WHITE SQUARE BRACKET" -> 10214
      [] name = "MATHEMATICAL RIGHT WHITE SQUARE BRACKET" -> 10215
      [] name = "MATHEMATICAL LEFT ANGLE BRACKET" -> 10216
      [] name = "MATHEMATICAL RIGHT ANGLE BRACKET" -> 10217
      [] name = "MATHEMATICAL LEFT DOUBLE ANGLE BRACKET" -> 10218
      [] name = "MATHEMATICAL RIGHT DOUBLE ANGLE BRACKET" -> 10219
      [] name = "MATHEMATICAL LEFT WHITE TORTOISE SHELL BRACKET" -> 10220
      [] name = "MATHEMATICAL RIGHT WHITE TORTOISE SHELL BRACKET" -> 10221
      [] name = "MATHEMATICAL LEFT FLATTENED PARENTHESIS" -> 10222
      [] name = "MATHEMATICAL RIGHT FLATTENED PARENTHESIS" -> 10223
      [] name = "UPWARDS QUADRUPLE ARROW" -> 10224
      [] name = "DOWNWARDS QUADRUPLE ARROW" -> 10225
      [] name = "ANTICLOCKWISE GAPPED CIRCLE ARROW" -> 10226
      [] name = "CLOCKWISE GAPPED CIRCLE ARROW" -> 10227
      [] name = "RIGHT ARROW WITH CIRCLED PLUS" -> 10228
      [] name = "LONG LEFTWARDS ARROW" -> 10229
      [] name = "LONG RIGHTWARDS ARROW" -> 10230
      [] name = "LONG LEFT RIGHT ARROW" -> 10231
      [] name = "LONG LEFTWARDS DOUBLE ARROW" -> 10232
      [] name = "LONG RIGHTWARDS DOUBLE ARROW" -> 10233
      [] name = "LONG LEFT RIGHT DOUBLE ARROW" -> 10234
      [] name = "LONG LEFTWARDS ARROW FROM BAR" -> 10235
      [] name = "LONG RIGHTWARDS ARROW FROM BAR" -> 10236
      [] name = "LONG LEFTWARDS DOUBLE ARROW FROM BAR" -> 10237
      [] name = "LONG RIGHTWARDS DOUBLE ARROW FROM BAR" -> 10238
      [] name = "LONG RIGHTWARDS SQUIGGLE ARROW" -> 10239
      [] name = "BRAILLE PATTERN BLANK" -> 10240
      [] name = "BRAILLE PATTERN DOTS-1" -> 10241
      [] name = "BRAILLE PATTERN DOTS-2" -> 10242
      [] name = "BRAILLE PATTERN DOTS-12" -> 10243
      [] name = "BRAILLE PATTERN DOTS-3" -> 10244
      [] name = "BRAILLE PATTERN DOTS-13" -> 10245
      [] name = "BRAILLE PATTERN DOTS-23" -> 10246
      [] name = "BRAILLE PATTERN DOTS-123" -> 10247
      [] name = "BRAILLE PATTERN DOTS-4" -> 10248
      [] name = "BRAILLE PATTERN DOTS-14" -> 10249
      [] name = "BRAILLE PATTERN DOTS-24" -> 10250
      [] name = "BRAILLE PATTERN DOTS-124" -> 10251
      [] name = "BRAILLE PATTERN DOTS-34" -> 10252
      [] name = "BRAILLE PATTERN DOTS-134" -> 10253
      [] name = "BRAILLE PATTERN DOTS-234" -> 10254
      [] name = "BRAILLE PATTERN DOTS-1234" -> 10255
      [] name = "BRAILLE PATTERN DOTS-5" -> 10256
      [] name = "BRAILLE PATTERN DOTS-15" -> 10257
      [] name = "BRAILLE PATTERN DOTS-25" -> 10258
      [] name = "BRAILLE PATTERN DOTS-125" -> 10259
      [] name = "BRAILLE PATTERN DOTS-35" -> 10260
      [] name = "BRAILLE PATTERN DOTS-135" -> 10261
      [] name = "BRAILLE PATTERN DOTS-235" -> 10262
      [] name = "BRAILLE PATTERN DOTS-1235" -> 10263
      [] name = "BRAILLE PATTERN DOTS-45" -> 10264
      [] name = "BRAILLE PATTERN DOTS-145" -> 10265
      [] name = "BRAILLE PATTERN DOTS-245" -> 10266
      [] name = "BRAILLE PATTERN DOTS-1245" -> 10267
      [] name = "BRAILLE PATTERN DOTS-345" -> 10268
      [] name = "BRAILLE PATTERN DOTS-1345" -> 10269
      [] name = "BRAILLE PATTERN DOTS-2345" -> 10270
      [] name = "BRAILLE PATTERN DOTS-12345" -> 10271
      [] name = "BRAILLE PATTERN DOTS-6" -> 10272
      [] name = "BRAILLE PATTERN DOTS-16" -> 10273
      [] name = "BRAILLE PATTERN DOTS-26" -> 10274
      [] name = "BRAILLE PATTERN DOTS-126" -> 10275
      [] name = "BRAILLE PATTERN DOTS-36" -> 10276
      [] name = "BRAILLE PATTERN DOTS-136" -> 10277
      [] name = "BRAILLE PATTERN DOTS-236" -> 10278
      [] name = "BRAILLE PATTERN DOTS-1236" -> 10279
      [] name = "BRAILLE PATTERN DOTS-46" -> 10280
      [] name = "BRAILLE PATTERN DOTS-146" -> 10281
      [] name = "BRAILLE PATTERN DOTS-246" -> 10282
      [] name = "BRAILLE PATTERN DOTS-1246" -> 10283
      [] name = "BRAILLE PATTERN DOTS-346" -> 10284
      [] name = "BRAILLE PATTERN DOTS-1346" -> 10285
      [] name = "BRAILLE PATTERN DOTS-2346" -> 10286
      [] name = "BRAILLE PATTERN DOTS-12346" -> 10287
      [] name = "BRAILLE PATTERN DOTS-56" -> 10288
      [] name = "BRAILLE PATTERN DOTS-156" -> 10289
      [] name = "BRAILLE PATTERN DOTS-256" -> 10290
      [] name = "BRAILLE PATTERN DOTS-1256" -> 10291
      [] name = "BRAILLE PATTERN DOTS-356" -> 10292
      [] name = "BRAILLE PATTERN DOTS-1356" -> 10293
      [] name = "BRAILLE PATTERN DOTS-2356" -> 10294
      [] name = "BRAILLE PATTERN DOTS-12356" -> 10295
      [] name = "BRAILLE PATTERN DOTS-456" -> 10296
      [] name = "BRAILLE PATTERN DOTS-1456" -> 10297
      [] name = "BRAILLE PATTERN DOTS-2456" -> 10298
      [] name = "BRAILLE PATTERN DOTS-12456" -> 10299
      [] name = "BRAILLE PATTERN DOTS-3456" -> 10300
      [] name = "BRAILLE PATTERN DOTS-13456" -> 10301
      [] name = "BRAILLE PATTERN DOTS-23456" -> 10302
      [] name = "BRAILLE PATTERN DOTS-123456" -> 10303
      [] name = "BRAILLE PATTERN DOTS-7" -> 10304
      [] name = "BRAILLE PATTERN DOTS-17" -> 10305
      [] name = "BRAILLE PATTERN DOTS-27" -> 10306
      [] name = "BRAILLE PATTERN DOTS-127" -> 10307
      [] name = "BRAILLE PATTERN DOTS-37" -> 10308
      [] name = "BRAILLE PATTERN DOTS-137" -> 10309
      [] name = "BRAILLE PATTERN DOTS-237" -> 10310
      [] name = "BRAILLE PATTERN DOTS-1237" -> 10311
      [] name = "BRAILLE PATTERN DOTS-47" -> 10312
      [] name = "BRAILLE PATTERN DOTS-147" -> 10313
      [] name = "BRAILLE PATTERN DOTS-247" -> 10314
      [] name = "BRAILLE PATTERN DOTS-1247" -> 10315
      [] name = "BRAILLE PATTERN DOTS-347" -> 10316
      [] name = "BRAILLE PATTERN DOTS-1347" -> 10317
      [] name = "BRAILLE PATTERN DOTS-2347" -> 10318
      [] name = "BRAILLE PATTERN DOTS-12347" -> 10319
      [] name = "BRAILLE PATTERN DOTS-57" -> 10320
      [] name = "BRAILLE PATTERN DOTS-157" -> 10321
      [] name = "BRAILLE PATTERN DOTS-257" -> 10322
      [] name = "BRAILLE PATTERN DOTS-1257" -> 10323
      [] name = "BRAILLE PATTERN DOTS-357" -> 10324
      [] name = "BRAILLE PATTERN DOTS-1357" -> 10325
      [] name = "BRAILLE PATTERN DOTS-2357" -> 10326
      [] name = "BRAILLE PATTERN DOTS-12357" -> 10327
      [] name = "BRAILLE PATTERN DOTS-457" -> 10328
      [] name = "BRAILLE PATTERN DOTS-1457" -> 10329
      [] name = "BRAILLE PATTERN DOTS-2457" -> 10330
      [] name = "BRAILLE PATTERN DOTS-12457" -> 10331
      [] name = "BRAILLE PATTERN DOTS-3457" -> 10332
      [] name = "BRAILLE PATTERN DOTS-13457" -> 10333
      [] name = "BRAILLE PATTERN DOTS-23457" -> 10334
      [] name = "BRAILLE PATTERN DOTS-123457" -> 10335
      [] name = "BRAILLE PATTERN DOTS-67" -> 10336
      [] name = "BRAILLE PATTERN DOTS-167" -> 10337
      [] name = "BRAILLE PATTERN DOTS-267" -> 10338
      [] name = "BRAILLE PATTERN DOTS-1267" -> 10339
      [] name = "BRAILLE PATTERN DOTS-367" -> 10340
      [] name = "BRAILLE PATTERN DOTS-1367" -> 10341
      [] name = "BRAILLE PATTERN DOTS-2367" -> 10342
      [] name = "BRAILLE PATTERN DOTS-12367" -> 10343
      [] name = "BRAILLE PATTERN DOTS-467" -> 10344
      [] name = "BRAILLE PATTERN DOTS-1467" -> 10345
      [] name = "BRAILLE PATTERN DOTS-2467" -> 10346
      [] name = "BRAILLE PATTERN DOTS-12467" -> 10347
      [] name = "BRAILLE PATTERN DOTS-3467" -> 10348
      [] name = "BRAILLE PATTERN DOTS-13467" -> 10349
      [] name = "BRAILLE PATTERN DOTS-23467" -> 10350
      [] name = "BRAILLE PATTERN DOTS-123467" -> 10351
      [] name = "BRAILLE PATTERN DOTS-567" -> 10352
      [] name = "BRAILLE PATTERN DOTS-1567" -> 10353
      [] name = "BRAILLE PATTERN DOTS-2567" -> 10354
      [] name = "BRAILLE PATTERN DOTS-12567" -> 10355
      [] name = "BRAILLE PATTERN DOTS-3567" -> 10356
      [] name = "BRAILLE PATTERN DOTS-13567" -> 10357
      [] name = "BRAILLE PATTERN DOTS-23567" -> 10358
      [] name = "BRAILLE PATTERN DOTS-123567" -> 10359
      [] name = "BRAILLE PATTERN DOTS-4567" -> 10360
      [] name = "BRAILLE PATTERN DOTS-14567" -> 10361
      [] name = "BRAILLE PATTERN DOTS-24567" -> 10362
      [] name = "BRAILLE PATTERN DOTS-124567" -> 10363
      [] name = "BRAILLE PATTERN DOTS-34567" -> 10364
      [] name = "BRAILLE PATTERN DOTS-134567" -> 10365
      [] name = "BRAILLE PATTERN DOTS-234567" -> 10366
      [] name = "BRAILLE PATTERN DOTS-1234567" -> 10367
      [] name = "BRAILLE PATTERN DOTS-8" -> 10368
      [] name = "BRAILLE PATTERN DOTS-18" -> 10369
      [] name = "BRAILLE PATTERN DOTS-28" -> 10370
      [] name = "BRAILLE PATTERN DOTS-128" -> 10371
      [] name = "BRAILLE PATTERN DOTS-38" -> 10372
      [] name = "BRAILLE PATTERN DOTS-138" -> 10373
      [] name = "BRAILLE PATTERN DOTS-238" -> 10374
      [] name = "BRAILLE PATTERN DOTS-1238" -> 10375
      [] name = "BRAILLE PATTERN DOTS-48" -> 10376
      [] name = "BRAILLE PATTERN DOTS-148" -> 10377
      [] name = "BRAILLE PATTERN DOTS-248" -> 10378
      [] name = "BRAILLE PATTERN DOTS-1248" -> 10379
      [] name = "BRAILLE PATTERN DOTS-348" -> 10380
      [] name = "BRAILLE PATTERN DOTS-1348" -> 10381
      [] name = "BRAILLE PATTERN DOTS-2348" -> 10382
      [] name = "BRAILLE PATTERN DOTS-12348" -> 10383
      [] name = "BRAILLE PATTERN DOTS-58" -> 10384
      [] name = "BRAILLE PATTERN DOTS-158" -> 10385
      [] name = "BRAILLE PATTERN DOTS-258" -> 10386
      [] name = "BRAILLE PATTERN DOTS-1258" -> 10387
      [] name = "BRAILLE PATTERN DOTS-358" -> 10388
      [] name = "BRAILLE PATTERN DOTS-1358" -> 10389
      [] name = "BRAILLE PATTERN DOTS-2358" -> 10390
      [] name = "BRAILLE PATTERN DOTS-12358" -> 10391
      [] name = "BRAILLE PATTERN DOTS-458" -> 10392
      [] name = "BRAILLE PATTERN DOTS-1458" -> 10393
      [] name = "BRAILLE PATTERN DOTS-2458" -> 10394
      [] name = "BRAILLE PATTERN DOTS-12458" -> 10395
      [] name = "BRAILLE PATTERN DOTS-3458" -> 10396
      [] name = "BRAILLE PATTERN DOTS-13458" -> 10397
      [] name = "BRAILLE PATTERN DOTS-23458" -> 10398
      [] name = "BRAILLE PATTERN DOTS-123458" -> 10399
      [] name = "BRAILLE PATTERN DOTS-68" -> 10400
      [] name = "BRAILLE PATTERN DOTS-168" -> 10401
      [] name = "BRAILLE PATTERN DOTS-268" -> 10402
      [] name = "BRAILLE PATTERN DOTS-1268" -> 10403
      [] name = "BRAILLE PATTERN DOTS-368" -> 10404
      [] name = "BRAILLE PATTERN DOTS-1368" -> 10405
      [] name = "BRAILLE PATTERN DOTS-2368" -> 10406
      [] name = "BRAILLE PATTERN DOTS-12368" -> 10407
      [] name = "BRAILLE PATTERN DOTS-468" -> 10408
      [] name = "BRAILLE PATTERN DOTS-1468" -> 10409
      [] name = "BRAILLE PATTERN DOTS-2468" -> 10410
      [] name = "BRAILLE PATTERN DOTS-12468" -> 10411
      [] name = "BRAILLE PATTERN DOTS-3468" -> 10412
      [] name = "BRAILLE PATTERN DOTS-13468" -> 10413
      [] name = "BRAILLE PATTERN DOTS-23468" -> 10414
      [] name = "BRAILLE PATTERN DOTS-123468" -> 10415
      [] name = "BRAILLE PATTERN DOTS-568" -> 10416
      [] name = "BRAILLE PATTERN DOTS-1568" -> 10417
      [] name = "BRAILLE PATTERN DOTS-2568" -> 10418
      [] name = "BRAILLE PATTERN DOTS-12568" -> 10419
      [] name = "BRAILLE PATTERN DOTS-3568" -> 10420
      [] name = "BRAILLE PATTERN DOTS-13568" -> 10421
      [] name = "BRAILLE PATTERN DOTS-23568" -> 10422
      [] name = "BRAILLE PATTERN DOTS-123568" -> 10423
      [] name = "BRAILLE PATTERN DOTS-4568" -> 10424
      [] name = "BRAILLE PATTERN DOTS-14568" -> 10425
      [] name = "BRAILLE PATTERN DOTS-24568" -> 10426
      [] name = "BRAILLE PATTERN DOTS-124568" -> 10427
      [] name = "BRAILLE PATTERN DOTS-34568" -> 10428
      [] name = "BRAILLE PATTERN DOTS-134568" -> 10429
      [] name = "BRAILLE PATTERN DOTS-234568" -> 10430
      [] name = "BRAILLE PATTERN DOTS-1234568" -> 10431
      [] name = "BRAILLE PATTERN DOTS-78" -> 10432
      [] name = "BRAILLE PATTERN DOTS-178" -> 10433
      [] name = "BRAILLE PATTERN DOTS-278" -> 10434
      [] name = "BRAILLE PATTERN DOTS-1278" -> 10435
      [] name = "BRAILLE PATTERN DOTS-378" -> 10436
      [] name = "BRAILLE PATTERN DOTS-1378" -> 10437
      [] name = "BRAILLE PATTERN DOTS-2378" -> 10438
      [] name = "BRAILLE PATTERN DOTS-12378" -> 10439
      [] name = "BRAILLE PATTERN DOTS-478" -> 10440
      [] name = "BRAILLE PATTERN DOTS-1478" -> 10441
      [] name = "BRAILLE PATTERN DOTS-2478" -> 10442
      [] name = "BRAILLE PATTERN DOTS-12478" -> 10443
      [] name = "BRAILLE PATTERN DOTS-3478" -> 10444
      [] name = "BRAILLE PATTERN DOTS-13478" -> 10445
      [] name = "BRAILLE PATTERN DOTS-23478" -> 10446
      [] name = "BRAILLE PATTERN DOTS-123478" -> 10447
      [] name = "BRAILLE PATTERN DOTS-578" -> 10448
      [] name = "BRAILLE PATTERN DOTS-1578" -> 10449
      [] name = "BRAILLE PATTERN DOTS-2578" -> 10450
      [] name = "BRAILLE PATTERN DOTS-12578" -> 10451
      [] name = "BRAILLE PATTERN DOTS-3578" -> 10452
      [] name = "BRAILLE PATTERN DOTS-13578" -> 10453
      [] name = "BRAILLE PATTERN DOTS-23578" -> 10454
      [] name = "BRAILLE PATTERN DOTS-123578" -> 10455
      [] name = "BRAILLE PATTERN DOTS-4578" -> 10456
      [] name = "BRAILLE PATTERN DOTS-14578" -> 10457
      [] name = "BRAILLE PATTERN DOTS-24578" -> 10458
      [] name = "BRAILLE PATTERN DOTS-124578" -> 10459
      [] name = "BRAILLE PATTERN DOTS-34578" -> 10460
      [] name = "BRAILLE PATTERN DOTS-134578" -> 10461
      [] name = "BRAILLE PATTERN DOTS-234578" -> 10462
      [] name = "BRAILLE PATTERN DOTS-1234578" -> 10463
      [] name = "BRAILLE PATTERN DOTS-678" -> 10464
      [] name = "BRAILLE PATTERN DOTS-1678" -> 10465
      [] name = "BRAILLE PATTERN DOTS-2678" -> 10466
      [] name = "BRAILLE PATTERN DOTS-12678" -> 10467
      [] name = "BRAILLE PATTERN DOTS-3678" -> 10468
      [] name = "BRAILLE PATTERN DOTS-13678" -> 10469
      [] name = "BRAILLE PATTERN DOTS-23678" -> 10470
      [] name = "BRAILLE PATTERN DOTS-123678" -> 10471
      [] name = "BRAILLE PATTERN DOTS-4678" -> 10472
      [] name = "BRAILLE PATTERN DOTS-14678" -> 10473
      [] name = "BRAILLE PATTERN DOTS-24678" -> 10474
      [] name = "BRAILLE PATTERN DOTS-124678" -> 10475
      [] name = "BRAILLE PATTERN DOTS-34678" -> 10476
      [] name = "BRAILLE PATTERN DOTS-134678" -> 10477
      [] name = "BRAILLE PATTERN DOTS-234678" -> 10478
      [] name = "BRAILLE PATTERN DOTS-1234678" -> 10479
      [] name = "BRAILLE PATTERN DOTS-5678" -> 10480
      [] name = "BRAILLE PATTERN DOTS-15678" -> 10481
      [] name = "BRAILLE PATTERN DOTS-25678" -> 10482
      [] name = "BRAILLE PATTERN DOTS-125678" -> 10483
      [] name = "BRAILLE PATTERN DOTS-35678" -> 10484
      [] name = "BRAILLE PATTERN DOTS-135678" -> 10485
      [] name = "BRAILLE PATTERN DOTS-235678" -> 10486
      [] name = "BRAILLE PATTERN DOTS-1235678" -> 10487
      [] name = "BRAILLE PATTERN DOTS-45678" -> 10488
      [] name = "BRAILLE PATTERN DOTS-145678" -> 10489
      [] name = "BRAILLE PATTERN DOTS-245678" -> 10490
      [] name = "BRAILLE PATTERN DOTS-1245678" -> 10491
      [] name = "BRAILLE PATTERN DOTS-345678" -> 10492
      [] name = "BRAILLE PATTERN DOTS-1345678" -> 10493
      [] name = "BRAILLE PATTERN DOTS-2345678" -> 10494
      [] name = "BRAILLE PATTERN DOTS-12345678" -> 10495
      [] name = "RIGHTWARDS TWO-HEADED ARROW WITH VERTICAL STROKE" -> 10496
      [] name = "RIGHTWARDS TWO-HEADED ARROW WITH DOUBLE VERTICAL STROKE" -> 10497
      [] name = "LEFTWARDS DOUBLE ARROW WITH VERTICAL STROKE" -> 10498
      [] name = "RIGHTWARDS DOUBLE ARROW WITH VERTICAL STROKE" -> 10499
      [] name = "LEFT RIGHT DOUBLE ARROW WITH VERTICAL STROKE" -> 10500
      [] name = "RIGHTWARDS TWO-HEADED ARROW FROM BAR" -> 10501
      [] name = "LEFTWARDS DOUBLE ARROW FROM BAR" -> 10502
      [] name = "RIGHTWARDS DOUBLE ARROW FROM BAR" -> 10503
      [] name = "DOWNWARDS ARROW WITH HORIZONTAL STROKE" -> 10504
      [] name = "UPWARDS ARROW WITH HORIZONTAL STROKE" -> 10505
      [] name = "UPWARDS TRIPLE ARROW" -> 10506
      [] name = "DOWNWARDS TRIPLE ARROW" -> 10507
      [] name = "LEFTWARDS DOUBLE DASH ARROW" -> 10508
      [] name = "RIGHTWARDS DOUBLE DASH ARROW" -> 10509
      [] name = "LEFTWARDS TRIPLE DASH ARROW" -> 10510
      [] name = "RIGHTWARDS TRIPLE DASH ARROW" -> 10511
      [] name = "RIGHTWARDS TWO-HEADED TRIPLE DASH ARROW" -> 10512
      [] name = "RIGHTWARDS ARROW WITH DOTTED STEM" -> 10513
      [] name = "UPWARDS ARROW TO BAR" -> 10514
      [] name = "DOWNWARDS ARROW TO BAR" -> 10515
      [] name = "RIGHTWARDS ARROW WITH TAIL WITH VERTICAL STROKE" -> 10516
      [] name = "RIGHTWARDS ARROW WITH TAIL WITH DOUBLE VERTICAL STROKE" -> 10517
      [] name = "RIGHTWARDS TWO-HEADED ARROW WITH TAIL" -> 10518
      [] name = "RIGHTWARDS TWO-HEADED ARROW WITH TAIL WITH VERTICAL STROKE" -> 10519
      [] name = "RIGHTWARDS TWO-HEADED ARROW WITH TAIL WITH DOUBLE VERTICAL STROKE" -> 10520
      [] name = "LEFTWARDS ARROW-TAIL" -> 10521
      [] name = "RIGHTWARDS ARROW-TAIL" -> 10522
      [] name = "LEFTWARDS DOUBLE ARROW-TAIL" -> 10523
      [] name = "RIGHTWARDS DOUBLE ARROW-TAIL" -> 10524
      [] name = "LEFTWARDS ARROW TO BLACK DIAMOND" -> 10525
      [] name = "RIGHTWARDS ARROW TO BLACK DIAMOND" -> 10526
      [] name = "LEFTWARDS ARROW FROM BAR TO BLACK DIAMOND" -> 10527
      [] name = "RIGHTWARDS ARROW FROM BAR TO BLACK DIAMOND" -> 10528
      [] name = "NORTH WEST AND SOUTH EAST ARROW" -> 10529
      [] name = "NORTH EAST AND SOUTH WEST ARROW" -> 10530
      [] name = "NORTH WEST ARROW WITH HOOK" -> 10531
      [] name = "NORTH EAST ARROW WITH HOOK" -> 10532
      [] name = "SOUTH EAST ARROW WITH HOOK" -> 10533
      [] name = "SOUTH WEST ARROW WITH HOOK" -> 10534
      [] name = "NORTH WEST ARROW AND NORTH EAST ARROW" -> 10535
      [] name = "NORTH EAST ARROW AND SOUTH EAST ARROW" -> 10536
      [] name = "SOUTH EAST ARROW AND SOUTH WEST ARROW" -> 10537
      [] name = "SOUTH WEST ARROW AND NORTH WEST ARROW" -> 10538
      [] name = "RISING DIAGONAL CROSSING FALLING DIAGONAL" -> 10539
      [] name = "FALLING DIAGONAL CROSSING RISING DIAGONAL" -> 10540
      [] name = "SOUTH EAST ARROW CROSSING NORTH EAST ARROW" -> 10541
      [] name = "NORTH EAST ARROW CROSSING SOUTH EAST ARROW" -> 10542
      [] name = "FALLING DIAGONAL CROSSING NORTH EAST ARROW" -> 10543
      [] name = "RISING DIAGONAL CROSSING SOUTH EAST ARROW" -> 10544
      [] name = "NORTH EAST ARROW CROSSING NORTH WEST ARROW" -> 10545
      [] name = "NORTH WEST ARROW CROSSING NORTH EAST ARROW" -> 10546
      [] name = "WAVE ARROW POINTING DIRECTLY RIGHT" -> 10547
      [] name = "ARROW POINTING RIGHTWARDS THEN CURVING UPWARDS" -> 10548
      [] name = "ARROW POINTING RIGHTWARDS THEN CURVING DOWNWARDS" -> 10549
      [] name = "ARROW POINTING DOWNWARDS THEN CURVING LEFTWARDS" -> 10550
      [] name = "ARROW POINTING DOWNWARDS THEN CURVING RIGHTWARDS" -> 10551
      [] name = "RIGHT-SIDE ARC CLOCKWISE ARROW" -> 10552
      [] name = "LEFT-SIDE ARC ANTICLOCKWISE ARROW" -> 10553
      [] name = "TOP ARC ANTICLOCKWISE ARROW" -> 10554
      [] name = "BOTTOM ARC ANTICLOCKWISE ARROW" -> 10555
      [] name = "TOP ARC CLOCKWISE ARROW WITH MINUS" -> 10556
      [] name = "TOP ARC ANTICLOCKWISE ARROW WITH PLUS" -> 10557
      [] name = "LOWER RIGHT SEMICIRCULAR CLOCKWISE ARROW" -> 10558
      [] name = "LOWER LEFT SEMICIRCULAR ANTICLOCKWISE ARROW" -> 10559
      [] name = "ANTICLOCKWISE CLOSED CIRCLE ARROW" -> 10560
      [] name = "CLOCKWISE CLOSED CIRCLE ARROW" -> 10561
      [] name = "RIGHTWARDS ARROW ABOVE SHORT LEFTWARDS ARROW" -> 10562
      [] name = "LEFTWARDS ARROW ABOVE SHORT RIGHTWARDS ARROW" -> 10563
      [] name = "SHORT RIGHTWARDS ARROW ABOVE LEFTWARDS ARROW" -> 10564
      [] name = "RIGHTWARDS ARROW WITH PLUS BELOW" -> 10565
      [] name = "LEFTWARDS ARROW WITH PLUS BELOW" -> 10566
      [] name = "RIGHTWARDS ARROW THROUGH X" -> 10567
      [] name = "LEFT RIGHT ARROW THROUGH SMALL CIRCLE" -> 10568
      [] name = "UPWARDS TWO-HEADED ARROW FROM SMALL CIRCLE" -> 10569
      [] name = "LEFT BARB UP RIGHT BARB DOWN HARPOON" -> 10570
      [] name = "LEFT BARB DOWN RIGHT BARB UP HARPOON" -> 10571
      [] name = "UP BARB RIGHT DOWN BARB LEFT HARPOON" -> 10572
      [] name = "UP BARB LEFT DOWN BARB RIGHT HARPOON" -> 10573
      [] name = "LEFT BARB UP RIGHT BARB UP HARPOON" -> 10574
      [] name = "UP BARB RIGHT DOWN BARB RIGHT HARPOON" -> 10575
      [] name = "LEFT BARB DOWN RIGHT BARB DOWN HARPOON" -> 10576
      [] name = "UP BARB LEFT DOWN BARB LEFT HARPOON" -> 10577
      [] name = "LEFTWARDS HARPOON WITH BARB UP TO BAR" -> 10578
      [] name = "RIGHTWARDS HARPOON WITH BARB UP TO BAR" -> 10579
      [] name = "UPWARDS HARPOON WITH BARB RIGHT TO BAR" -> 10580
      [] name = "DOWNWARDS HARPOON WITH BARB RIGHT TO BAR" -> 10581
      [] name = "LEFTWARDS HARPOON WITH BARB DOWN TO BAR" -> 10582
      [] name = "RIGHTWARDS HARPOON WITH BARB DOWN TO BAR" -> 10583
      [] name = "UPWARDS HARPOON WITH BARB LEFT TO BAR" -> 10584
      [] name = "DOWNWARDS HARPOON WITH BARB LEFT TO BAR" -> 10585
      [] name = "LEFTWARDS HARPOON WITH BARB UP FROM BAR" -> 10586
      [] name = "RIGHTWARDS HARPOON WITH BARB UP FROM BAR" -> 10587
      [] name = "UPWARDS HARPOON WITH BARB RIGHT FROM BAR" -> 10588
      [] name = "DOWNWARDS HARPOON WITH BARB RIGHT FROM BAR" -> 10589
      [] name = "LEFTWARDS HARPOON WITH BARB DOWN FROM BAR" -> 10590
      [] name = "RIGHTWARDS HARPOON WITH BARB DOWN FROM BAR" -> 10591
      [] name = "UPWARDS HARPOON WITH BARB LEFT FROM BAR" -> 10592
      [] name = "DOWNWARDS HARPOON WITH BARB LEFT FROM BAR" -> 10593
      [] name = "LEFTWARDS HARPOON WITH BARB UP ABOVE LEFTWARDS HARPOON WITH BARB DOWN" -> 10594
      [] name = "UPWARDS HARPOON WITH BARB LEFT BESIDE UPWARDS HARPOON WITH BARB RIGHT" -> 10595
      [] name = "RIGHTWARDS HARPOON WITH BARB UP ABOVE RIGHTWARDS HARPOON WITH BARB DOWN" -> 10596
      [] name = "DOWNWARDS HARPOON WITH BARB LEFT BESIDE DOWNWARDS HARPOON WITH BARB RIGHT" -> 10597
      [] name = "LEFTWARDS HARPOON WITH BARB UP ABOVE RIGHTWARDS HARPOON WITH BARB UP" -> 10598
      [] name = "LEFTWARDS HARPOON WITH BARB DOWN ABOVE RIGHTWARDS HARPOON WITH BARB DOWN" -> 10599
      [] name = "RIGHTWARDS HARPOON WITH BARB UP ABOVE LEFTWARDS HARPOON WITH BARB UP" -> 10600
      [] name = "RIGHTWARDS HARPOON WITH BARB DOWN ABOVE LEFTWARDS HARPOON WITH BARB DOWN" -> 10601
      [] name = "LEFTWARDS HARPOON WITH BARB UP ABOVE LONG DASH" -> 10602
      [] name = "LEFTWARDS HARPOON WITH BARB DOWN BELOW LONG DASH" -> 10603
      [] name = "RIGHTWARDS HARPOON WITH BARB UP ABOVE LONG DASH" -> 10604
      [] name = "RIGHTWARDS HARPOON WITH BARB DOWN BELOW LONG DASH" -> 10605
      [] name = "UPWARDS HARPOON WITH BARB LEFT BESIDE DOWNWARDS HARPOON WITH BARB RIGHT" -> 10606
      [] name = "DOWNWARDS HARPOON WITH BARB LEFT BESIDE UPWARDS HARPOON WITH BARB RIGHT" -> 10607
      [] name = "RIGHT DOUBLE ARROW WITH ROUNDED HEAD" -> 10608
      [] name = "EQUALS SIGN ABOVE RIGHTWARDS ARROW" -> 10609
      [] name = "TILDE OPERATOR ABOVE RIGHTWARDS ARROW" -> 10610
      [] name = "LEFTWARDS ARROW ABOVE TILDE OPERATOR" -> 10611
      [] name = "RIGHTWARDS ARROW ABOVE TILDE OPERATOR" -> 10612
      [] name = "RIGHTWARDS ARROW ABOVE ALMOST EQUAL TO" -> 10613
      [] name = "LESS-THAN ABOVE LEFTWARDS ARROW" -> 10614
      [] name = "LEFTWARDS ARROW THROUGH LESS-THAN" -> 10615
      [] name = "GREATER-THAN ABOVE RIGHTWARDS ARROW" -> 10616
      [] name = "SUBSET ABOVE RIGHTWARDS ARROW" -> 10617
      [] name = "LEFTWARDS ARROW THROUGH SUBSET" -> 10618
      [] name = "SUPERSET ABOVE LEFTWARDS ARROW" -> 10619
      [] name = "LEFT FISH TAIL" -> 10620
      [] name = "RIGHT FISH TAIL" -> 10621
      [] name = "UP FISH TAIL" -> 10622
      [] name = "DOWN FISH TAIL" -> 10623
      [] name = "TRIPLE VERTICAL BAR DELIMITER" -> 10624
      [] name = "Z NOTATION SPOT" -> 10625
      [] name = "Z NOTATION TYPE COLON" -> 10626
      [] name = "LEFT WHITE CURLY BRACKET" -> 10627
      [] name = "RIGHT WHITE CURLY BRACKET" -> 10628
      [] name = "LEFT WHITE PARENTHESIS" -> 10629
      [] name = "RIGHT WHITE PARENTHESIS" -> 10630
      [] name = "Z NOTATION LEFT IMAGE BRACKET" -> 10631
      [] name = "Z NOTATION RIGHT IMAGE BRACKET" -> 10632
      [] name = "Z NOTATION LEFT BINDING BRACKET" -> 10633
      [] name = "Z NOTATION RIGHT BINDING BRACKET" -> 10634
      [] name = "LEFT SQUARE BRACKET WITH UNDERBAR" -> 10635
      [] name = "RIGHT SQUARE BRACKET WITH UNDERBAR" -> 10636
      [] name = "LEFT SQUARE BRACKET WITH TICK IN TOP CORNER" -> 10637
      [] name = "RIGHT SQUARE BRACKET WITH TICK IN BOTTOM CORNER" -> 10638
      [] name = "LEFT SQUARE BRACKET WITH TICK IN BOTTOM CORNER" -> 10639
      [] name = "RIGHT SQUARE BRACKET WITH TICK IN TOP CORNER" -> 10640
      [] name = "LEFT ANGLE BRACKET WITH DOT" -> 10641
      [] name = "RIGHT ANGLE BRACKET WITH DOT" -> 10642
      [] name = "LEFT ARC LESS-THAN BRACKET" -> 10643
      [] name = "RIGHT ARC GREATER-THAN BRACKET" -> 10644
      [] name = "DOUBLE LEFT ARC GREATER-THAN BRACKET" -> 10645
      [] name = "DOUBLE RIGHT ARC LESS-THAN BRACKET" -> 10646
      [] name = "LEFT BLACK TORTOISE SHELL BRACKET" -> 10647
      [] name = "RIGHT BLACK TORTOISE SHELL BRACKET" -> 10648
      [] name = "DOTTED FENCE" -> 10649
      [] name = "VERTICAL ZIGZAG LINE" -> 10650
      [] name = "MEASURED ANGLE OPENING LEFT" -> 10651
      [] name = "RIGHT ANGLE VARIANT WITH SQUARE" -> 10652
      [] name = "MEASURED RIGHT ANGLE WITH DOT" -> 10653
      [] name = "ANGLE WITH S INSIDE" -> 10654
      [] name = "ACUTE ANGLE" -> 10655
      [] name = "SPHERICAL ANGLE OPENING LEFT" -> 10656
      [] name = "SPHERICAL ANGLE OPENING UP" -> 10657
      [] name = "TURNED ANGLE" -> 10658
      [] name = "REVERSED ANGLE" -> 10659
      [] name = "ANGLE WITH UNDERBAR" -> 10660
      [] name = "REVERSED ANGLE WITH UNDERBAR" -> 10661
      [] name = "OBLIQUE ANGLE OPENING UP" -> 10662
      [] name = "OBLIQUE ANGLE OPENING DOWN" -> 10663
      [] name = "MEASURED ANGLE WITH OPEN ARM ENDING IN ARROW POINTING UP AND RIGHT" -> 10664
      [] name = "MEASURED ANGLE WITH OPEN ARM ENDING IN ARROW POINTING UP AND LEFT" -> 10665
      [] name = "MEASURED ANGLE WITH OPEN ARM ENDING IN ARROW POINTING DOWN AND RIGHT" -> 10666
      [] name = "MEASURED ANGLE WITH OPEN ARM ENDING IN ARROW POINTING DOWN AND LEFT" -> 10667
      [] name = "MEASURED ANGLE WITH OPEN ARM ENDING IN ARROW POINTING RIGHT AND UP" -> 10668
      [] name = "MEASURED ANGLE WITH OPEN ARM ENDING IN ARROW POINTING LEFT AND UP" -> 10669
      [] name = "MEASURED ANGLE WITH OPEN ARM ENDING IN ARROW POINTING RIGHT AND DOWN" -> 10670
      [] name = "MEASURED ANGLE WITH OPEN ARM ENDING IN ARROW POINTING LEFT AND DOWN" -> 10671
      [] name = "REVERSED EMPTY SET" -> 10672
      [] name = "EMPTY SET WITH OVERBAR" -> 10673
      [] name = "EMPTY SET WITH SMALL CIRCLE ABOVE" -> 10674
      [] name = "EMPTY SET WITH RIGHT ARROW ABOVE" -> 10675
      [] name = "EMPTY SET WITH LEFT ARROW ABOVE" -> 10676
      [] name = "CIRCLE WITH HORIZONTAL BAR" -> 10677
      [] name = "CIRCLED VERTICAL BAR" -> 10678
      [] name = "CIRCLED PARALLEL" -> 10679
      [] name = "CIRCLED REVERSE SOLIDUS" -> 10680
      [] name = "CIRCLED PERPENDICULAR" -> 10681
      [] name = "CIRCLE DIVIDED BY HORIZONTAL BAR AND TOP HALF DIVIDED BY VERTICAL BAR" -> 10682
      [] name = "CIRCLE WITH SUPERIMPOSED X" -> 10683
      [] name = "CIRCLED ANTICLOCKWISE-ROTATED DIVISION SIGN" -> 10684
      [] name = "UP ARROW THROUGH CIRCLE" -> 10685
      [] name = "CIRCLED WHITE BULLET" -> 10686
      [] name = "CIRCLED BULLET" -> 10687
      [] name = "CIRCLED LESS-THAN" -> 10688
      [] name = "CIRCLED GREATER-THAN" -> 10689
      [] name = "CIRCLE WITH SMALL CIRCLE TO THE RIGHT" -> 10690
      [] name = "CIRCLE WITH TWO HORIZONTAL STROKES TO THE RIGHT" -> 10691
      [] name = "SQUARED RISING DIAGONAL SLASH" -> 10692
      [] name = "SQUARED FALLING DIAGONAL SLASH" -> 10693
      [] name = "SQUARED ASTERISK" -> 10694
      [] name = "SQUARED SMALL CIRCLE" -> 10695
      [] name = "SQUARED SQUARE" -> 10696
      [] name = "TWO JOINED SQUARES" -> 10697
      [] name = "TRIANGLE WITH DOT ABOVE" -> 10698
      [] name = "TRIANGLE WITH UNDERBAR" -> 10699
      [] name = "S IN TRIANGLE" -> 10700
      [] name = "TRIANGLE WITH SERIFS AT BOTTOM" -> 10701
      [] name = "RIGHT TRIANGLE ABOVE LEFT TRIANGLE" -> 10702
      [] name = "LEFT TRIANGLE BESIDE VERTICAL BAR" -> 10703
      [] name = "VERTICAL BAR BESIDE RIGHT TRIANGLE" -> 10704
      [] name = "BOWTIE WITH LEFT HALF BLACK" -> 10705
      [] name = "BOWTIE WITH RIGHT HALF BLACK" -> 10706
      [] name = "BLACK BOWTIE" -> 10707
      [] name = "TIMES WITH LEFT HALF BLACK" -> 10708
      [] name = "TIMES WITH RIGHT HALF BLACK" -> 10709
      [] name = "WHITE HOURGLASS" -> 10710
      [] name = "BLACK HOURGLASS" -> 10711
      [] name = "LEFT WIGGLY FENCE" -> 10712
      [] name = "RIGHT WIGGLY FENCE" -> 10713
      [] name = "LEFT DOUBLE WIGGLY FENCE" -> 10714
      [] name = "RIGHT DOUBLE WIGGLY FENCE" -> 10715
      [] name = "INCOMPLETE INFINITY" -> 10716
      [] name = "TIE OVER INFINITY" -> 10717
      [] name = "INFINITY NEGATED WITH VERTICAL BAR" -> 10718
      [] name = "DOUBLE-ENDED MULTIMAP" -> 10719
      [] name = "SQUARE WITH CONTOURED OUTLINE" -> 10720
      [] name = "INCREASES AS" -> 10721
      [] name = "SHUFFLE PRODUCT" -> 10722
      [] name = "EQUALS SIGN AND SLANTED PARALLEL" -> 10723
      [] name = "EQUALS SIGN AND SLANTED PARALLEL WITH TILDE ABOVE" -> 10724
      [] name = "IDENTICAL TO AND SLANTED PARALLEL" -> 10725
      [] name = "GLEICH STARK" -> 10726
      [] name = "THERMODYNAMIC" -> 10727
      [] name = "DOWN-POINTING TRIANGLE WITH LEFT HALF BLACK" -> 10728
      [] name = "DOWN-POINTING TRIANGLE WITH RIGHT HALF BLACK" -> 10729
      [] name = "BLACK DIAMOND WITH DOWN ARROW" -> 10730
      [] name = "BLACK LOZENGE" -> 10731
      [] name = "WHITE CIRCLE WITH DOWN ARROW" -> 10732
      [] name = "BLACK CIRCLE WITH DOWN ARROW" -> 10733
      [] name = "ERROR-BARRED WHITE SQUARE" -> 10734
      [] name = "ERROR-BARRED BLACK SQUARE" -> 10735
      [] name = "ERROR-BARRED WHITE DIAMOND" -> 10736
      [] name = "ERROR-BARRED BLACK DIAMOND" -> 10737
      [] name = "ERROR-BARRED WHITE CIRCLE" -> 10738
      [] name = "ERROR-BARRED BLACK CIRCLE" -> 10739
      [] name = "RULE-DELAYED" -> 10740
      [] name = "REVERSE SOLIDUS OPERATOR" -> 10741
      [] name = "SOLIDUS WITH OVERBAR" -> 10742
      [] name = "REVERSE SOLIDUS WITH HORIZONTAL STROKE" -> 10743
      [] name = "BIG SOLIDUS" -> 10744
      [] name = "BIG REVERSE SOLIDUS" -> 10745
      [] name = "DOUBLE PLUS" -> 10746
      [] name = "TRIPLE PLUS" -> 10747
      [] name = "LEFT-POINTING CURVED ANGLE BRACKET" -> 10748
      [] name = "RIGHT-POINTING CURVED ANGLE BRACKET" -> 10749
      [] name = "TINY" -> 10750
      [] name = "MINY" -> 10751
      [] name = "N-ARY CIRCLED DOT OPERATOR" -> 10752
      [] name = "N-ARY CIRCLED PLUS OPERATOR" -> 10753
      [] name = "N-ARY CIRCLED TIMES OPERATOR" -> 10754
      [] name = "N-ARY UNION OPERATOR WITH DOT" -> 10755
      [] name = "N-ARY UNION OPERATOR WITH PLUS" -> 10756
      [] name = "N-ARY SQUARE INTERSECTION OPERATOR" -> 10757
      [] name = "N-ARY SQUARE UNION OPERATOR" -> 10758
      [] name = "TWO LOGICAL AND OPERATOR" -> 10759
      [] name = "TWO LOGICAL OR OPERATOR" -> 10760
      [] name = "N-ARY TIMES OPERATOR" -> 10761
      [] name = "MODULO TWO SUM" -> 10762
      [] name = "SUMMATION WITH INTEGRAL" -> 10763
      [] name = "QUADRUPLE INTEGRAL OPERATOR" -> 10764
      [] name = "FINITE PART INTEGRAL" -> 10765
      [] name = "INTEGRAL WITH DOUBLE STROKE" -> 10766
      [] name = "INTEGRAL AVERAGE WITH SLASH" -> 10767
      [] name = "CIRCULATION FUNCTION" -> 10768
      [] name = "ANTICLOCKWISE INTEGRATION" -> 10769
      [] name = "LINE INTEGRATION WITH RECTANGULAR PATH AROUND POLE" -> 10770
      [] name = "LINE INTEGRATION WITH SEMICIRCULAR PATH AROUND POLE" -> 10771
      [] name = "LINE INTEGRATION NOT INCLUDING THE POLE" -> 10772
      [] name = "INTEGRAL AROUND A POINT OPERATOR" -> 10773
      [] name = "QUATERNION INTEGRAL OPERATOR" -> 10774
      [] name = "INTEGRAL WITH LEFTWARDS ARROW WITH HOOK" -> 10775
      [] name = "INTEGRAL WITH TIMES SIGN" -> 10776
      [] name = "INTEGRAL WITH INTERSECTION" -> 10777
      [] name = "INTEGRAL WITH UNION" -> 10778
      [] name = "INTEGRAL WITH OVERBAR" -> 10779
      [] name = "INTEGRAL WITH UNDERBAR" -> 10780
      [] name = "JOIN" -> 10781
      [] name = "LARGE LEFT TRIANGLE OPERATOR" -> 10782
      [] name = "Z NOTATION SCHEMA COMPOSITION" -> 10783
      [] name = "Z NOTATION SCHEMA PIPING" -> 10784
      [] name = "Z NOTATION SCHEMA PROJECTION" -> 10785
      [] name = "PLUS SIGN WITH SMALL CIRCLE ABOVE" -> 10786
      [] name = "PLUS SIGN WITH CIRCUMFLEX ACCENT ABOVE" -> 10787
      [] name = "PLUS SIGN WITH TILDE ABOVE" -> 10788
      [] name = "PLUS SIGN WITH DOT BELOW" -> 10789
      [] name = "PLUS SIGN WITH TILDE BELOW" -> 10790
      [] name = "PLUS SIGN WITH SUBSCRIPT TWO" -> 10791
      [] name = "PLUS SIGN WITH BLACK TRIANGLE" -> 10792
      [] name = "MINUS SIGN WITH COMMA ABOVE" -> 10793
      [] name = "MINUS SIGN WITH DOT BELOW" -> 10794
      [] name = "MINUS SIGN WITH FALLING DOTS" -> 10795
      [] name = "MINUS SIGN WITH RISING DOTS" -> 10796
      [] name = "PLUS SIGN IN LEFT HALF CIRCLE" -> 10797
      [] name = "PLUS SIGN IN RIGHT HALF CIRCLE" -> 10798
      [] name = "VECTOR OR CROSS PRODUCT" -> 10799
      [] name = "MULTIPLICATION SIGN WITH DOT ABOVE" -> 10800
      [] name = "MULTIPLICATION SIGN WITH UNDERBAR" -> 10801
      [] name = "SEMIDIRECT PRODUCT WITH BOTTOM CLOSED" -> 10802
      [] name = "SMASH PRODUCT" -> 10803
      [] name = "MULTIPLICATION SIGN IN LEFT HALF CIRCLE" -> 10804
      [] name = "MULTIPLICATION SIGN IN RIGHT HALF CIRCLE" -> 10805
      [] name = "CIRCLED MULTIPLICATION SIGN WITH CIRCUMFLEX ACCENT" -> 10806
      [] name = "MULTIPLICATION SIGN IN DOUBLE CIRCLE" -> 10807
      [] name = "CIRCLED DIVISION SIGN" -> 10808
      [] name = "PLUS SIGN IN TRIANGLE" -> 10809
      [] name = "MINUS SIGN IN TRIANGLE" -> 10810
      [] name = "MULTIPLICATION SIGN IN TRIANGLE" -> 10811
      [] name = "INTERIOR PRODUCT" -> 10812
      [] name = "RIGHTHAND INTERIOR PRODUCT" -> 10813
      [] name = "Z NOTATION RELATIONAL COMPOSITION" -> 10814
      [] name = "AMALGAMATION OR COPRODUCT" -> 10815
      [] name = "INTERSECTION WITH DOT" -> 10816
      [] name = "UNION WITH MINUS SIGN" -> 10817
      [] name = "UNION WITH OVERBAR" -> 10818
      [] name = "INTERSECTION WITH OVERBAR" -> 10819
      [] name = "INTERSECTION WITH LOGICAL AND" -> 10820
      [] name = "UNION WITH LOGICAL OR" -> 10821
      [] name = "UNION ABOVE INTERSECTION" -> 10822
      [] name = "INTERSECTION ABOVE UNION" -> 10823
      [] name = "UNION ABOVE BAR ABOVE INTERSECTION" -> 10824
      [] name = "INTERSECTION ABOVE BAR ABOVE UNION" -> 10825
      [] name = "UNION BESIDE AND JOINED WITH UNION" -> 10826
      [] name = "INTERSECTION BESIDE AND JOINED WITH INTERSECTION" -> 10827
      [] name = "CLOSED UNION WITH SERIFS" -> 10828
      [] name = "CLOSED INTERSECTION WITH SERIFS" -> 10829
      [] name = "DOUBLE SQUARE INTERSECTION" -> 10830
      [] name = "DOUBLE SQUARE UNION" -> 10831
      [] name = "CLOSED UNION WITH SERIFS AND SMASH PRODUCT" -> 10832
      [] name = "LOGICAL AND WITH DOT ABOVE" -> 10833
      [] name = "LOGICAL OR WITH DOT ABOVE" -> 10834
      [] name = "DOUBLE LOGICAL AND" -> 10835
      [] name = "DOUBLE LOGICAL OR" -> 10836
      [] name = "TWO INTERSECTING LOGICAL AND" -> 10837
      [] name = "TWO INTERSECTING LOGICAL OR" -> 10838
      [] name = "SLOPING LARGE OR" -> 10839
      [] name = "SLOPING LARGE AND" -> 10840
      [] name = "LOGICAL OR OVERLAPPING LOGICAL AND" -> 10841
      [] name = "LOGICAL AND WITH MIDDLE STEM" -> 10842
      [] name = "LOGICAL OR WITH MIDDLE STEM" -> 10843
      [] name = "LOGICAL AND WITH HORIZONTAL DASH" -> 10844
      [] name = "LOGICAL OR WITH HORIZONTAL DASH" -> 10845
      [] name = "LOGICAL AND WITH DOUBLE OVERBAR" -> 10846
      [] name = "LOGICAL AND WITH UNDERBAR" -> 10847
      [] name = "LOGICAL AND WITH DOUBLE UNDERBAR" -> 10848
      [] name = "SMALL VEE WITH UNDERBAR" -> 10849
      [] name = "LOGICAL OR WITH DOUBLE OVERBAR" -> 10850
      [] name = "LOGICAL OR WITH DOUBLE UNDERBAR" -> 10851
      [] name = "Z NOTATION DOMAIN ANTIRESTRICTION" -> 10852
      [] name = "Z NOTATION RANGE ANTIRESTRICTION" -> 10853
      [] name = "EQUALS SIGN WITH DOT BELOW" -> 10854
      [] name = "IDENTICAL WITH DOT ABOVE" -> 10855
      [] name = "TRIPLE HORIZONTAL BAR WITH DOUBLE VERTICAL STROKE" -> 10856
      [] name = "TRIPLE HORIZONTAL BAR WITH TRIPLE VERTICAL STROKE" -> 10857
      [] name = "TILDE OPERATOR WITH DOT ABOVE" -> 10858
      [] name = "TILDE OPERATOR WITH RISING DOTS" -> 10859
      [] name = "SIMILAR MINUS SIMILAR" -> 10860
      [] name = "CONGRUENT WITH DOT ABOVE" -> 10861
      [] name = "EQUALS WITH ASTERISK" -> 10862
      [] name = "ALMOST EQUAL TO WITH CIRCUMFLEX ACCENT" -> 10863
      [] name = "APPROXIMATELY EQUAL OR EQUAL TO" -> 10864
      [] name = "EQUALS SIGN ABOVE PLUS SIGN" -> 10865
      [] name = "PLUS SIGN ABOVE EQUALS SIGN" -> 10866
      [] name = "EQUALS SIGN ABOVE TILDE OPERATOR" -> 10867
      [] name = "DOUBLE COLON EQUAL" -> 10868
      [] name = "TWO CONSECUTIVE EQUALS SIGNS" -> 10869
      [] name = "THREE CONSECUTIVE EQUALS SIGNS" -> 10870
      [] name = "EQUALS SIGN WITH TWO DOTS ABOVE AND TWO DOTS BELOW" -> 10871
      [] name = "EQUIVALENT WITH FOUR DOTS ABOVE" -> 10872
      [] name = "LESS-THAN WITH CIRCLE INSIDE" -> 10873
      [] name = "GREATER-THAN WITH CIRCLE INSIDE" -> 10874
      [] name = "LESS-THAN WITH QUESTION MARK ABOVE" -> 10875
      [] name = "GREATER-THAN WITH QUESTION MARK ABOVE" -> 10876
      [] name = "LESS-THAN OR SLANTED EQUAL TO" -> 10877
      [] name = "GREATER-THAN OR SLANTED EQUAL TO" -> 10878
      [] name = "LESS-THAN OR SLANTED EQUAL TO WITH DOT INSIDE" -> 10879
      [] name = "GREATER-THAN OR SLANTED EQUAL TO WITH DOT INSIDE" -> 10880
      [] name = "LESS-THAN OR SLANTED EQUAL TO WITH DOT ABOVE" -> 10881
      [] name = "GREATER-THAN OR SLANTED EQUAL TO WITH DOT ABOVE" -> 10882
      [] name = "LESS-THAN OR SLANTED EQUAL TO WITH DOT ABOVE RIGHT" -> 10883
      [] name = "GREATER-THAN OR SLANTED EQUAL TO WITH DOT ABOVE LEFT" -> 10884
      [] name = "LESS-THAN OR APPROXIMATE" -> 10885
      [] name = "GREATER-THAN OR APPROXIMATE" -> 10886
      [] name = "LESS-THAN AND SINGLE-LINE NOT EQUAL TO" -> 10887
      [] name = "GREATER-THAN AND SINGLE-LINE NOT EQUAL TO" -> 10888
      [] name = "LESS-THAN AND NOT APPROXIMATE" -> 10889
      [] name = "GREATER-THAN AND NOT APPROXIMATE" -> 10890
      [] name = "LESS-THAN ABOVE DOUBLE-LINE EQUAL ABOVE GREATER-THAN" -> 10891
      [] name = "GREATER-THAN ABOVE DOUBLE-LINE EQUAL ABOVE LESS-THAN" -> 10892
      [] name = "LESS-THAN ABOVE SIMILAR OR EQUAL" -> 10893
      [] name = "GREATER-THAN ABOVE SIMILAR OR EQUAL" -> 10894
      [] name = "LESS-THAN ABOVE SIMILAR ABOVE GREATER-THAN" -> 10895
      [] name = "GREATER-THAN ABOVE SIMILAR ABOVE LESS-THAN" -> 10896
      [] name = "LESS-THAN ABOVE GREATER-THAN ABOVE DOUBLE-LINE EQUAL" -> 10897
      [] name = "GREATER-THAN ABOVE LESS-THAN ABOVE DOUBLE-LINE EQUAL" -> 10898
      [] name = "LESS-THAN ABOVE SLANTED EQUAL ABOVE GREATER-THAN ABOVE SLANTED EQUAL" -> 10899
      [] name = "GREATER-THAN ABOVE SLANTED EQUAL ABOVE LESS-THAN ABOVE SLANTED EQUAL" -> 10900
      [] name = "SLANTED EQUAL TO OR LESS-THAN" -> 10901
      [] name = "SLANTED EQUAL TO OR GREATER-THAN" -> 10902
      [] name = "SLANTED EQUAL TO OR LESS-THAN WITH DOT INSIDE" -> 10903
      [] name = "SLANTED EQUAL TO OR GREATER-THAN WITH DOT INSIDE" -> 10904
      [] name = "DOUBLE-LINE EQUAL TO OR LESS-THAN" -> 10905
      [] name = "DOUBLE-LINE EQUAL TO OR GREATER-THAN" -> 10906
      [] name = "DOUBLE-LINE SLANTED EQUAL TO OR LESS-THAN" -> 10907
      [] name = "DOUBLE-LINE SLANTED EQUAL TO OR GREATER-THAN" -> 10908
      [] name = "SIMILAR OR LESS-THAN" -> 10909
      [] name = "SIMILAR OR GREATER-THAN" -> 10910
      [] name = "SIMILAR ABOVE LESS-THAN ABOVE EQUALS SIGN" -> 10911
      [] name = "SIMILAR ABOVE GREATER-THAN ABOVE EQUALS SIGN" -> 10912
      [] name = "DOUBLE NESTED LESS-THAN" -> 10913
      [] name = "DOUBLE NESTED GREATER-THAN" -> 10914
      [] name = "DOUBLE NESTED LESS-THAN WITH UNDERBAR" -> 10915
      [] name = "GREATER-THAN OVERLAPPING LESS-THAN" -> 10916
      [] name = "GREATER-THAN BESIDE LESS-THAN" -> 10917
      [] name = "LESS-THAN CLOSED BY CURVE" -> 10918
      [] name = "GREATER-THAN CLOSED BY CURVE" -> 10919
      [] name = "LESS-THAN CLOSED BY CURVE ABOVE SLANTED EQUAL" -> 10920
      [] name = "GREATER-THAN CLOSED BY CURVE ABOVE SLANTED EQUAL" -> 10921
      [] name = "SMALLER THAN" -> 10922
      [] name = "LARGER THAN" -> 10923
      [] name = "SMALLER THAN OR EQUAL TO" -> 10924
      [] name = "LARGER THAN OR EQUAL TO" -> 10925
      [] name = "EQUALS SIGN WITH BUMPY ABOVE" -> 10926
      [] name = "PRECEDES ABOVE SINGLE-LINE EQUALS SIGN" -> 10927
      [] name = "SUCCEEDS ABOVE SINGLE-LINE EQUALS SIGN" -> 10928
      [] name = "PRECEDES ABOVE SINGLE-LINE NOT EQUAL TO" -> 10929
      [] name = "SUCCEEDS ABOVE SINGLE-LINE NOT EQUAL TO" -> 10930
      [] name = "PRECEDES ABOVE EQUALS SIGN" -> 10931
      [] name = "SUCCEEDS ABOVE EQUALS SIGN" -> 10932
      [] name = "PRECEDES ABOVE NOT EQUAL TO" -> 10933
      [] name = "SUCCEEDS ABOVE NOT EQUAL TO" -> 10934
      [] name = "PRECEDES ABOVE ALMOST EQUAL TO" -> 10935
      [] name = "SUCCEEDS ABOVE ALMOST EQUAL TO" -> 10936
      [] name = "PRECEDES ABOVE NOT ALMOST EQUAL TO" -> 10937
      [] name = "SUCCEEDS ABOVE NOT ALMOST EQUAL TO" -> 10938
      [] name = "DOUBLE PRECEDES" -> 10939
      [] name = "DOUBLE SUCCEEDS" -> 10940
      [] name = "SUBSET WITH DOT" -> 10941
      [] name = "SUPERSET WITH DOT" -> 10942
      [] name = "SUBSET WITH PLUS SIGN BELOW" -> 10943
      [] name = "SUPERSET WITH PLUS SIGN BELOW" -> 10944
      [] name = "SUBSET WITH MULTIPLICATION SIGN BELOW" -> 10945
      [] name = "SUPERSET WITH MULTIPLICATION SIGN BELOW" -> 10946
      [] name = "SUBSET OF OR EQUAL TO WITH DOT ABOVE" -> 10947
      [] name = "SUPERSET OF OR EQUAL TO WITH DOT ABOVE" -> 10948
      [] name = "SUBSET OF ABOVE EQUALS SIGN" -> 10949
      [] name = "SUPERSET OF ABOVE EQUALS SIGN" -> 10950
      [] name = "SUBSET OF ABOVE TILDE OPERATOR" -> 10951
      [] name = "SUPERSET OF ABOVE TILDE OPERATOR" -> 10952
      [] name = "SUBSET OF ABOVE ALMOST EQUAL TO" -> 10953
      [] name = "SUPERSET OF ABOVE ALMOST EQUAL TO" -> 10954
      [] name = "SUBSET OF ABOVE NOT EQUAL TO" -> 10955
      [] name = "SUPERSET OF ABOVE NOT EQUAL TO" -> 10956
      [] name = "SQUARE LEFT OPEN BOX OPERATOR" -> 10957
      [] name = "SQUARE RIGHT OPEN BOX OPERATOR" -> 10958
      [] name = "CLOSED SUBSET" -> 10959
      [] name = "CLOSED SUPERSET" -> 10960
      [] name = "CLOSED SUBSET OR EQUAL TO" -> 10961
      [] name = "CLOSED SUPERSET OR EQUAL TO" -> 10962
      [] name = "SUBSET ABOVE SUPERSET" -> 10963
      [] name = "SUPERSET ABOVE SUBSET" -> 10964
      [] name = "SUBSET ABOVE SUBSET" -> 10965
      [] name = "SUPERSET ABOVE SUPERSET" -> 10966
      [] name = "SUPERSET BESIDE SUBSET" -> 10967
      [] name = "SUPERSET BESIDE AND JOINED BY DASH WITH SUBSET" -> 10968
      [] name = "ELEMENT OF OPENING DOWNWARDS" -> 10969
      [] name = "PITCHFORK WITH TEE TOP" -> 10970
      [] name = "TRANSVERSAL INTERSECTION" -> 10971
      [] name = "FORKING" -> 10972
      [] name = "NONFORKING" -> 10973
      [] name = "SHORT LEFT TACK" -> 10974
      [] name = "SHORT DOWN TACK" -> 10975
      [] name = "SHORT UP TACK" -> 10976
      [] name = "PERPENDICULAR WITH S" -> 10977
      [] name = "VERTICAL BAR TRIPLE RIGHT TURNSTILE" -> 10978
      [] name = "DOUBLE VERTICAL BAR LEFT TURNSTILE" -> 10979
      [] name = "VERTICAL BAR DOUBLE LEFT TURNSTILE" -> 10980
      [] name = "DOUBLE VERTICAL BAR DOUBLE LEFT TURNSTILE" -> 10981
      [] name = "LONG DASH FROM LEFT MEMBER OF DOUBLE VERTICAL" -> 10982
      [] name = "SHORT DOWN TACK WITH OVERBAR" -> 10983
      [] name = "SHORT UP TACK WITH UNDERBAR" -> 10984
      [] name = "SHORT UP TACK ABOVE SHORT DOWN TACK" -> 10985
      [] name = "DOUBLE DOWN TACK" -> 10986
      [] name = "DOUBLE UP TACK" -> 10987
      [] name = "DOUBLE STROKE NOT SIGN" -> 10988
      [] name = "REVERSED DOUBLE STROKE NOT SIGN" -> 10989
      [] name = "DOES NOT DIVIDE WITH REVERSED NEGATION SLASH" -> 10990
      [] name = "VERTICAL LINE WITH CIRCLE ABOVE" -> 10991
      [] name = "VERTICAL LINE WITH CIRCLE BELOW" -> 10992
      [] name = "DOWN TACK WITH CIRCLE BELOW" -> 10993
      [] name = "PARALLEL WITH HORIZONTAL STROKE" -> 10994
      [] name = "PARALLEL WITH TILDE OPERATOR" -> 10995
      [] name = "TRIPLE VERTICAL BAR BINARY RELATION" -> 10996
      [] name = "TRIPLE VERTICAL BAR WITH HORIZONTAL STROKE" -> 10997
      [] name = "TRIPLE COLON OPERATOR" -> 10998
      [] name = "TRIPLE NESTED LESS-THAN" -> 10999
      [] name = "TRIPLE NESTED GREATER-THAN" -> 11000
      [] name = "DOUBLE-LINE SLANTED LESS-THAN OR EQUAL TO" -> 11001
      [] name = "DOUBLE-LINE SLANTED GREATER-THAN OR EQUAL TO" -> 11002
      [] name = "TRIPLE SOLIDUS BINARY RELATION" -> 11003
      [] name = "LARGE TRIPLE VERTICAL BAR OPERATOR" -> 11004
      [] name = "DOUBLE SOLIDUS OPERATOR" -> 11005
      [] name = "WHITE VERTICAL BAR" -> 11006
      [] name = "N-ARY WHITE VERTICAL BAR" -> 11007
      [] name = "NORTH EAST WHITE ARROW" -> 11008
      [] name = "NORTH WEST WHITE ARROW" -> 11009
      [] name = "SOUTH EAST WHITE ARROW" -> 11010
      [] name = "SOUTH WEST WHITE ARROW" -> 11011
      [] name = "LEFT RIGHT WHITE ARROW" -> 11012
      [] name = "LEFTWARDS BLACK ARROW" -> 11013
      [] name = "UPWARDS BLACK ARROW" -> 11014
      [] name = "DOWNWARDS BLACK ARROW" -> 11015
      [] name = "NORTH EAST BLACK ARROW" -> 11016
      [] name = "NORTH WEST BLACK ARROW" -> 11017
      [] name = "SOUTH EAST BLACK ARROW" -> 11018
      [] name = "SOUTH WEST BLACK ARROW" -> 11019
      [] name = "LEFT RIGHT BLACK ARROW" -> 11020
      [] name = "UP DOWN BLACK ARROW" -> 11021
      [] name = "RIGHTWARDS ARROW WITH TIP DOWNWARDS" -> 11022
      [] name = "RIGHTWARDS ARROW WITH TIP UPWARDS" -> 11023
      [] name = "LEFTWARDS ARROW WITH TIP DOWNWARDS" -> 11024
      [] name = "LEFTWARDS ARROW WITH TIP UPWARDS" -> 11025
      [] name = "SQUARE WITH TOP HALF BLACK" -> 11026
      [] name = "SQUARE WITH BOTTOM HALF BLACK" -> 11027
      [] name = "SQUARE WITH UPPER RIGHT DIAGONAL HALF BLACK" -> 11028
      [] name = "SQUARE WITH LOWER LEFT DIAGONAL HALF BLACK" -> 11029
      [] name = "DIAMOND WITH LEFT HALF BLACK" -> 11030
      [] name = "DIAMOND WITH RIGHT HALF BLACK" -> 11031
      [] name = "DIAMOND WITH TOP HALF BLACK" -> 11032
      [] name = "DIAMOND WITH BOTTOM HALF BLACK" -> 11033
      [] name = "DOTTED SQUARE" -> 11034
      [] name = "BLACK LARGE SQUARE" -> 11035
      [] name = "WHITE LARGE SQUARE" -> 11036
      [] name = "BLACK VERY SMALL SQUARE" -> 11037
      [] name = "WHITE VERY SMALL SQUARE" -> 11038
      [] name = "BLACK PENTAGON" -> 11039
      [] name = "WHITE PENTAGON" -> 11040
      [] name = "WHITE HEXAGON" -> 11041
      [] name = "BLACK HEXAGON" -> 11042
      [] name = "HORIZONTAL BLACK HEXAGON" -> 11043
      [] name = "BLACK LARGE CIRCLE" -> 11044
      [] name = "BLACK MEDIUM DIAMOND" -> 11045
      [] name = "WHITE MEDIUM DIAMOND" -> 11046
      [] name = "BLACK MEDIUM LOZENGE" -> 11047
      [] name = "WHITE MEDIUM LOZENGE" -> 11048
      [] name = "BLACK SMALL DIAMOND" -> 11049
      [] name = "BLACK SMALL LOZENGE" -> 11050
      [] name = "WHITE SMALL LOZENGE" -> 11051
      [] name = "BLACK HORIZONTAL ELLIPSE" -> 11052
      [] name = "WHITE HORIZONTAL ELLIPSE" -> 11053
      [] name = "BLACK VERTICAL ELLIPSE" -> 11054
      [] name = "WHITE VERTICAL ELLIPSE" -> 11055
      [] name = "LEFT ARROW WITH SMALL CIRCLE" -> 11056
      [] name = "THREE LEFTWARDS ARROWS" -> 11057
      [] name = "LEFT ARROW WITH CIRCLED PLUS" -> 11058
      [] name = "LONG LEFTWARDS SQUIGGLE ARROW" -> 11059
      [] name = "LEFTWARDS TWO-HEADED ARROW WITH VERTICAL STROKE" -> 11060
      [] name = "LEFTWARDS TWO-HEADED ARROW WITH DOUBLE VERTICAL STROKE" -> 11061
      [] name = "LEFTWARDS TWO-HEADED ARROW FROM BAR" -> 11062
      [] name = "LEFTWARDS TWO-HEADED TRIPLE DASH ARROW" -> 11063
      [] name = "LEFTWARDS ARROW WITH DOTTED STEM" -> 11064
      [] name = "LEFTWARDS ARROW WITH TAIL WITH VERTICAL STROKE" -> 11065
      [] name = "LEFTWARDS ARROW WITH TAIL WITH DOUBLE VERTICAL STROKE" -> 11066
      [] name = "LEFTWARDS TWO-HEADED ARROW WITH TAIL" -> 11067
      [] name = "LEFTWARDS TWO-HEADED ARROW WITH TAIL WITH VERTICAL STROKE" -> 11068
      [] name = "LEFTWARDS TWO-HEADED ARROW WITH TAIL WITH DOUBLE VERTICAL STROKE" -> 11069
      [] name = "LEFTWARDS ARROW THROUGH X" -> 11070
      [] name = "WAVE ARROW POINTING DIRECTLY LEFT" -> 11071
      [] name = "EQUALS SIGN ABOVE LEFTWARDS ARROW" -> 11072
      [] name = "REVERSE TILDE OPERATOR ABOVE LEFTWARDS ARROW" -> 11073
      [] name = "LEFTWARDS ARROW ABOVE REVERSE ALMOST EQUAL TO" -> 11074
      [] name = "RIGHTWARDS ARROW THROUGH GREATER-THAN" -> 11075
      [] name = "RIGHTWARDS ARROW THROUGH SUPERSET" -> 11076
      [] name = "LEFTWARDS QUADRUPLE ARROW" -> 11077
      [] name = "RIGHTWARDS QUADRUPLE ARROW" -> 11078
      [] name = "REVERSE TILDE OPERATOR ABOVE RIGHTWARDS ARROW" -> 11079
      [] name = "RIGHTWARDS ARROW ABOVE REVERSE ALMOST EQUAL TO" -> 11080
      [] name = "TILDE OPERATOR ABOVE LEFTWARDS ARROW" -> 11081
      [] name = "LEFTWARDS ARROW ABOVE ALMOST EQUAL TO" -> 11082
      [] name = "LEFTWARDS ARROW ABOVE REVERSE TILDE OPERATOR" -> 11083
      [] name = "RIGHTWARDS ARROW ABOVE REVERSE TILDE OPERATOR" -> 11084
      [] name = "DOWNWARDS TRIANGLE-HEADED ZIGZAG ARROW" -> 11085
      [] name = "SHORT SLANTED NORTH ARROW" -> 11086
      [] name = "SHORT BACKSLANTED SOUTH ARROW" -> 11087
      [] name = "WHITE MEDIUM STAR" -> 11088
      [] name = "BLACK SMALL STAR" -> 11089
      [] name = "WHITE SMALL STAR" -> 11090
      [] name = "BLACK RIGHT-POINTING PENTAGON" -> 11091
      [] name = "WHITE RIGHT-POINTING PENTAGON" -> 11092
      [] name = "HEAVY LARGE CIRCLE" -> 11093
      [] name = "HEAVY OVAL WITH OVAL INSIDE" -> 11094
      [] name = "HEAVY CIRCLE WITH CIRCLE INSIDE" -> 11095
      [] name = "HEAVY CIRCLE" -> 11096
      [] name = "HEAVY CIRCLED SALTIRE" -> 11097
      [] name = "SLANTED NORTH ARROW WITH HOOKED HEAD" -> 11098
      [] name = "BACKSLANTED SOUTH ARROW WITH HOOKED TAIL" -> 11099
      [] name = "SLANTED NORTH ARROW WITH HORIZONTAL TAIL" -> 11100
      [] name = "BACKSLANTED SOUTH ARROW WITH HORIZONTAL TAIL" -> 11101
      [] name = "BENT ARROW POINTING DOWNWARDS THEN NORTH EAST" -> 11102
      [] name = "SHORT BENT ARROW POINTING DOWNWARDS THEN NORTH EAST" -> 11103
      [] name = "LEFTWARDS TRIANGLE-HEADED ARROW" -> 11104
      [] name = "UPWARDS TRIANGLE-HEADED ARROW" -> 11105
      [] name = "RIGHTWARDS TRIANGLE-HEADED ARROW" -> 11106
      [] name = "DOWNWARDS TRIANGLE-HEADED ARROW" -> 11107
      [] name = "LEFT RIGHT TRIANGLE-HEADED ARROW" -> 11108
      [] name = "UP DOWN TRIANGLE-HEADED ARROW" -> 11109
      [] name = "NORTH WEST TRIANGLE-HEADED ARROW" -> 11110
      [] name = "NORTH EAST TRIANGLE-HEADED ARROW" -> 11111
      [] name = "SOUTH EAST TRIANGLE-HEADED ARROW" -> 11112
      [] name = "SOUTH WEST TRIANGLE-HEADED ARROW" -> 11113
      [] name = "LEFTWARDS TRIANGLE-HEADED DASHED ARROW" -> 11114
      [] name = "UPWARDS TRIANGLE-HEADED DASHED ARROW" -> 11115
      [] name = "RIGHTWARDS TRIANGLE-HEADED DASHED ARROW" -> 11116
      [] name = "DOWNWARDS TRIANGLE-HEADED DASHED ARROW" -> 11117
      [] name = "CLOCKWISE TRIANGLE-HEADED OPEN CIRCLE ARROW" -> 11118
      [] name = "ANTICLOCKWISE TRIANGLE-HEADED OPEN CIRCLE ARROW" -> 11119
      [] name = "LEFTWARDS TRIANGLE-HEADED ARROW TO BAR" -> 11120
      [] name = "UPWARDS TRIANGLE-HEADED ARROW TO BAR" -> 11121
      [] name = "RIGHTWARDS TRIANGLE-HEADED ARROW TO BAR" -> 11122
      [] name = "DOWNWARDS TRIANGLE-HEADED ARROW TO BAR" -> 11123
      [] name = "NORTH WEST TRIANGLE-HEADED ARROW TO BAR" -> 11126
      [] name = "NORTH EAST TRIANGLE-HEADED ARROW TO BAR" -> 11127
      [] name = "SOUTH EAST TRIANGLE-HEADED ARROW TO BAR" -> 11128
      [] name = "SOUTH WEST TRIANGLE-HEADED ARROW TO BAR" -> 11129
      [] name = "LEFTWARDS TRIANGLE-HEADED ARROW WITH DOUBLE HORIZONTAL STROKE" -> 11130
      [] name = "LEFTWARDS TRIANGLE-HEADED ARROW WITH DOUBLE VERTICAL STROKE" -> 11130
      [] name = "UPWARDS TRIANGLE-HEADED ARROW WITH DOUBLE HORIZONTAL STROKE" -> 11131
      [] name = "RIGHTWARDS TRIANGLE-HEADED ARROW WITH DOUBLE HORIZONTAL STROKE" -> 11132
      [] name = "RIGHTWARDS TRIANGLE-HEADED ARROW WITH DOUBLE VERTICAL STROKE" -> 11132
      [] name = "DOWNWARDS TRIANGLE-HEADED ARROW WITH DOUBLE HORIZONTAL STROKE" -> 11133
      [] name = "HORIZONTAL TAB KEY" -> 11134
      [] name = "VERTICAL TAB KEY" -> 11135
      [] name = "LEFTWARDS TRIANGLE-HEADED ARROW OVER RIGHTWARDS TRIANGLE-HEADED ARROW" -> 11136
      [] name = "UPWARDS TRIANGLE-HEADED ARROW LEFTWARDS OF DOWNWARDS TRIANGLE-HEADED ARROW" -> 11137
      [] name = "RIGHTWARDS TRIANGLE-HEADED ARROW OVER LEFTWARDS TRIANGLE-HEADED ARROW" -> 11138
      [] name = "DOWNWARDS TRIANGLE-HEADED ARROW LEFTWARDS OF UPWARDS TRIANGLE-HEADED ARROW" -> 11139
      [] name = "LEFTWARDS TRIANGLE-HEADED PAIRED ARROWS" -> 11140
      [] name = "UPWARDS TRIANGLE-HEADED PAIRED ARROWS" -> 11141
      [] name = "RIGHTWARDS TRIANGLE-HEADED PAIRED ARROWS" -> 11142
      [] name = "DOWNWARDS TRIANGLE-HEADED PAIRED ARROWS" -> 11143
      [] name = "LEFTWARDS BLACK CIRCLED WHITE ARROW" -> 11144
      [] name = "UPWARDS BLACK CIRCLED WHITE ARROW" -> 11145
      [] name = "RIGHTWARDS BLACK CIRCLED WHITE ARROW" -> 11146
      [] name = "DOWNWARDS BLACK CIRCLED WHITE ARROW" -> 11147
      [] name = "ANTICLOCKWISE TRIANGLE-HEADED RIGHT U-SHAPED ARROW" -> 11148
      [] name = "ANTICLOCKWISE TRIANGLE-HEADED BOTTOM U-SHAPED ARROW" -> 11149
      [] name = "ANTICLOCKWISE TRIANGLE-HEADED LEFT U-SHAPED ARROW" -> 11150
      [] name = "ANTICLOCKWISE TRIANGLE-HEADED TOP U-SHAPED ARROW" -> 11151
      [] name = "RETURN LEFT" -> 11152
      [] name = "RETURN RIGHT" -> 11153
      [] name = "NEWLINE LEFT" -> 11154
      [] name = "NEWLINE RIGHT" -> 11155
      [] name = "FOUR CORNER ARROWS CIRCLING ANTICLOCKWISE" -> 11156
      [] name = "RIGHTWARDS BLACK ARROW" -> 11157
      [] name = "SYMBOL FOR TYPE A ELECTRONICS" -> 11159
      [] name = "THREE-D TOP-LIGHTED LEFTWARDS EQUILATERAL ARROWHEAD" -> 11160
      [] name = "THREE-D RIGHT-LIGHTED UPWARDS EQUILATERAL ARROWHEAD" -> 11161
      [] name = "THREE-D TOP-LIGHTED RIGHTWARDS EQUILATERAL ARROWHEAD" -> 11162
      [] name = "THREE-D LEFT-LIGHTED DOWNWARDS EQUILATERAL ARROWHEAD" -> 11163
      [] name = "BLACK LEFTWARDS EQUILATERAL ARROWHEAD" -> 11164
      [] name = "BLACK UPWARDS EQUILATERAL ARROWHEAD" -> 11165
      [] name = "BLACK RIGHTWARDS EQUILATERAL ARROWHEAD" -> 11166
      [] name = "BLACK DOWNWARDS EQUILATERAL ARROWHEAD" -> 11167
      [] name = "DOWNWARDS TRIANGLE-HEADED ARROW WITH LONG TIP LEFTWARDS" -> 11168
      [] name = "DOWNWARDS TRIANGLE-HEADED ARROW WITH LONG TIP RIGHTWARDS" -> 11169
      [] name = "UPWARDS TRIANGLE-HEADED ARROW WITH LONG TIP LEFTWARDS" -> 11170
      [] name = "UPWARDS TRIANGLE-HEADED ARROW WITH LONG TIP RIGHTWARDS" -> 11171
      [] name = "LEFTWARDS TRIANGLE-HEADED ARROW WITH LONG TIP UPWARDS" -> 11172
      [] name = "RIGHTWARDS TRIANGLE-HEADED ARROW WITH LONG TIP UPWARDS" -> 11173
      [] name = "LEFTWARDS TRIANGLE-HEADED ARROW WITH LONG TIP DOWNWARDS" -> 11174
      [] name = "RIGHTWARDS TRIANGLE-HEADED ARROW WITH LONG TIP DOWNWARDS" -> 11175
      [] name = "BLACK CURVED DOWNWARDS AND LEFTWARDS ARROW" -> 11176
      [] name = "BLACK CURVED DOWNWARDS AND RIGHTWARDS ARROW" -> 11177
      [] name = "BLACK CURVED UPWARDS AND LEFTWARDS ARROW" -> 11178
      [] name = "BLACK CURVED UPWARDS AND RIGHTWARDS ARROW" -> 11179
      [] name = "BLACK CURVED LEFTWARDS AND UPWARDS ARROW" -> 11180
      [] name = "BLACK CURVED RIGHTWARDS AND UPWARDS ARROW" -> 11181
      [] name = "BLACK CURVED LEFTWARDS AND DOWNWARDS ARROW" -> 11182
      [] name = "BLACK CURVED RIGHTWARDS AND DOWNWARDS ARROW" -> 11183
      [] name = "RIBBON ARROW DOWN LEFT" -> 11184
      [] name = "RIBBON ARROW DOWN RIGHT" -> 11185
      [] name = "RIBBON ARROW UP LEFT" -> 11186
      [] name = "RIBBON ARROW UP RIGHT" -> 11187
      [] name = "RIBBON ARROW LEFT UP" -> 11188
      [] name = "RIBBON ARROW RIGHT UP" -> 11189
      [] name = "RIBBON ARROW LEFT DOWN" -> 11190
      [] name = "RIBBON ARROW RIGHT DOWN" -> 11191
      [] name = "UPWARDS WHITE ARROW FROM BAR WITH HORIZONTAL BAR" -> 11192
      [] name = "UP ARROWHEAD IN A RECTANGLE BOX" -> 11193
      [] name = "OVERLAPPING WHITE SQUARES" -> 11194
      [] name = "OVERLAPPING WHITE AND BLACK SQUARES" -> 11195
      [] name = "OVERLAPPING BLACK SQUARES" -> 11196
      [] name = "BALLOT BOX WITH LIGHT X" -> 11197
      [] name = "CIRCLED X" -> 11198
      [] name = "CIRCLED BOLD X" -> 11199
      [] name = "BLACK SQUARE CENTRED" -> 11200
      [] name = "BLACK DIAMOND CENTRED" -> 11201
      [] name = "TURNED BLACK PENTAGON" -> 11202
      [] name = "HORIZONTAL BLACK OCTAGON" -> 11203
      [] name = "BLACK OCTAGON" -> 11204
      [] name = "BLACK MEDIUM UP-POINTING TRIANGLE CENTRED" -> 11205
      [] name = "BLACK MEDIUM DOWN-POINTING TRIANGLE CENTRED" -> 11206
      [] name = "BLACK MEDIUM LEFT-POINTING TRIANGLE CENTRED" -> 11207
      [] name = "BLACK MEDIUM RIGHT-POINTING TRIANGLE CENTRED" -> 11208
      [] name = "NEPTUNE FORM TWO" -> 11209
      [] name = "TOP HALF BLACK CIRCLE" -> 11210
      [] name = "BOTTOM HALF BLACK CIRCLE" -> 11211
      [] name = "LIGHT FOUR POINTED BLACK CUSP" -> 11212
      [] name = "ROTATED LIGHT FOUR POINTED BLACK CUSP" -> 11213
      [] name = "WHITE FOUR POINTED CUSP" -> 11214
      [] name = "ROTATED WHITE FOUR POINTED CUSP" -> 11215
      [] name = "SQUARE POSITION INDICATOR" -> 11216
      [] name = "UNCERTAINTY SIGN" -> 11217
      [] name = "GROUP MARK" -> 11218
      [] name = "PLUTO FORM TWO" -> 11219
      [] name = "PLUTO FORM THREE" -> 11220
      [] name = "PLUTO FORM FOUR" -> 11221
      [] name = "PLUTO FORM FIVE" -> 11222
      [] name = "TRANSPLUTO" -> 11223
      [] name = "PROSERPINA" -> 11224
      [] name = "ASTRAEA" -> 11225
      [] name = "HYGIEA" -> 11226
      [] name = "PHOLUS" -> 11227
      [] name = "NESSUS" -> 11228
      [] name = "WHITE MOON SELENA" -> 11229
      [] name = "BLACK DIAMOND ON CROSS" -> 11230
      [] name = "TRUE LIGHT MOON ARTA" -> 11231
      [] name = "CUPIDO" -> 11232
      [] name = "HADES" -> 11233
      [] name = "ZEUS" -> 11234
      [] name = "KRONOS" -> 11235
      [] name = "APOLLON" -> 11236
      [] name = "ADMETOS" -> 11237
      [] name = "VULCANUS" -> 11238
      [] name = "POSEIDON" -> 11239
      [] name = "LEFT HALF BLACK STAR" -> 11240
      [] name = "RIGHT HALF BLACK STAR" -> 11241
      [] name = "STAR WITH LEFT HALF BLACK" -> 11242
      [] name = "STAR WITH RIGHT HALF BLACK" -> 11243
      [] name = "LEFTWARDS TWO-HEADED ARROW WITH TRIANGLE ARROWHEADS" -> 11244
      [] name = "UPWARDS TWO-HEADED ARROW WITH TRIANGLE ARROWHEADS" -> 11245
      [] name = "RIGHTWARDS TWO-HEADED ARROW WITH TRIANGLE ARROWHEADS" -> 11246
      [] name = "DOWNWARDS TWO-HEADED ARROW WITH TRIANGLE ARROWHEADS" -> 11247
      [] name = "ERIS FORM ONE" -> 11248
      [] name = "ERIS FORM TWO" -> 11249
      [] name = "SEDNA" -> 11250
      [] name = "RUSSIAN ASTROLOGICAL SYMBOL VIGINTILE" -> 11251
      [] name = "RUSSIAN ASTROLOGICAL SYMBOL NOVILE" -> 11252
      [] name = "RUSSIAN ASTROLOGICAL SYMBOL QUINTILE" -> 11253
      [] name = "RUSSIAN ASTROLOGICAL SYMBOL BINOVILE" -> 11254
      [] name = "RUSSIAN ASTROLOGICAL SYMBOL SENTAGON" -> 11255
      [] name = "RUSSIAN ASTROLOGICAL SYMBOL TREDECILE" -> 11256
      [] name = "EQUALS SIGN WITH INFINITY BELOW" -> 11257
      [] name = "UNITED SYMBOL" -> 11258
      [] name = "SEPARATED SYMBOL" -> 11259
      [] name = "DOUBLED SYMBOL" -> 11260
      [] name = "PASSED SYMBOL" -> 11261
      [] name = "REVERSED RIGHT ANGLE" -> 11262
      [] name = "HELLSCHREIBER PAUSE SYMBOL" -> 11263
      [] name = "GLAGOLITIC CAPITAL LETTER AZU" -> 11264
      [] name = "GLAGOLITIC CAPITAL LETTER BUKY" -> 11265
      [] name = "GLAGOLITIC CAPITAL LETTER VEDE" -> 11266
      [] name = "GLAGOLITIC CAPITAL LETTER GLAGOLI" -> 11267
      [] name = "GLAGOLITIC CAPITAL LETTER DOBRO" -> 11268
      [] name = "GLAGOLITIC CAPITAL LETTER YESTU" -> 11269
      [] name = "GLAGOLITIC CAPITAL LETTER ZHIVETE" -> 11270
      [] name = "GLAGOLITIC CAPITAL LETTER DZELO" -> 11271
      [] name = "GLAGOLITIC CAPITAL LETTER ZEMLJA" -> 11272
      [] name = "GLAGOLITIC CAPITAL LETTER IZHE" -> 11273
      [] name = "GLAGOLITIC CAPITAL LETTER INITIAL IZHE" -> 11274
      [] name = "GLAGOLITIC CAPITAL LETTER I" -> 11275
      [] name = "GLAGOLITIC CAPITAL LETTER DJERVI" -> 11276
      [] name = "GLAGOLITIC CAPITAL LETTER KAKO" -> 11277
      [] name = "GLAGOLITIC CAPITAL LETTER LJUDIJE" -> 11278
      [] name = "GLAGOLITIC CAPITAL LETTER MYSLITE" -> 11279
      [] name = "GLAGOLITIC CAPITAL LETTER NASHI" -> 11280
      [] name = "GLAGOLITIC CAPITAL LETTER ONU" -> 11281
      [] name = "GLAGOLITIC CAPITAL LETTER POKOJI" -> 11282
      [] name = "GLAGOLITIC CAPITAL LETTER RITSI" -> 11283
      [] name = "GLAGOLITIC CAPITAL LETTER SLOVO" -> 11284
      [] name = "GLAGOLITIC CAPITAL LETTER TVRIDO" -> 11285
      [] name = "GLAGOLITIC CAPITAL LETTER UKU" -> 11286
      [] name = "GLAGOLITIC CAPITAL LETTER FRITU" -> 11287
      [] name = "GLAGOLITIC CAPITAL LETTER HERU" -> 11288
      [] name = "GLAGOLITIC CAPITAL LETTER OTU" -> 11289
      [] name = "GLAGOLITIC CAPITAL LETTER PE" -> 11290
      [] name = "GLAGOLITIC CAPITAL LETTER SHTA" -> 11291
      [] name = "GLAGOLITIC CAPITAL LETTER TSI" -> 11292
      [] name = "GLAGOLITIC CAPITAL LETTER CHRIVI" -> 11293
      [] name = "GLAGOLITIC CAPITAL LETTER SHA" -> 11294
      [] name = "GLAGOLITIC CAPITAL LETTER YERU" -> 11295
      [] name = "GLAGOLITIC CAPITAL LETTER YERI" -> 11296
      [] name = "GLAGOLITIC CAPITAL LETTER YATI" -> 11297
      [] name = "GLAGOLITIC CAPITAL LETTER SPIDERY HA" -> 11298
      [] name = "GLAGOLITIC CAPITAL LETTER YU" -> 11299
      [] name = "GLAGOLITIC CAPITAL LETTER SMALL YUS" -> 11300
      [] name = "GLAGOLITIC CAPITAL LETTER SMALL YUS WITH TAIL" -> 11301
      [] name = "GLAGOLITIC CAPITAL LETTER YO" -> 11302
      [] name = "GLAGOLITIC CAPITAL LETTER IOTATED SMALL YUS" -> 11303
      [] name = "GLAGOLITIC CAPITAL LETTER BIG YUS" -> 11304
      [] name = "GLAGOLITIC CAPITAL LETTER IOTATED BIG YUS" -> 11305
      [] name = "GLAGOLITIC CAPITAL LETTER FITA" -> 11306
      [] name = "GLAGOLITIC CAPITAL LETTER IZHITSA" -> 11307
      [] name = "GLAGOLITIC CAPITAL LETTER SHTAPIC" -> 11308
      [] name = "GLAGOLITIC CAPITAL LETTER TROKUTASTI A" -> 11309
      [] name = "GLAGOLITIC CAPITAL LETTER LATINATE MYSLITE" -> 11310
      [] name = "GLAGOLITIC CAPITAL LETTER CAUDATE CHRIVI" -> 11311
      [] name = "GLAGOLITIC SMALL LETTER AZU" -> 11312
      [] name = "GLAGOLITIC SMALL LETTER BUKY" -> 11313
      [] name = "GLAGOLITIC SMALL LETTER VEDE" -> 11314
      [] name = "GLAGOLITIC SMALL LETTER GLAGOLI" -> 11315
      [] name = "GLAGOLITIC SMALL LETTER DOBRO" -> 11316
      [] name = "GLAGOLITIC SMALL LETTER YESTU" -> 11317
      [] name = "GLAGOLITIC SMALL LETTER ZHIVETE" -> 11318
      [] name = "GLAGOLITIC SMALL LETTER DZELO" -> 11319
      [] name = "GLAGOLITIC SMALL LETTER ZEMLJA" -> 11320
      [] name = "GLAGOLITIC SMALL LETTER IZHE" -> 11321
      [] name = "GLAGOLITIC SMALL LETTER INITIAL IZHE" -> 11322
      [] name = "GLAGOLITIC SMALL LETTER I" -> 11323
      [] name = "GLAGOLITIC SMALL LETTER DJERVI" -> 11324
      [] name = "GLAGOLITIC SMALL LETTER KAKO" -> 11325
      [] name = "GLAGOLITIC SMALL LETTER LJUDIJE" -> 11326
      [] name = "GLAGOLITIC SMALL LETTER MYSLITE" -> 11327
      [] name = "GLAGOLITIC SMALL LETTER NASHI" -> 11328
      [] name = "GLAGOLITIC SMALL LETTER ONU" -> 11329
      [] name = "GLAGOLITIC SMALL LETTER POKOJI" -> 11330
      [] name = "GLAGOLITIC SMALL LETTER RITSI" -> 11331
      [] name = "GLAGOLITIC SMALL LETTER SLOVO" -> 11332
      [] name = "GLAGOLITIC SMALL LETTER TVRIDO" -> 11333
      [] name = "GLAGOLITIC SMALL LETTER UKU" -> 11334
      [] name = "GLAGOLITIC SMALL LETTER FRITU" -> 11335
      [] name = "GLAGOLITIC SMALL LETTER HERU" -> 11336
      [] name = "GLAGOLITIC SMALL LETTER OTU" -> 11337
      [] name = "GLAGOLITIC SMALL LETTER PE" -> 11338
      [] name = "GLAGOLITIC SMALL LETTER SHTA" -> 11339
      [] name = "GLAGOLITIC SMALL LETTER TSI" -> 11340
      [] name = "GLAGOLITIC SMALL LETTER CHRIVI" -> 11341
      [] name = "GLAGOLITIC SMALL LETTER SHA" -> 11342
      [] name = "GLAGOLITIC SMALL LETTER YERU" -> 11343
      [] name = "GLAGOLITIC SMALL LETTER YERI" -> 11344
      [] name = "GLAGOLITIC SMALL LETTER YATI" -> 11345
      [] name = "GLAGOLITIC SMALL LETTER SPIDERY HA" -> 11346
      [] name = "GLAGOLITIC SMALL LETTER YU" -> 11347
      [] name = "GLAGOLITIC SMALL LETTER SMALL YUS" -> 11348
      [] name = "GLAGOLITIC SMALL LETTER SMALL YUS WITH TAIL" -> 11349
      [] name = "GLAGOLITIC SMALL LETTER YO" -> 11350
      [] name = "GLAGOLITIC SMALL LETTER IOTATED SMALL YUS" -> 11351
      [] name = "GLAGOLITIC SMALL LETTER BIG YUS" -> 11352
      [] name = "GLAGOLITIC SMALL LETTER IOTATED BIG YUS" -> 11353
      [] name = "GLAGOLITIC SMALL LETTER FITA" -> 11354
      [] name = "GLAGOLITIC SMALL LETTER IZHITSA" -> 11355
      [] name = "GLAGOLITIC SMALL LETTER SHTAPIC" -> 11356
      [] name = "GLAGOLITIC SMALL LETTER TROKUTASTI A" -> 11357
      [] name = "GLAGOLITIC SMALL LETTER LATINATE MYSLITE" -> 11358
      [] name = "GLAGOLITIC SMALL LETTER CAUDATE CHRIVI" -> 11359
      [] name = "LATIN CAPITAL LETTER L WITH DOUBLE BAR" -> 11360
      [] name = "LATIN SMALL LETTER L WITH DOUBLE BAR" -> 11361
      [] name = "LATIN CAPITAL LETTER L WITH MIDDLE TILDE" -> 11362
      [] name = "LATIN CAPITAL LETTER P WITH STROKE" -> 11363
      [] name = "LATIN CAPITAL LETTER R WITH TAIL" -> 11364
      [] name = "LATIN SMALL LETTER A WITH STROKE" -> 11365
      [] name = "LATIN SMALL LETTER T WITH DIAGONAL STROKE" -> 11366
      [] name = "LATIN CAPITAL LETTER H WITH DESCENDER" -> 11367
      [] name = "LATIN SMALL LETTER H WITH DESCENDER" -> 11368
      [] name = "LATIN CAPITAL LETTER K WITH DESCENDER" -> 11369
      [] name = "LATIN SMALL LETTER K WITH DESCENDER" -> 11370
      [] name = "LATIN CAPITAL LETTER Z WITH DESCENDER" -> 11371
      [] name = "LATIN SMALL LETTER Z WITH DESCENDER" -> 11372
      [] name = "LATIN CAPITAL LETTER ALPHA" -> 11373
      [] name = "LATIN CAPITAL LETTER M WITH HOOK" -> 11374
      [] name = "LATIN CAPITAL LETTER TURNED A" -> 11375
      [] name = "LATIN CAPITAL LETTER TURNED ALPHA" -> 11376
      [] name = "LATIN SMALL LETTER V WITH RIGHT HOOK" -> 11377
      [] name = "LATIN CAPITAL LETTER W WITH HOOK" -> 11378
      [] name = "LATIN SMALL LETTER W WITH HOOK" -> 11379
      [] name = "LATIN SMALL LETTER V WITH CURL" -> 11380
      [] name = "LATIN CAPITAL LETTER HALF H" -> 11381
      [] name = "LATIN SMALL LETTER HALF H" -> 11382
      [] name = "LATIN SMALL LETTER TAILLESS PHI" -> 11383
      [] name = "LATIN SMALL LETTER E WITH NOTCH" -> 11384
      [] name = "LATIN SMALL LETTER TURNED R WITH TAIL" -> 11385
      [] name = "LATIN SMALL LETTER O WITH LOW RING INSIDE" -> 11386
      [] name = "LATIN LETTER SMALL CAPITAL TURNED E" -> 11387
      [] name = "LATIN SUBSCRIPT SMALL LETTER J" -> 11388
      [] name = "MODIFIER LETTER CAPITAL V" -> 11389
      [] name = "LATIN CAPITAL LETTER S WITH SWASH TAIL" -> 11390
      [] name = "LATIN CAPITAL LETTER Z WITH SWASH TAIL" -> 11391
      [] name = "COPTIC CAPITAL LETTER ALFA" -> 11392
      [] name = "COPTIC SMALL LETTER ALFA" -> 11393
      [] name = "COPTIC CAPITAL LETTER VIDA" -> 11394
      [] name = "COPTIC SMALL LETTER VIDA" -> 11395
      [] name = "COPTIC CAPITAL LETTER GAMMA" -> 11396
      [] name = "COPTIC SMALL LETTER GAMMA" -> 11397
      [] name = "COPTIC CAPITAL LETTER DALDA" -> 11398
      [] name = "COPTIC SMALL LETTER DALDA" -> 11399
      [] name = "COPTIC CAPITAL LETTER EIE" -> 11400
      [] name = "COPTIC SMALL LETTER EIE" -> 11401
      [] name = "COPTIC CAPITAL LETTER SOU" -> 11402
      [] name = "COPTIC SMALL LETTER SOU" -> 11403
      [] name = "COPTIC CAPITAL LETTER ZATA" -> 11404
      [] name = "COPTIC SMALL LETTER ZATA" -> 11405
      [] name = "COPTIC CAPITAL LETTER HATE" -> 11406
      [] name = "COPTIC SMALL LETTER HATE" -> 11407
      [] name = "COPTIC CAPITAL LETTER THETHE" -> 11408
      [] name = "COPTIC SMALL LETTER THETHE" -> 11409
      [] name = "COPTIC CAPITAL LETTER IAUDA" -> 11410
      [] name = "COPTIC SMALL LETTER IAUDA" -> 11411
      [] name = "COPTIC CAPITAL LETTER KAPA" -> 11412
      [] name = "COPTIC SMALL LETTER KAPA" -> 11413
      [] name = "COPTIC CAPITAL LETTER LAULA" -> 11414
      [] name = "COPTIC SMALL LETTER LAULA" -> 11415
      [] name = "COPTIC CAPITAL LETTER MI" -> 11416
      [] name = "COPTIC SMALL LETTER MI" -> 11417
      [] name = "COPTIC CAPITAL LETTER NI" -> 11418
      [] name = "COPTIC SMALL LETTER NI" -> 11419
      [] name = "COPTIC CAPITAL LETTER KSI" -> 11420
      [] name = "COPTIC SMALL LETTER KSI" -> 11421
      [] name = "COPTIC CAPITAL LETTER O" -> 11422
      [] name = "COPTIC SMALL LETTER O" -> 11423
      [] name = "COPTIC CAPITAL LETTER PI" -> 11424
      [] name = "COPTIC SMALL LETTER PI" -> 11425
      [] name = "COPTIC CAPITAL LETTER RO" -> 11426
      [] name = "COPTIC SMALL LETTER RO" -> 11427
      [] name = "COPTIC CAPITAL LETTER SIMA" -> 11428
      [] name = "COPTIC SMALL LETTER SIMA" -> 11429
      [] name = "COPTIC CAPITAL LETTER TAU" -> 11430
      [] name = "COPTIC SMALL LETTER TAU" -> 11431
      [] name = "COPTIC CAPITAL LETTER UA" -> 11432
      [] name = "COPTIC SMALL LETTER UA" -> 11433
      [] name = "COPTIC CAPITAL LETTER FI" -> 11434
      [] name = "COPTIC SMALL LETTER FI" -> 11435
      [] name = "COPTIC CAPITAL LETTER KHI" -> 11436
      [] name = "COPTIC SMALL LETTER KHI" -> 11437
      [] name = "COPTIC CAPITAL LETTER PSI" -> 11438
      [] name = "COPTIC SMALL LETTER PSI" -> 11439
      [] name = "COPTIC CAPITAL LETTER OOU" -> 11440
      [] name = "COPTIC SMALL LETTER OOU" -> 11441
      [] name = "COPTIC CAPITAL LETTER DIALECT-P ALEF" -> 11442
      [] name = "COPTIC SMALL LETTER DIALECT-P ALEF" -> 11443
      [] name = "COPTIC CAPITAL LETTER OLD COPTIC AIN" -> 11444
      [] name = "COPTIC SMALL LETTER OLD COPTIC AIN" -> 11445
      [] name = "COPTIC CAPITAL LETTER CRYPTOGRAMMIC EIE" -> 11446
      [] name = "COPTIC SMALL LETTER CRYPTOGRAMMIC EIE" -> 11447
      [] name = "COPTIC CAPITAL LETTER DIALECT-P KAPA" -> 11448
      [] name = "COPTIC SMALL LETTER DIALECT-P KAPA" -> 11449
      [] name = "COPTIC CAPITAL LETTER DIALECT-P NI" -> 11450
      [] name = "COPTIC SMALL LETTER DIALECT-P NI" -> 11451
      [] name = "COPTIC CAPITAL LETTER CRYPTOGRAMMIC NI" -> 11452
      [] name = "COPTIC SMALL LETTER CRYPTOGRAMMIC NI" -> 11453
      [] name = "COPTIC CAPITAL LETTER OLD COPTIC OOU" -> 11454
      [] name = "COPTIC SMALL LETTER OLD COPTIC OOU" -> 11455
      [] name = "COPTIC CAPITAL LETTER SAMPI" -> 11456
      [] name = "COPTIC SMALL LETTER SAMPI" -> 11457
      [] name = "COPTIC CAPITAL LETTER CROSSED SHEI" -> 11458
      [] name = "COPTIC SMALL LETTER CROSSED SHEI" -> 11459
      [] name = "COPTIC CAPITAL LETTER OLD COPTIC SHEI" -> 11460
      [] name = "COPTIC SMALL LETTER OLD COPTIC SHEI" -> 11461
      [] name = "COPTIC CAPITAL LETTER OLD COPTIC ESH" -> 11462
      [] name = "COPTIC SMALL LETTER OLD COPTIC ESH" -> 11463
      [] name = "COPTIC CAPITAL LETTER AKHMIMIC KHEI" -> 11464
      [] name = "COPTIC SMALL LETTER AKHMIMIC KHEI" -> 11465
      [] name = "COPTIC CAPITAL LETTER DIALECT-P HORI" -> 11466
      [] name = "COPTIC SMALL LETTER DIALECT-P HORI" -> 11467
      [] name = "COPTIC CAPITAL LETTER OLD COPTIC HORI" -> 11468
      [] name = "COPTIC SMALL LETTER OLD COPTIC HORI" -> 11469
      [] name = "COPTIC CAPITAL LETTER OLD COPTIC HA" -> 11470
      [] name = "COPTIC SMALL LETTER OLD COPTIC HA" -> 11471
      [] name = "COPTIC CAPITAL LETTER L-SHAPED HA" -> 11472
      [] name = "COPTIC SMALL LETTER L-SHAPED HA" -> 11473
      [] name = "COPTIC CAPITAL LETTER OLD COPTIC HEI" -> 11474
      [] name = "COPTIC SMALL LETTER OLD COPTIC HEI" -> 11475
      [] name = "COPTIC CAPITAL LETTER OLD COPTIC HAT" -> 11476
      [] name = "COPTIC SMALL LETTER OLD COPTIC HAT" -> 11477
      [] name = "COPTIC CAPITAL LETTER OLD COPTIC GANGIA" -> 11478
      [] name = "COPTIC SMALL LETTER OLD COPTIC GANGIA" -> 11479
      [] name = "COPTIC CAPITAL LETTER OLD COPTIC DJA" -> 11480
      [] name = "COPTIC SMALL LETTER OLD COPTIC DJA" -> 11481
      [] name = "COPTIC CAPITAL LETTER OLD COPTIC SHIMA" -> 11482
      [] name = "COPTIC SMALL LETTER OLD COPTIC SHIMA" -> 11483
      [] name = "COPTIC CAPITAL LETTER OLD NUBIAN SHIMA" -> 11484
      [] name = "COPTIC SMALL LETTER OLD NUBIAN SHIMA" -> 11485
      [] name = "COPTIC CAPITAL LETTER OLD NUBIAN NGI" -> 11486
      [] name = "COPTIC SMALL LETTER OLD NUBIAN NGI" -> 11487
      [] name = "COPTIC CAPITAL LETTER OLD NUBIAN NYI" -> 11488
      [] name = "COPTIC SMALL LETTER OLD NUBIAN NYI" -> 11489
      [] name = "COPTIC CAPITAL LETTER OLD NUBIAN WAU" -> 11490
      [] name = "COPTIC SMALL LETTER OLD NUBIAN WAU" -> 11491
      [] name = "COPTIC SYMBOL KAI" -> 11492
      [] name = "COPTIC SYMBOL MI RO" -> 11493
      [] name = "COPTIC SYMBOL PI RO" -> 11494
      [] name = "COPTIC SYMBOL STAUROS" -> 11495
      [] name = "COPTIC SYMBOL TAU RO" -> 11496
      [] name = "COPTIC SYMBOL KHI RO" -> 11497
      [] name = "COPTIC SYMBOL SHIMA SIMA" -> 11498
      [] name = "COPTIC CAPITAL LETTER CRYPTOGRAMMIC SHEI" -> 11499
      [] name = "COPTIC SMALL LETTER CRYPTOGRAMMIC SHEI" -> 11500
      [] name = "COPTIC CAPITAL LETTER CRYPTOGRAMMIC GANGIA" -> 11501
      [] name = "COPTIC SMALL LETTER CRYPTOGRAMMIC GANGIA" -> 11502
      [] name = "COPTIC COMBINING NI ABOVE" -> 11503
      [] name = "COPTIC COMBINING SPIRITUS ASPER" -> 11504
      [] name = "COPTIC COMBINING SPIRITUS LENIS" -> 11505
      [] name = "COPTIC CAPITAL LETTER BOHAIRIC KHEI" -> 11506
      [] name = "COPTIC SMALL LETTER BOHAIRIC KHEI" -> 11507
      [] name = "COPTIC OLD NUBIAN FULL STOP" -> 11513
      [] name = "COPTIC OLD NUBIAN DIRECT QUESTION MARK" -> 11514
      [] name = "COPTIC OLD NUBIAN INDIRECT QUESTION MARK" -> 11515
      [] name = "COPTIC OLD NUBIAN VERSE DIVIDER" -> 11516
      [] name = "COPTIC FRACTION ONE HALF" -> 11517
      [] name = "COPTIC FULL STOP" -> 11518
      [] name = "COPTIC MORPHOLOGICAL DIVIDER" -> 11519
      [] name = "GEORGIAN SMALL LETTER AN" -> 11520
      [] name = "GEORGIAN SMALL LETTER BAN" -> 11521
      [] name = "GEORGIAN SMALL LETTER GAN" -> 11522
      [] name = "GEORGIAN SMALL LETTER DON" -> 11523
      [] name = "GEORGIAN SMALL LETTER EN" -> 11524
      [] name = "GEORGIAN SMALL LETTER VIN" -> 11525
      [] name = "GEORGIAN SMALL LETTER ZEN" -> 11526
      [] name = "GEORGIAN SMALL LETTER TAN" -> 11527
      [] name = "GEORGIAN SMALL LETTER IN" -> 11528
      [] name = "GEORGIAN SMALL LETTER KAN" -> 11529
      [] name = "GEORGIAN SMALL LETTER LAS" -> 11530
      [] name = "GEORGIAN SMALL LETTER MAN" -> 11531
      [] name = "GEORGIAN SMALL LETTER NAR" -> 11532
      [] name = "GEORGIAN SMALL LETTER ON" -> 11533
      [] name = "GEORGIAN SMALL LETTER PAR" -> 11534
      [] name = "GEORGIAN SMALL LETTER ZHAR" -> 11535
      [] name = "GEORGIAN SMALL LETTER RAE" -> 11536
      [] name = "GEORGIAN SMALL LETTER SAN" -> 11537
      [] name = "GEORGIAN SMALL LETTER TAR" -> 11538
      [] name = "GEORGIAN SMALL LETTER UN" -> 11539
      [] name = "GEORGIAN SMALL LETTER PHAR" -> 11540
      [] name = "GEORGIAN SMALL LETTER KHAR" -> 11541
      [] name = "GEORGIAN SMALL LETTER GHAN" -> 11542
      [] name = "GEORGIAN SMALL LETTER QAR" -> 11543
      [] name = "GEORGIAN SMALL LETTER SHIN" -> 11544
      [] name = "GEORGIAN SMALL LETTER CHIN" -> 11545
      [] name = "GEORGIAN SMALL LETTER CAN" -> 11546
      [] name = "GEORGIAN SMALL LETTER JIL" -> 11547
      [] name = "GEORGIAN SMALL LETTER CIL" -> 11548
      [] name = "GEORGIAN SMALL LETTER CHAR" -> 11549
      [] name = "GEORGIAN SMALL LETTER XAN" -> 11550
      [] name = "GEORGIAN SMALL LETTER JHAN" -> 11551
      [] name = "GEORGIAN SMALL LETTER HAE" -> 11552
      [] name = "GEORGIAN SMALL LETTER HE" -> 11553
      [] name = "GEORGIAN SMALL LETTER HIE" -> 11554
      [] name = "GEORGIAN SMALL LETTER WE" -> 11555
      [] name = "GEORGIAN SMALL LETTER HAR" -> 11556
      [] name = "GEORGIAN SMALL LETTER HOE" -> 11557
      [] name = "GEORGIAN SMALL LETTER YN" -> 11559
      [] name = "GEORGIAN SMALL LETTER AEN" -> 11565
      [] name = "TIFINAGH LETTER YA" -> 11568
      [] name = "TIFINAGH LETTER YAB" -> 11569
      [] name = "TIFINAGH LETTER YABH" -> 11570
      [] name = "TIFINAGH LETTER YAG" -> 11571
      [] name = "TIFINAGH LETTER YAGHH" -> 11572
      [] name = "TIFINAGH LETTER BERBER ACADEMY YAJ" -> 11573
      [] name = "TIFINAGH LETTER YAJ" -> 11574
      [] name = "TIFINAGH LETTER YAD" -> 11575
      [] name = "TIFINAGH LETTER YADH" -> 11576
      [] name = "TIFINAGH LETTER YADD" -> 11577
      [] name = "TIFINAGH LETTER YADDH" -> 11578
      [] name = "TIFINAGH LETTER YEY" -> 11579
      [] name = "TIFINAGH LETTER YAF" -> 11580
      [] name = "TIFINAGH LETTER YAK" -> 11581
      [] name = "TIFINAGH LETTER TUAREG YAK" -> 11582
      [] name = "TIFINAGH LETTER YAKHH" -> 11583
      [] name = "TIFINAGH LETTER YAH" -> 11584
      [] name = "TIFINAGH LETTER BERBER ACADEMY YAH" -> 11585
      [] name = "TIFINAGH LETTER TUAREG YAH" -> 11586
      [] name = "TIFINAGH LETTER YAHH" -> 11587
      [] name = "TIFINAGH LETTER YAA" -> 11588
      [] name = "TIFINAGH LETTER YAKH" -> 11589
      [] name = "TIFINAGH LETTER TUAREG YAKH" -> 11590
      [] name = "TIFINAGH LETTER YAQ" -> 11591
      [] name = "TIFINAGH LETTER TUAREG YAQ" -> 11592
      [] name = "TIFINAGH LETTER YI" -> 11593
      [] name = "TIFINAGH LETTER YAZH" -> 11594
      [] name = "TIFINAGH LETTER AHAGGAR YAZH" -> 11595
      [] name = "TIFINAGH LETTER TUAREG YAZH" -> 11596
      [] name = "TIFINAGH LETTER YAL" -> 11597
      [] name = "TIFINAGH LETTER YAM" -> 11598
      [] name = "TIFINAGH LETTER YAN" -> 11599
      [] name = "TIFINAGH LETTER TUAREG YAGN" -> 11600
      [] name = "TIFINAGH LETTER TUAREG YANG" -> 11601
      [] name = "TIFINAGH LETTER YAP" -> 11602
      [] name = "TIFINAGH LETTER YU" -> 11603
      [] name = "TIFINAGH LETTER YAR" -> 11604
      [] name = "TIFINAGH LETTER YARR" -> 11605
      [] name = "TIFINAGH LETTER YAGH" -> 11606
      [] name = "TIFINAGH LETTER TUAREG YAGH" -> 11607
      [] name = "TIFINAGH LETTER AYER YAGH" -> 11608
      [] name = "TIFINAGH LETTER YAS" -> 11609
      [] name = "TIFINAGH LETTER YASS" -> 11610
      [] name = "TIFINAGH LETTER YASH" -> 11611
      [] name = "TIFINAGH LETTER YAT" -> 11612
      [] name = "TIFINAGH LETTER YATH" -> 11613
      [] name = "TIFINAGH LETTER YACH" -> 11614
      [] name = "TIFINAGH LETTER YATT" -> 11615
      [] name = "TIFINAGH LETTER YAV" -> 11616
      [] name = "TIFINAGH LETTER YAW" -> 11617
      [] name = "TIFINAGH LETTER YAY" -> 11618
      [] name = "TIFINAGH LETTER YAZ" -> 11619
      [] name = "TIFINAGH LETTER TAWELLEMET YAZ" -> 11620
      [] name = "TIFINAGH LETTER YAZZ" -> 11621
      [] name = "TIFINAGH LETTER YE" -> 11622
      [] name = "TIFINAGH LETTER YO" -> 11623
      [] name = "TIFINAGH MODIFIER LETTER LABIALIZATION MARK" -> 11631
      [] name = "TIFINAGH SEPARATOR MARK" -> 11632
      [] name = "TIFINAGH CONSONANT JOINER" -> 11647
      [] name = "ETHIOPIC SYLLABLE LOA" -> 11648
      [] name = "ETHIOPIC SYLLABLE MOA" -> 11649
      [] name = "ETHIOPIC SYLLABLE ROA" -> 11650
      [] name = "ETHIOPIC SYLLABLE SOA" -> 11651
      [] name = "ETHIOPIC SYLLABLE SHOA" -> 11652
      [] name = "ETHIOPIC SYLLABLE BOA" -> 11653
      [] name = "ETHIOPIC SYLLABLE TOA" -> 11654
      [] name = "ETHIOPIC SYLLABLE COA" -> 11655
      [] name = "ETHIOPIC SYLLABLE NOA" -> 11656
      [] name = "ETHIOPIC SYLLABLE NYOA" -> 11657
      [] name = "ETHIOPIC SYLLABLE GLOTTAL OA" -> 11658
      [] name = "ETHIOPIC SYLLABLE ZOA" -> 11659
      [] name = "ETHIOPIC SYLLABLE DOA" -> 11660
      [] name = "ETHIOPIC SYLLABLE DDOA" -> 11661
      [] name = "ETHIOPIC SYLLABLE JOA" -> 11662
      [] name = "ETHIOPIC SYLLABLE THOA" -> 11663
      [] name = "ETHIOPIC SYLLABLE CHOA" -> 11664
      [] name = "ETHIOPIC SYLLABLE PHOA" -> 11665
      [] name = "ETHIOPIC SYLLABLE POA" -> 11666
      [] name = "ETHIOPIC SYLLABLE GGWA" -> 11667
      [] name = "ETHIOPIC SYLLABLE GGWI" -> 11668
      [] name = "ETHIOPIC SYLLABLE GGWEE" -> 11669
      [] name = "ETHIOPIC SYLLABLE GGWE" -> 11670
      [] name = "ETHIOPIC SYLLABLE SSA" -> 11680
      [] name = "ETHIOPIC SYLLABLE SSU" -> 11681
      [] name = "ETHIOPIC SYLLABLE SSI" -> 11682
      [] name = "ETHIOPIC SYLLABLE SSAA" -> 11683
      [] name = "ETHIOPIC SYLLABLE SSEE" -> 11684
      [] name = "ETHIOPIC SYLLABLE SSE" -> 11685
      [] name = "ETHIOPIC SYLLABLE SSO" -> 11686
      [] name = "ETHIOPIC SYLLABLE CCA" -> 11688
      [] name = "ETHIOPIC SYLLABLE CCU" -> 11689
      [] name = "ETHIOPIC SYLLABLE CCI" -> 11690
      [] name = "ETHIOPIC SYLLABLE CCAA" -> 11691
      [] name = "ETHIOPIC SYLLABLE CCEE" -> 11692
      [] name = "ETHIOPIC SYLLABLE CCE" -> 11693
      [] name = "ETHIOPIC SYLLABLE CCO" -> 11694
      [] name = "ETHIOPIC SYLLABLE ZZA" -> 11696
      [] name = "ETHIOPIC SYLLABLE ZZU" -> 11697
      [] name = "ETHIOPIC SYLLABLE ZZI" -> 11698
      [] name = "ETHIOPIC SYLLABLE ZZAA" -> 11699
      [] name = "ETHIOPIC SYLLABLE ZZEE" -> 11700
      [] name = "ETHIOPIC SYLLABLE ZZE" -> 11701
      [] name = "ETHIOPIC SYLLABLE ZZO" -> 11702
      [] name = "ETHIOPIC SYLLABLE CCHA" -> 11704
      [] name = "ETHIOPIC SYLLABLE CCHU" -> 11705
      [] name = "ETHIOPIC SYLLABLE CCHI" -> 11706
      [] name = "ETHIOPIC SYLLABLE CCHAA" -> 11707
      [] name = "ETHIOPIC SYLLABLE CCHEE" -> 11708
      [] name = "ETHIOPIC SYLLABLE CCHE" -> 11709
      [] name = "ETHIOPIC SYLLABLE CCHO" -> 11710
      [] name = "ETHIOPIC SYLLABLE QYA" -> 11712
      [] name = "ETHIOPIC SYLLABLE QYU" -> 11713
      [] name = "ETHIOPIC SYLLABLE QYI" -> 11714
      [] name = "ETHIOPIC SYLLABLE QYAA" -> 11715
      [] name = "ETHIOPIC SYLLABLE QYEE" -> 11716
      [] name = "ETHIOPIC SYLLABLE QYE" -> 11717
      [] name = "ETHIOPIC SYLLABLE QYO" -> 11718
      [] name = "ETHIOPIC SYLLABLE KYA" -> 11720
      [] name = "ETHIOPIC SYLLABLE KYU" -> 11721
      [] name = "ETHIOPIC SYLLABLE KYI" -> 11722
      [] name = "ETHIOPIC SYLLABLE KYAA" -> 11723
      [] name = "ETHIOPIC SYLLABLE KYEE" -> 11724
      [] name = "ETHIOPIC SYLLABLE KYE" -> 11725
      [] name = "ETHIOPIC SYLLABLE KYO" -> 11726
      [] name = "ETHIOPIC SYLLABLE XYA" -> 11728
      [] name = "ETHIOPIC SYLLABLE XYU" -> 11729
      [] name = "ETHIOPIC SYLLABLE XYI" -> 11730
      [] name = "ETHIOPIC SYLLABLE XYAA" -> 11731
      [] name = "ETHIOPIC SYLLABLE XYEE" -> 11732
      [] name = "ETHIOPIC SYLLABLE XYE" -> 11733
      [] name = "ETHIOPIC SYLLABLE XYO" -> 11734
      [] name = "ETHIOPIC SYLLABLE GYA" -> 11736
      [] name = "ETHIOPIC SYLLABLE GYU" -> 11737
      [] name = "ETHIOPIC SYLLABLE GYI" -> 11738
      [] name = "ETHIOPIC SYLLABLE GYAA" -> 11739
      [] name = "ETHIOPIC SYLLABLE GYEE" -> 11740
      [] name = "ETHIOPIC SYLLABLE GYE" -> 11741
      [] name = "ETHIOPIC SYLLABLE GYO" -> 11742
      [] name = "COMBINING CYRILLIC LETTER BE" -> 11744
      [] name = "COMBINING CYRILLIC LETTER VE" -> 11745
      [] name = "COMBINING CYRILLIC LETTER GHE" -> 11746
      [] name = "COMBINING CYRILLIC LETTER DE" -> 11747
      [] name = "COMBINING CYRILLIC LETTER ZHE" -> 11748
      [] name = "COMBINING CYRILLIC LETTER ZE" -> 11749
      [] name = "COMBINING CYRILLIC LETTER KA" -> 11750
      [] name = "COMBINING CYRILLIC LETTER EL" -> 11751
      [] name = "COMBINING CYRILLIC LETTER EM" -> 11752
      [] name = "COMBINING CYRILLIC LETTER EN" -> 11753
      [] name = "COMBINING CYRILLIC LETTER O" -> 11754
      [] name = "COMBINING CYRILLIC LETTER PE" -> 11755
      [] name = "COMBINING CYRILLIC LETTER ER" -> 11756
      [] name = "COMBINING CYRILLIC LETTER ES" -> 11757
      [] name = "COMBINING CYRILLIC LETTER TE" -> 11758
      [] name = "COMBINING CYRILLIC LETTER HA" -> 11759
      [] name = "COMBINING CYRILLIC LETTER TSE" -> 11760
      [] name = "COMBINING CYRILLIC LETTER CHE" -> 11761
      [] name = "COMBINING CYRILLIC LETTER SHA" -> 11762
      [] name = "COMBINING CYRILLIC LETTER SHCHA" -> 11763
      [] name = "COMBINING CYRILLIC LETTER FITA" -> 11764
      [] name = "COMBINING CYRILLIC LETTER ES-TE" -> 11765
      [] name = "COMBINING CYRILLIC LETTER A" -> 11766
      [] name = "COMBINING CYRILLIC LETTER IE" -> 11767
      [] name = "COMBINING CYRILLIC LETTER DJERV" -> 11768
      [] name = "COMBINING CYRILLIC LETTER MONOGRAPH UK" -> 11769
      [] name = "COMBINING CYRILLIC LETTER YAT" -> 11770
      [] name = "COMBINING CYRILLIC LETTER YU" -> 11771
      [] name = "COMBINING CYRILLIC LETTER IOTIFIED A" -> 11772
      [] name = "COMBINING CYRILLIC LETTER LITTLE YUS" -> 11773
      [] name = "COMBINING CYRILLIC LETTER BIG YUS" -> 11774
      [] name = "COMBINING CYRILLIC LETTER IOTIFIED BIG YUS" -> 11775
      [] name = "RIGHT ANGLE SUBSTITUTION MARKER" -> 11776
      [] name = "RIGHT ANGLE DOTTED SUBSTITUTION MARKER" -> 11777
      [] name = "LEFT SUBSTITUTION BRACKET" -> 11778
      [] name = "RIGHT SUBSTITUTION BRACKET" -> 11779
      [] name = "LEFT DOTTED SUBSTITUTION BRACKET" -> 11780
      [] name = "RIGHT DOTTED SUBSTITUTION BRACKET" -> 11781
      [] name = "RAISED INTERPOLATION MARKER" -> 11782
      [] name = "RAISED DOTTED INTERPOLATION MARKER" -> 11783
      [] name = "DOTTED TRANSPOSITION MARKER" -> 11784
      [] name = "LEFT TRANSPOSITION BRACKET" -> 11785
      [] name = "RIGHT TRANSPOSITION BRACKET" -> 11786
      [] name = "RAISED SQUARE" -> 11787
      [] name = "LEFT RAISED OMISSION BRACKET" -> 11788
      [] name = "RIGHT RAISED OMISSION BRACKET" -> 11789
      [] name = "EDITORIAL CORONIS" -> 11790
      [] name = "PARAGRAPHOS" -> 11791
      [] name = "FORKED PARAGRAPHOS" -> 11792
      [] name = "REVERSED FORKED PARAGRAPHOS" -> 11793
      [] name = "HYPODIASTOLE" -> 11794
      [] name = "DOTTED OBELOS" -> 11795
      [] name = "DOWNWARDS ANCORA" -> 11796
      [] name = "UPWARDS ANCORA" -> 11797
      [] name = "DOTTED RIGHT-POINTING ANGLE" -> 11798
      [] name = "DOUBLE OBLIQUE HYPHEN" -> 11799
      [] name = "INVERTED INTERROBANG" -> 11800
      [] name = "PALM BRANCH" -> 11801
      [] name = "HYPHEN WITH DIAERESIS" -> 11802
      [] name = "TILDE WITH RING ABOVE" -> 11803
      [] name = "LEFT LOW PARAPHRASE BRACKET" -> 11804
      [] name = "RIGHT LOW PARAPHRASE BRACKET" -> 11805
      [] name = "TILDE WITH DOT ABOVE" -> 11806
      [] name = "TILDE WITH DOT BELOW" -> 11807
      [] name = "LEFT VERTICAL BAR WITH QUILL" -> 11808
      [] name = "RIGHT VERTICAL BAR WITH QUILL" -> 11809
      [] name = "TOP LEFT HALF BRACKET" -> 11810
      [] name = "TOP RIGHT HALF BRACKET" -> 11811
      [] name = "BOTTOM LEFT HALF BRACKET" -> 11812
      [] name = "BOTTOM RIGHT HALF BRACKET" -> 11813
      [] name = "LEFT SIDEWAYS U BRACKET" -> 11814
      [] name = "RIGHT SIDEWAYS U BRACKET" -> 11815
      [] name = "LEFT DOUBLE PARENTHESIS" -> 11816
      [] name = "RIGHT DOUBLE PARENTHESIS" -> 11817
      [] name = "TWO DOTS OVER ONE DOT PUNCTUATION" -> 11818
      [] name = "ONE DOT OVER TWO DOTS PUNCTUATION" -> 11819
      [] name = "SQUARED FOUR DOT PUNCTUATION" -> 11820
      [] name = "FIVE DOT MARK" -> 11821
      [] name = "REVERSED QUESTION MARK" -> 11822
      [] name = "VERTICAL TILDE" -> 11823
      [] name = "RING POINT" -> 11824
      [] name = "WORD SEPARATOR MIDDLE DOT" -> 11825
      [] name = "TURNED COMMA" -> 11826
      [] name = "RAISED DOT" -> 11827
      [] name = "RAISED COMMA" -> 11828
      [] name = "TURNED SEMICOLON" -> 11829
      [] name = "DAGGER WITH LEFT GUARD" -> 11830
      [] name = "DAGGER WITH RIGHT GUARD" -> 11831
      [] name = "TURNED DAGGER" -> 11832
      [] name = "TOP HALF SECTION SIGN" -> 11833
      [] name = "TWO-EM DASH" -> 11834
      [] name = "THREE-EM DASH" -> 11835
      [] name = "STENOGRAPHIC FULL STOP" -> 11836
      [] name = "VERTICAL SIX DOTS" -> 11837
      [] name = "WIGGLY VERTICAL LINE" -> 11838
      [] name = "CAPITULUM" -> 11839
      [] name = "DOUBLE HYPHEN" -> 11840
      [] name = "REVERSED COMMA" -> 11841
      [] name = "DOUBLE LOW-REVERSED-9 QUOTATION MARK" -> 11842
      [] name = "DASH WITH LEFT UPTURN" -> 11843
      [] name = "DOUBLE SUSPENSION MARK" -> 11844
      [] name = "INVERTED LOW KAVYKA" -> 11845
      [] name = "INVERTED LOW KAVYKA WITH KAVYKA ABOVE" -> 11846
      [] name = "LOW KAVYKA" -> 11847
      [] name = "LOW KAVYKA WITH DOT" -> 11848
      [] name = "DOUBLE STACKED COMMA" -> 11849
      [] name = "DOTTED SOLIDUS" -> 11850
      [] name = "TRIPLE DAGGER" -> 11851
      [] name = "MEDIEVAL COMMA" -> 11852
      [] name = "PARAGRAPHUS MARK" -> 11853
      [] name = "PUNCTUS ELEVATUS MARK" -> 11854
      [] name = "CORNISH VERSE DIVIDER" -> 11855
      [] name = "CROSS PATTY WITH RIGHT CROSSBAR" -> 11856
      [] name = "CROSS PATTY WITH LEFT CROSSBAR" -> 11857
      [] name = "TIRONIAN SIGN CAPITAL ET" -> 11858
      [] name = "MEDIEVAL EXCLAMATION MARK" -> 11859
      [] name = "MEDIEVAL QUESTION MARK" -> 11860
      [] name = "LEFT SQUARE BRACKET WITH STROKE" -> 11861
      [] name = "RIGHT SQUARE BRACKET WITH STROKE" -> 11862
      [] name = "LEFT SQUARE BRACKET WITH DOUBLE STROKE" -> 11863
      [] name = "RIGHT SQUARE BRACKET WITH DOUBLE STROKE" -> 11864
      [] name = "TOP HALF LEFT PARENTHESIS" -> 11865
      [] name = "TOP HALF RIGHT PARENTHESIS" -> 11866
      [] name = "BOTTOM HALF LEFT PARENTHESIS" -> 11867
      [] name = "BOTTOM HALF RIGHT PARENTHESIS" -> 11868
      [] name = "OBLIQUE HYPHEN" -> 11869
      [] name = "CJK RADICAL REPEAT" -> 11904
      [] name = "CJK RADICAL CLIFF" -> 11905
      [] name = "CJK RADICAL SECOND ONE" -> 11906
      [] name = "CJK RADICAL SECOND TWO" -> 11907
      [] name = "CJK RADICAL SECOND THREE" -> 11908
      [] name = "CJK RADICAL PERSON" -> 11909
      [] name = "CJK RADICAL BOX" -> 11910
      [] name = "CJK RADICAL TABLE" -> 11911
      [] name = "CJK RADICAL KNIFE ONE" -> 11912
      [] name = "CJK RADICAL KNIFE TWO" -> 11913
      [] name = "CJK RADICAL DIVINATION" -> 11914
      [] name = "CJK RADICAL SEAL" -> 11915
      [] name = "CJK RADICAL SMALL ONE" -> 11916
      [] name = "CJK RADICAL SMALL TWO" -> 11917
      [] name = "CJK RADICAL LAME ONE" -> 11918
      [] name = "CJK RADICAL LAME TWO" -> 11919
      [] name = "CJK RADICAL LAME THREE" -> 11920
      [] name = "CJK RADICAL LAME FOUR" -> 11921
      [] name = "CJK RADICAL SNAKE" -> 11922
      [] name = "CJK RADICAL THREAD" -> 11923
      [] name = "CJK RADICAL SNOUT ONE" -> 11924
      [] name = "CJK RADICAL SNOUT TWO" -> 11925
      [] name = "CJK RADICAL HEART ONE" -> 11926
      [] name = "CJK RADICAL HEART TWO" -> 11927
      [] name = "CJK RADICAL HAND" -> 11928
      [] name = "CJK RADICAL RAP" -> 11929
      [] name = "CJK RADICAL CHOKE" -> 11931
      [] name = "CJK RADICAL SUN" -> 11932
      [] name = "CJK RADICAL MOON" -> 11933
      [] name = "CJK RADICAL DEATH" -> 11934
      [] name = "CJK RADICAL MOTHER" -> 11935
      [] name = "CJK RADICAL CIVILIAN" -> 11936
      [] name = "CJK RADICAL WATER ONE" -> 11937
      [] name = "CJK RADICAL WATER TWO" -> 11938
      [] name = "CJK RADICAL FIRE" -> 11939
      [] name = "CJK RADICAL PAW ONE" -> 11940
      [] name = "CJK RADICAL PAW TWO" -> 11941
      [] name = "CJK RADICAL SIMPLIFIED HALF TREE TRUNK" -> 11942
      [] name = "CJK RADICAL COW" -> 11943
      [] name = "CJK RADICAL DOG" -> 11944
      [] name = "CJK RADICAL JADE" -> 11945
      [] name = "CJK RADICAL BOLT OF CLOTH" -> 11946
      [] name = "CJK RADICAL EYE" -> 11947
      [] name = "CJK RADICAL SPIRIT ONE" -> 11948
      [] name = "CJK RADICAL SPIRIT TWO" -> 11949
      [] name = "CJK RADICAL BAMBOO" -> 11950
      [] name = "CJK RADICAL SILK" -> 11951
      [] name = "CJK RADICAL C-SIMPLIFIED SILK" -> 11952
      [] name = "CJK RADICAL NET ONE" -> 11953
      [] name = "CJK RADICAL NET TWO" -> 11954
      [] name = "CJK RADICAL NET THREE" -> 11955
      [] name = "CJK RADICAL NET FOUR" -> 11956
      [] name = "CJK RADICAL MESH" -> 11957
      [] name = "CJK RADICAL SHEEP" -> 11958
      [] name = "CJK RADICAL RAM" -> 11959
      [] name = "CJK RADICAL EWE" -> 11960
      [] name = "CJK RADICAL OLD" -> 11961
      [] name = "CJK RADICAL BRUSH ONE" -> 11962
      [] name = "CJK RADICAL BRUSH TWO" -> 11963
      [] name = "CJK RADICAL MEAT" -> 11964
      [] name = "CJK RADICAL MORTAR" -> 11965
      [] name = "CJK RADICAL GRASS ONE" -> 11966
      [] name = "CJK RADICAL GRASS TWO" -> 11967
      [] name = "CJK RADICAL GRASS THREE" -> 11968
      [] name = "CJK RADICAL TIGER" -> 11969
      [] name = "CJK RADICAL CLOTHES" -> 11970
      [] name = "CJK RADICAL WEST ONE" -> 11971
      [] name = "CJK RADICAL WEST TWO" -> 11972
      [] name = "CJK RADICAL C-SIMPLIFIED SEE" -> 11973
      [] name = "CJK RADICAL SIMPLIFIED HORN" -> 11974
      [] name = "CJK RADICAL HORN" -> 11975
      [] name = "CJK RADICAL C-SIMPLIFIED SPEECH" -> 11976
      [] name = "CJK RADICAL C-SIMPLIFIED SHELL" -> 11977
      [] name = "CJK RADICAL FOOT" -> 11978
      [] name = "CJK RADICAL C-SIMPLIFIED CART" -> 11979
      [] name = "CJK RADICAL SIMPLIFIED WALK" -> 11980
      [] name = "CJK RADICAL WALK ONE" -> 11981
      [] name = "CJK RADICAL WALK TWO" -> 11982
      [] name = "CJK RADICAL CITY" -> 11983
      [] name = "CJK RADICAL C-SIMPLIFIED GOLD" -> 11984
      [] name = "CJK RADICAL LONG ONE" -> 11985
      [] name = "CJK RADICAL LONG TWO" -> 11986
      [] name = "CJK RADICAL C-SIMPLIFIED LONG" -> 11987
      [] name = "CJK RADICAL C-SIMPLIFIED GATE" -> 11988
      [] name = "CJK RADICAL MOUND ONE" -> 11989
      [] name = "CJK RADICAL MOUND TWO" -> 11990
      [] name = "CJK RADICAL RAIN" -> 11991
      [] name = "CJK RADICAL BLUE" -> 11992
      [] name = "CJK RADICAL C-SIMPLIFIED TANNED LEATHER" -> 11993
      [] name = "CJK RADICAL C-SIMPLIFIED LEAF" -> 11994
      [] name = "CJK RADICAL C-SIMPLIFIED WIND" -> 11995
      [] name = "CJK RADICAL C-SIMPLIFIED FLY" -> 11996
      [] name = "CJK RADICAL EAT ONE" -> 11997
      [] name = "CJK RADICAL EAT TWO" -> 11998
      [] name = "CJK RADICAL EAT THREE" -> 11999
      [] name = "CJK RADICAL C-SIMPLIFIED EAT" -> 12000
      [] name = "CJK RADICAL HEAD" -> 12001
      [] name = "CJK RADICAL C-SIMPLIFIED HORSE" -> 12002
      [] name = "CJK RADICAL BONE" -> 12003
      [] name = "CJK RADICAL GHOST" -> 12004
      [] name = "CJK RADICAL C-SIMPLIFIED FISH" -> 12005
      [] name = "CJK RADICAL C-SIMPLIFIED BIRD" -> 12006
      [] name = "CJK RADICAL C-SIMPLIFIED SALT" -> 12007
      [] name = "CJK RADICAL SIMPLIFIED WHEAT" -> 12008
      [] name = "CJK RADICAL SIMPLIFIED YELLOW" -> 12009
      [] name = "CJK RADICAL C-SIMPLIFIED FROG" -> 12010
      [] name = "CJK RADICAL J-SIMPLIFIED EVEN" -> 12011
      [] name = "CJK RADICAL C-SIMPLIFIED EVEN" -> 12012
      [] name = "CJK RADICAL J-SIMPLIFIED TOOTH" -> 12013
      [] name = "CJK RADICAL C-SIMPLIFIED TOOTH" -> 12014
      [] name = "CJK RADICAL J-SIMPLIFIED DRAGON" -> 12015
      [] name = "CJK RADICAL C-SIMPLIFIED DRAGON" -> 12016
      [] name = "CJK RADICAL TURTLE" -> 12017
      [] name = "CJK RADICAL J-SIMPLIFIED TURTLE" -> 12018
      [] name = "CJK RADICAL C-SIMPLIFIED TURTLE" -> 12019
      [] name = "KANGXI RADICAL ONE" -> 12032
      [] name = "KANGXI RADICAL LINE" -> 12033
      [] name = "KANGXI RADICAL DOT" -> 12034
      [] name = "KANGXI RADICAL SLASH" -> 12035
      [] name = "KANGXI RADICAL SECOND" -> 12036
      [] name = "KANGXI RADICAL HOOK" -> 12037
      [] name = "KANGXI RADICAL TWO" -> 12038
      [] name = "KANGXI RADICAL LID" -> 12039
      [] name = "KANGXI RADICAL MAN" -> 12040
      [] name = "KANGXI RADICAL LEGS" -> 12041
      [] name = "KANGXI RADICAL ENTER" -> 12042
      [] name = "KANGXI RADICAL EIGHT" -> 12043
      [] name = "KANGXI RADICAL DOWN BOX" -> 12044
      [] name = "KANGXI RADICAL COVER" -> 12045
      [] name = "KANGXI RADICAL ICE" -> 12046
      [] name = "KANGXI RADICAL TABLE" -> 12047
      [] name = "KANGXI RADICAL OPEN BOX" -> 12048
      [] name = "KANGXI RADICAL KNIFE" -> 12049
      [] name = "KANGXI RADICAL POWER" -> 12050
      [] name = "KANGXI RADICAL WRAP" -> 12051
      [] name = "KANGXI RADICAL SPOON" -> 12052
      [] name = "KANGXI RADICAL RIGHT OPEN BOX" -> 12053
      [] name = "KANGXI RADICAL HIDING ENCLOSURE" -> 12054
      [] name = "KANGXI RADICAL TEN" -> 12055
      [] name = "KANGXI RADICAL DIVINATION" -> 12056
      [] name = "KANGXI RADICAL SEAL" -> 12057
      [] name = "KANGXI RADICAL CLIFF" -> 12058
      [] name = "KANGXI RADICAL PRIVATE" -> 12059
      [] name = "KANGXI RADICAL AGAIN" -> 12060
      [] name = "KANGXI RADICAL MOUTH" -> 12061
      [] name = "KANGXI RADICAL ENCLOSURE" -> 12062
      [] name = "KANGXI RADICAL EARTH" -> 12063
      [] name = "KANGXI RADICAL SCHOLAR" -> 12064
      [] name = "KANGXI RADICAL GO" -> 12065
      [] name = "KANGXI RADICAL GO SLOWLY" -> 12066
      [] name = "KANGXI RADICAL EVENING" -> 12067
      [] name = "KANGXI RADICAL BIG" -> 12068
      [] name = "KANGXI RADICAL WOMAN" -> 12069
      [] name = "KANGXI RADICAL CHILD" -> 12070
      [] name = "KANGXI RADICAL ROOF" -> 12071
      [] name = "KANGXI RADICAL INCH" -> 12072
      [] name = "KANGXI RADICAL SMALL" -> 12073
      [] name = "KANGXI RADICAL LAME" -> 12074
      [] name = "KANGXI RADICAL CORPSE" -> 12075
      [] name = "KANGXI RADICAL SPROUT" -> 12076
      [] name = "KANGXI RADICAL MOUNTAIN" -> 12077
      [] name = "KANGXI RADICAL RIVER" -> 12078
      [] name = "KANGXI RADICAL WORK" -> 12079
      [] name = "KANGXI RADICAL ONESELF" -> 12080
      [] name = "KANGXI RADICAL TURBAN" -> 12081
      [] name = "KANGXI RADICAL DRY" -> 12082
      [] name = "KANGXI RADICAL SHORT THREAD" -> 12083
      [] name = "KANGXI RADICAL DOTTED CLIFF" -> 12084
      [] name = "KANGXI RADICAL LONG STRIDE" -> 12085
      [] name = "KANGXI RADICAL TWO HANDS" -> 12086
      [] name = "KANGXI RADICAL SHOOT" -> 12087
      [] name = "KANGXI RADICAL BOW" -> 12088
      [] name = "KANGXI RADICAL SNOUT" -> 12089
      [] name = "KANGXI RADICAL BRISTLE" -> 12090
      [] name = "KANGXI RADICAL STEP" -> 12091
      [] name = "KANGXI RADICAL HEART" -> 12092
      [] name = "KANGXI RADICAL HALBERD" -> 12093
      [] name = "KANGXI RADICAL DOOR" -> 12094
      [] name = "KANGXI RADICAL HAND" -> 12095
      [] name = "KANGXI RADICAL BRANCH" -> 12096
      [] name = "KANGXI RADICAL RAP" -> 12097
      [] name = "KANGXI RADICAL SCRIPT" -> 12098
      [] name = "KANGXI RADICAL DIPPER" -> 12099
      [] name = "KANGXI RADICAL AXE" -> 12100
      [] name = "KANGXI RADICAL SQUARE" -> 12101
      [] name = "KANGXI RADICAL NOT" -> 12102
      [] name = "KANGXI RADICAL SUN" -> 12103
      [] name = "KANGXI RADICAL SAY" -> 12104
      [] name = "KANGXI RADICAL MOON" -> 12105
      [] name = "KANGXI RADICAL TREE" -> 12106
      [] name = "KANGXI RADICAL LACK" -> 12107
      [] name = "KANGXI RADICAL STOP" -> 12108
      [] name = "KANGXI RADICAL DEATH" -> 12109
      [] name = "KANGXI RADICAL WEAPON" -> 12110
      [] name = "KANGXI RADICAL DO NOT" -> 12111
      [] name = "KANGXI RADICAL COMPARE" -> 12112
      [] name = "KANGXI RADICAL FUR" -> 12113
      [] name = "KANGXI RADICAL CLAN" -> 12114
      [] name = "KANGXI RADICAL STEAM" -> 12115
      [] name = "KANGXI RADICAL WATER" -> 12116
      [] name = "KANGXI RADICAL FIRE" -> 12117
      [] name = "KANGXI RADICAL CLAW" -> 12118
      [] name = "KANGXI RADICAL FATHER" -> 12119
      [] name = "KANGXI RADICAL DOUBLE X" -> 12120
      [] name = "KANGXI RADICAL HALF TREE TRUNK" -> 12121
      [] name = "KANGXI RADICAL SLICE" -> 12122
      [] name = "KANGXI RADICAL FANG" -> 12123
      [] name = "KANGXI RADICAL COW" -> 12124
      [] name = "KANGXI RADICAL DOG" -> 12125
      [] name = "KANGXI RADICAL PROFOUND" -> 12126
      [] name = "KANGXI RADICAL JADE" -> 12127
      [] name = "KANGXI RADICAL MELON" -> 12128
      [] name = "KANGXI RADICAL TILE" -> 12129
      [] name = "KANGXI RADICAL SWEET" -> 12130
      [] name = "KANGXI RADICAL LIFE" -> 12131
      [] name = "KANGXI RADICAL USE" -> 12132
      [] name = "KANGXI RADICAL FIELD" -> 12133
      [] name = "KANGXI RADICAL BOLT OF CLOTH" -> 12134
      [] name = "KANGXI RADICAL SICKNESS" -> 12135
      [] name = "KANGXI RADICAL DOTTED TENT" -> 12136
      [] name = "KANGXI RADICAL WHITE" -> 12137
      [] name = "KANGXI RADICAL SKIN" -> 12138
      [] name = "KANGXI RADICAL DISH" -> 12139
      [] name = "KANGXI RADICAL EYE" -> 12140
      [] name = "KANGXI RADICAL SPEAR" -> 12141
      [] name = "KANGXI RADICAL ARROW" -> 12142
      [] name = "KANGXI RADICAL STONE" -> 12143
      [] name = "KANGXI RADICAL SPIRIT" -> 12144
      [] name = "KANGXI RADICAL TRACK" -> 12145
      [] name = "KANGXI RADICAL GRAIN" -> 12146
      [] name = "KANGXI RADICAL CAVE" -> 12147
      [] name = "KANGXI RADICAL STAND" -> 12148
      [] name = "KANGXI RADICAL BAMBOO" -> 12149
      [] name = "KANGXI RADICAL RICE" -> 12150
      [] name = "KANGXI RADICAL SILK" -> 12151
      [] name = "KANGXI RADICAL JAR" -> 12152
      [] name = "KANGXI RADICAL NET" -> 12153
      [] name = "KANGXI RADICAL SHEEP" -> 12154
      [] name = "KANGXI RADICAL FEATHER" -> 12155
      [] name = "KANGXI RADICAL OLD" -> 12156
      [] name = "KANGXI RADICAL AND" -> 12157
      [] name = "KANGXI RADICAL PLOW" -> 12158
      [] name = "KANGXI RADICAL EAR" -> 12159
      [] name = "KANGXI RADICAL BRUSH" -> 12160
      [] name = "KANGXI RADICAL MEAT" -> 12161
      [] name = "KANGXI RADICAL MINISTER" -> 12162
      [] name = "KANGXI RADICAL SELF" -> 12163
      [] name = "KANGXI RADICAL ARRIVE" -> 12164
      [] name = "KANGXI RADICAL MORTAR" -> 12165
      [] name = "KANGXI RADICAL TONGUE" -> 12166
      [] name = "KANGXI RADICAL OPPOSE" -> 12167
      [] name = "KANGXI RADICAL BOAT" -> 12168
      [] name = "KANGXI RADICAL STOPPING" -> 12169
      [] name = "KANGXI RADICAL COLOR" -> 12170
      [] name = "KANGXI RADICAL GRASS" -> 12171
      [] name = "KANGXI RADICAL TIGER" -> 12172
      [] name = "KANGXI RADICAL INSECT" -> 12173
      [] name = "KANGXI RADICAL BLOOD" -> 12174
      [] name = "KANGXI RADICAL WALK ENCLOSURE" -> 12175
      [] name = "KANGXI RADICAL CLOTHES" -> 12176
      [] name = "KANGXI RADICAL WEST" -> 12177
      [] name = "KANGXI RADICAL SEE" -> 12178
      [] name = "KANGXI RADICAL HORN" -> 12179
      [] name = "KANGXI RADICAL SPEECH" -> 12180
      [] name = "KANGXI RADICAL VALLEY" -> 12181
      [] name = "KANGXI RADICAL BEAN" -> 12182
      [] name = "KANGXI RADICAL PIG" -> 12183
      [] name = "KANGXI RADICAL BADGER" -> 12184
      [] name = "KANGXI RADICAL SHELL" -> 12185
      [] name = "KANGXI RADICAL RED" -> 12186
      [] name = "KANGXI RADICAL RUN" -> 12187
      [] name = "KANGXI RADICAL FOOT" -> 12188
      [] name = "KANGXI RADICAL BODY" -> 12189
      [] name = "KANGXI RADICAL CART" -> 12190
      [] name = "KANGXI RADICAL BITTER" -> 12191
      [] name = "KANGXI RADICAL MORNING" -> 12192
      [] name = "KANGXI RADICAL WALK" -> 12193
      [] name = "KANGXI RADICAL CITY" -> 12194
      [] name = "KANGXI RADICAL WINE" -> 12195
      [] name = "KANGXI RADICAL DISTINGUISH" -> 12196
      [] name = "KANGXI RADICAL VILLAGE" -> 12197
      [] name = "KANGXI RADICAL GOLD" -> 12198
      [] name = "KANGXI RADICAL LONG" -> 12199
      [] name = "KANGXI RADICAL GATE" -> 12200
      [] name = "KANGXI RADICAL MOUND" -> 12201
      [] name = "KANGXI RADICAL SLAVE" -> 12202
      [] name = "KANGXI RADICAL SHORT TAILED BIRD" -> 12203
      [] name = "KANGXI RADICAL RAIN" -> 12204
      [] name = "KANGXI RADICAL BLUE" -> 12205
      [] name = "KANGXI RADICAL WRONG" -> 12206
      [] name = "KANGXI RADICAL FACE" -> 12207
      [] name = "KANGXI RADICAL LEATHER" -> 12208
      [] name = "KANGXI RADICAL TANNED LEATHER" -> 12209
      [] name = "KANGXI RADICAL LEEK" -> 12210
      [] name = "KANGXI RADICAL SOUND" -> 12211
      [] name = "KANGXI RADICAL LEAF" -> 12212
      [] name = "KANGXI RADICAL WIND" -> 12213
      [] name = "KANGXI RADICAL FLY" -> 12214
      [] name = "KANGXI RADICAL EAT" -> 12215
      [] name = "KANGXI RADICAL HEAD" -> 12216
      [] name = "KANGXI RADICAL FRAGRANT" -> 12217
      [] name = "KANGXI RADICAL HORSE" -> 12218
      [] name = "KANGXI RADICAL BONE" -> 12219
      [] name = "KANGXI RADICAL TALL" -> 12220
      [] name = "KANGXI RADICAL HAIR" -> 12221
      [] name = "KANGXI RADICAL FIGHT" -> 12222
      [] name = "KANGXI RADICAL SACRIFICIAL WINE" -> 12223
      [] name = "KANGXI RADICAL CAULDRON" -> 12224
      [] name = "KANGXI RADICAL GHOST" -> 12225
      [] name = "KANGXI RADICAL FISH" -> 12226
      [] name = "KANGXI RADICAL BIRD" -> 12227
      [] name = "KANGXI RADICAL SALT" -> 12228
      [] name = "KANGXI RADICAL DEER" -> 12229
      [] name = "KANGXI RADICAL WHEAT" -> 12230
      [] name = "KANGXI RADICAL HEMP" -> 12231
      [] name = "KANGXI RADICAL YELLOW" -> 12232
      [] name = "KANGXI RADICAL MILLET" -> 12233
      [] name = "KANGXI RADICAL BLACK" -> 12234
      [] name = "KANGXI RADICAL EMBROIDERY" -> 12235
      [] name = "KANGXI RADICAL FROG" -> 12236
      [] name = "KANGXI RADICAL TRIPOD" -> 12237
      [] name = "KANGXI RADICAL DRUM" -> 12238
      [] name = "KANGXI RADICAL RAT" -> 12239
      [] name = "KANGXI RADICAL NOSE" -> 12240
      [] name = "KANGXI RADICAL EVEN" -> 12241
      [] name = "KANGXI RADICAL TOOTH" -> 12242
      [] name = "KANGXI RADICAL DRAGON" -> 12243
      [] name = "KANGXI RADICAL TURTLE" -> 12244
      [] name = "KANGXI RADICAL FLUTE" -> 12245
      [] name = "IDEOGRAPHIC DESCRIPTION CHARACTER LEFT TO RIGHT" -> 12272
      [] name = "IDEOGRAPHIC DESCRIPTION CHARACTER ABOVE TO BELOW" -> 12273
      [] name = "IDEOGRAPHIC DESCRIPTION CHARACTER LEFT TO MIDDLE AND RIGHT" -> 12274
      [] name = "IDEOGRAPHIC DESCRIPTION CHARACTER ABOVE TO MIDDLE AND BELOW" -> 12275
      [] name = "IDEOGRAPHIC DESCRIPTION CHARACTER FULL SURROUND" -> 12276
      [] name = "IDEOGRAPHIC DESCRIPTION CHARACTER SURROUND FROM ABOVE" -> 12277
      [] name = "IDEOGRAPHIC DESCRIPTION CHARACTER SURROUND FROM BELOW" -> 12278
      [] name = "IDEOGRAPHIC DESCRIPTION CHARACTER SURROUND FROM LEFT" -> 12279
      [] name = "IDEOGRAPHIC DESCRIPTION CHARACTER SURROUND FROM UPPER LEFT" -> 12280
      [] name = "IDEOGRAPHIC DESCRIPTION CHARACTER SURROUND FROM UPPER RIGHT" -> 12281
      [] name = "IDEOGRAPHIC DESCRIPTION CHARACTER SURROUND FROM LOWER LEFT" -> 12282
      [] name = "IDEOGRAPHIC DESCRIPTION CHARACTER OVERLAID" -> 12283
      [] name = "IDEOGRAPHIC SPACE" -> 12288
      [] name = "IDEOGRAPHIC COMMA" -> 12289
      [] name = "IDEOGRAPHIC FULL STOP" -> 12290
      [] name = "DITTO MARK" -> 12291
      [] name = "JAPANESE INDUSTRIAL STANDARD SYMBOL" -> 12292
      [] name = "IDEOGRAPHIC ITERATION MARK" -> 12293
      [] name = "IDEOGRAPHIC CLOSING MARK" -> 12294
      [] name = "IDEOGRAPHIC NUMBER ZERO" -> 12295
      [] name = "LEFT ANGLE BRACKET" -> 12296
      [] name = "RIGHT ANGLE BRACKET" -> 12297
      [] name = "LEFT DOUBLE ANGLE BRACKET" -> 12298
      [] name = "RIGHT DOUBLE ANGLE BRACKET" -> 12299
      [] name = "LEFT CORNER BRACKET" -> 12300
      [] name = "RIGHT CORNER BRACKET" -> 12301
      [] name = "LEFT WHITE CORNER BRACKET" -> 12302
      [] name = "RIGHT WHITE CORNER BRACKET" -> 12303
      [] name = "LEFT BLACK LENTICULAR BRACKET" -> 12304
      [] name = "RIGHT BLACK LENTICULAR BRACKET" -> 12305
      [] name = "POSTAL MARK" -> 12306
      [] name = "GETA MARK" -> 12307
      [] name = "LEFT TORTOISE SHELL BRACKET" -> 12308
      [] name = "RIGHT TORTOISE SHELL BRACKET" -> 12309
      [] name = "LEFT WHITE LENTICULAR BRACKET" -> 12310
      [] name = "RIGHT WHITE LENTICULAR BRACKET" -> 12311
      [] name = "LEFT WHITE TORTOISE SHELL BRACKET" -> 12312
      [] name = "RIGHT WHITE TORTOISE SHELL BRACKET" -> 12313
      [] name = "LEFT WHITE SQUARE BRACKET" -> 12314
      [] name = "RIGHT WHITE SQUARE BRACKET" -> 12315
      [] name = "WAVE DASH" -> 12316
      [] name = "REVERSED DOUBLE PRIME QUOTATION MARK" -> 12317
      [] name = "DOUBLE PRIME QUOTATION MARK" -> 12318
      [] name = "LOW DOUBLE PRIME QUOTATION MARK" -> 12319
      [] name = "POSTAL MARK FACE" -> 12320
      [] name = "HANGZHOU NUMERAL ONE" -> 12321
      [] name = "HANGZHOU NUMERAL TWO" -> 12322
      [] name = "HANGZHOU NUMERAL THREE" -> 12323
      [] name = "HANGZHOU NUMERAL FOUR" -> 12324
      [] name = "HANGZHOU NUMERAL FIVE" -> 12325
      [] name = "HANGZHOU NUMERAL SIX" -> 12326
      [] name = "HANGZHOU NUMERAL SEVEN" -> 12327
      [] name = "HANGZHOU NUMERAL EIGHT" -> 12328
      [] name = "HANGZHOU NUMERAL NINE" -> 12329
      [] name = "IDEOGRAPHIC LEVEL TONE MARK" -> 12330
      [] name = "IDEOGRAPHIC RISING TONE MARK" -> 12331
      [] name = "IDEOGRAPHIC DEPARTING TONE MARK" -> 12332
      [] name = "IDEOGRAPHIC ENTERING TONE MARK" -> 12333
      [] name = "HANGUL SINGLE DOT TONE MARK" -> 12334
      [] name = "HANGUL DOUBLE DOT TONE MARK" -> 12335
      [] name = "WAVY DASH" -> 12336
      [] name = "VERTICAL KANA REPEAT MARK" -> 12337
      [] name = "VERTICAL KANA REPEAT WITH VOICED SOUND MARK" -> 12338
      [] name = "VERTICAL KANA REPEAT MARK UPPER HALF" -> 12339
      [] name = "VERTICAL KANA REPEAT WITH VOICED SOUND MARK UPPER HALF" -> 12340
      [] name = "VERTICAL KANA REPEAT MARK LOWER HALF" -> 12341
      [] name = "CIRCLED POSTAL MARK" -> 12342
      [] name = "IDEOGRAPHIC TELEGRAPH LINE FEED SEPARATOR SYMBOL" -> 12343
      [] name = "HANGZHOU NUMERAL TEN" -> 12344
      [] name = "HANGZHOU NUMERAL TWENTY" -> 12345
      [] name = "HANGZHOU NUMERAL THIRTY" -> 12346
      [] name = "VERTICAL IDEOGRAPHIC ITERATION MARK" -> 12347
      [] name = "MASU MARK" -> 12348
      [] name = "PART ALTERNATION MARK" -> 12349
      [] name = "IDEOGRAPHIC VARIATION INDICATOR" -> 12350
      [] name = "IDEOGRAPHIC HALF FILL SPACE" -> 12351
      [] name = "HIRAGANA LETTER SMALL A" -> 12353
      [] name = "HIRAGANA LETTER A" -> 12354
      [] name = "HIRAGANA LETTER SMALL I" -> 12355
      [] name = "HIRAGANA LETTER I" -> 12356
      [] name = "HIRAGANA LETTER SMALL U" -> 12357
      [] name = "HIRAGANA LETTER U" -> 12358
      [] name = "HIRAGANA LETTER SMALL E" -> 12359
      [] name = "HIRAGANA LETTER E" -> 12360
      [] name = "HIRAGANA LETTER SMALL O" -> 12361
      [] name = "HIRAGANA LETTER O" -> 12362
      [] name = "HIRAGANA LETTER KA" -> 12363
      [] name = "HIRAGANA LETTER GA" -> 12364
      [] name = "HIRAGANA LETTER KI" -> 12365
      [] name = "HIRAGANA LETTER GI" -> 12366
      [] name = "HIRAGANA LETTER KU" -> 12367
      [] name = "HIRAGANA LETTER GU" -> 12368
      [] name = "HIRAGANA LETTER KE" -> 12369
      [] name = "HIRAGANA LETTER GE" -> 12370
      [] name = "HIRAGANA LETTER KO" -> 12371
      [] name = "HIRAGANA LETTER GO" -> 12372
      [] name = "HIRAGANA LETTER SA" -> 12373
      [] name = "HIRAGANA LETTER ZA" -> 12374
      [] name = "HIRAGANA LETTER SI" -> 12375
      [] name = "HIRAGANA LETTER ZI" -> 12376
      [] name = "HIRAGANA LETTER SU" -> 12377
      [] name = "HIRAGANA LETTER ZU" -> 12378
      [] name = "HIRAGANA LETTER SE" -> 12379
      [] name = "HIRAGANA LETTER ZE" -> 12380
      [] name = "HIRAGANA LETTER SO" -> 12381
      [] name = "HIRAGANA LETTER ZO" -> 12382
      [] name = "HIRAGANA LETTER TA" -> 12383
      [] name = "HIRAGANA LETTER DA" -> 12384
      [] name = "HIRAGANA LETTER TI" -> 12385
      [] name = "HIRAGANA LETTER DI" -> 12386
      [] name = "HIRAGANA LETTER SMALL TU" -> 12387
      [] name = "HIRAGANA LETTER TU" -> 12388
      [] name = "HIRAGANA LETTER DU" -> 12389
      [] name = "HIRAGANA LETTER TE" -> 12390
      [] name = "HIRAGANA LETTER DE" -> 12391
      [] name = "HIRAGANA LETTER TO" -> 12392
      [] name = "HIRAGANA LETTER DO" -> 12393
      [] name = "HIRAGANA LETTER NA" -> 12394
      [] name = "HIRAGANA LETTER NI" -> 12395
      [] name = "HIRAGANA LETTER NU" -> 12396
      [] name = "HIRAGANA LETTER NE" -> 12397
      [] name = "HIRAGANA LETTER NO" -> 12398
      [] name = "HIRAGANA LETTER HA" -> 12399
      [] name = "HIRAGANA LETTER BA" -> 12400
      [] name = "HIRAGANA LETTER PA" -> 12401
      [] name = "HIRAGANA LETTER HI" -> 12402
      [] name = "HIRAGANA LETTER BI" -> 12403
      [] name = "HIRAGANA LETTER PI" -> 12404
      [] name = "HIRAGANA LETTER HU" -> 12405
      [] name = "HIRAGANA LETTER BU" -> 12406
      [] name = "HIRAGANA LETTER PU" -> 12407
      [] name = "HIRAGANA LETTER HE" -> 12408
      [] name = "HIRAGANA LETTER BE" -> 12409
      [] name = "HIRAGANA LETTER PE" -> 12410
      [] name = "HIRAGANA LETTER HO" -> 12411
      [] name = "HIRAGANA LETTER BO" -> 12412
      [] name = "HIRAGANA LETTER PO" -> 12413
      [] name = "HIRAGANA LETTER MA" -> 12414
      [] name = "HIRAGANA LETTER MI" -> 12415
      [] name = "HIRAGANA LETTER MU" -> 12416
      [] name = "HIRAGANA LETTER ME" -> 12417
      [] name = "HIRAGANA LETTER MO" -> 12418
      [] name = "HIRAGANA LETTER SMALL YA" -> 12419
      [] name = "HIRAGANA LETTER YA" -> 12420
      [] name = "HIRAGANA LETTER SMALL YU" -> 12421
      [] name = "HIRAGANA LETTER YU" -> 12422
      [] name = "HIRAGANA LETTER SMALL YO" -> 12423
      [] name = "HIRAGANA LETTER YO" -> 12424
      [] name = "HIRAGANA LETTER RA" -> 12425
      [] name = "HIRAGANA LETTER RI" -> 12426
      [] name = "HIRAGANA LETTER RU" -> 12427
      [] name = "HIRAGANA LETTER RE" -> 12428
      [] name = "HIRAGANA LETTER RO" -> 12429
      [] name = "HIRAGANA LETTER SMALL WA" -> 12430
      [] name = "HIRAGANA LETTER WA" -> 12431
      [] name = "HIRAGANA LETTER WI" -> 12432
      [] name = "HIRAGANA LETTER WE" -> 12433
      [] name = "HIRAGANA LETTER WO" -> 12434
      [] name = "HIRAGANA LETTER N" -> 12435
      [] name = "HIRAGANA LETTER VU" -> 12436
      [] name = "HIRAGANA LETTER SMALL KA" -> 12437
      [] name = "HIRAGANA LETTER SMALL KE" -> 12438
      [] name = "COMBINING KATAKANA-HIRAGANA VOICED SOUND MARK" -> 12441
      [] name = "COMBINING KATAKANA-HIRAGANA SEMI-VOICED SOUND MARK" -> 12442
      [] name = "KATAKANA-HIRAGANA VOICED SOUND MARK" -> 12443
      [] name = "KATAKANA-HIRAGANA SEMI-VOICED SOUND MARK" -> 12444
      [] name = "HIRAGANA ITERATION MARK" -> 12445
      [] name = "HIRAGANA VOICED ITERATION MARK" -> 12446
      [] name = "HIRAGANA DIGRAPH YORI" -> 12447
      [] name = "KATAKANA-HIRAGANA DOUBLE HYPHEN" -> 12448
      [] name = "KATAKANA LETTER SMALL A" -> 12449
      [] name = "KATAKANA LETTER A" -> 12450
      [] name = "KATAKANA LETTER SMALL I" -> 12451
      [] name = "KATAKANA LETTER I" -> 12452
      [] name = "KATAKANA LETTER SMALL U" -> 12453
      [] name = "KATAKANA LETTER U" -> 12454
      [] name = "KATAKANA LETTER SMALL E" -> 12455
      [] name = "KATAKANA LETTER E" -> 12456
      [] name = "KATAKANA LETTER SMALL O" -> 12457
      [] name = "KATAKANA LETTER O" -> 12458
      [] name = "KATAKANA LETTER KA" -> 12459
      [] name = "KATAKANA LETTER GA" -> 12460
      [] name = "KATAKANA LETTER KI" -> 12461
      [] name = "KATAKANA LETTER GI" -> 12462
      [] name = "KATAKANA LETTER KU" -> 12463
      [] name = "KATAKANA LETTER GU" -> 12464
      [] name = "KATAKANA LETTER KE" -> 12465
      [] name = "KATAKANA LETTER GE" -> 12466
      [] name = "KATAKANA LETTER KO" -> 12467
      [] name = "KATAKANA LETTER GO" -> 12468
      [] name = "KATAKANA LETTER SA" -> 12469
      [] name = "KATAKANA LETTER ZA" -> 12470
      [] name = "KATAKANA LETTER SI" -> 12471
      [] name = "KATAKANA LETTER ZI" -> 12472
      [] name = "KATAKANA LETTER SU" -> 12473
      [] name = "KATAKANA LETTER ZU" -> 12474
      [] name = "KATAKANA LETTER SE" -> 12475
      [] name = "KATAKANA LETTER ZE" -> 12476
      [] name = "KATAKANA LETTER SO" -> 12477
      [] name = "KATAKANA LETTER ZO" -> 12478
      [] name = "KATAKANA LETTER TA" -> 12479
      [] name = "KATAKANA LETTER DA" -> 12480
      [] name = "KATAKANA LETTER TI" -> 12481
      [] name = "KATAKANA LETTER DI" -> 12482
      [] name = "KATAKANA LETTER SMALL TU" -> 12483
      [] name = "KATAKANA LETTER TU" -> 12484
      [] name = "KATAKANA LETTER DU" -> 12485
      [] name = "KATAKANA LETTER TE" -> 12486
      [] name = "KATAKANA LETTER DE" -> 12487
      [] name = "KATAKANA LETTER TO" -> 12488
      [] name = "KATAKANA LETTER DO" -> 12489
      [] name = "KATAKANA LETTER NA" -> 12490
      [] name = "KATAKANA LETTER NI" -> 12491
      [] name = "KATAKANA LETTER NU" -> 12492
      [] name = "KATAKANA LETTER NE" -> 12493
      [] name = "KATAKANA LETTER NO" -> 12494
      [] name = "KATAKANA LETTER HA" -> 12495
      [] name = "KATAKANA LETTER BA" -> 12496
      [] name = "KATAKANA LETTER PA" -> 12497
      [] name = "KATAKANA LETTER HI" -> 12498
      [] name = "KATAKANA LETTER BI" -> 12499
      [] name = "KATAKANA LETTER PI" -> 12500
      [] name = "KATAKANA LETTER HU" -> 12501
      [] name = "KATAKANA LETTER BU" -> 12502
      [] name = "KATAKANA LETTER PU" -> 12503
      [] name = "KATAKANA LETTER HE" -> 12504
      [] name = "KATAKANA LETTER BE" -> 12505
      [] name = "KATAKANA LETTER PE" -> 12506
      [] name = "KATAKANA LETTER HO" -> 12507
      [] name = "KATAKANA LETTER BO" -> 12508
      [] name = "KATAKANA LETTER PO" -> 12509
      [] name = "KATAKANA LETTER MA" -> 12510
      [] name = "KATAKANA LETTER MI" -> 12511
      [] name = "KATAKANA LETTER MU" -> 12512
      [] name = "KATAKANA LETTER ME" -> 12513
      [] name = "KATAKANA LETTER MO" -> 12514
      [] name = "KATAKANA LETTER SMALL YA" -> 12515
      [] name = "KATAKANA LETTER YA" -> 12516
      [] name = "KATAKANA LETTER SMALL YU" -> 12517
      [] name = "KATAKANA LETTER YU" -> 12518
      [] name = "KATAKANA LETTER SMALL YO" -> 12519
      [] name = "KATAKANA LETTER YO" -> 12520
      [] name = "KATAKANA LETTER RA" -> 12521
      [] name = "KATAKANA LETTER RI" -> 12522
      [] name = "KATAKANA LETTER RU" -> 12523
      [] name = "KATAKANA LETTER RE" -> 12524
      [] name = "KATAKANA LETTER RO" -> 12525
      [] name = "KATAKANA LETTER SMALL WA" -> 12526
      [] name = "KATAKANA LETTER WA" -> 12527
      [] name = "KATAKANA LETTER WI" -> 12528
      [] name = "KATAKANA LETTER WE" -> 12529
      [] name = "KATAKANA LETTER WO" -> 12530
      [] name = "KATAKANA LETTER N" -> 12531
      [] name = "KATAKANA LETTER VU" -> 12532
      [] name = "KATAKANA LETTER SMALL KA" -> 12533
      [] name = "KATAKANA LETTER SMALL KE" -> 12534
      [] name = "KATAKANA LETTER VA" -> 12535
      [] name = "KATAKANA LETTER VI" -> 12536
      [] name = "KATAKANA LETTER VE" -> 12537
      [] name = "KATAKANA LETTER VO" -> 12538
      [] name = "KATAKANA MIDDLE DOT" -> 12539
      [] name = "KATAKANA-HIRAGANA PROLONGED SOUND MARK" -> 12540
      [] name = "KATAKANA ITERATION MARK" -> 12541
      [] name = "KATAKANA VOICED ITERATION MARK" -> 12542
      [] name = "KATAKANA DIGRAPH KOTO" -> 12543
      [] name = "BOPOMOFO LETTER B" -> 12549
      [] name = "BOPOMOFO LETTER P" -> 12550
      [] name = "BOPOMOFO LETTER M" -> 12551
      [] name = "BOPOMOFO LETTER F" -> 12552
      [] name = "BOPOMOFO LETTER D" -> 12553
      [] name = "BOPOMOFO LETTER T" -> 12554
      [] name = "BOPOMOFO LETTER N" -> 12555
      [] name = "BOPOMOFO LETTER L" -> 12556
      [] name = "BOPOMOFO LETTER G" -> 12557
      [] name = "BOPOMOFO LETTER K" -> 12558
      [] name = "BOPOMOFO LETTER H" -> 12559
      [] name = "BOPOMOFO LETTER J" -> 12560
      [] name = "BOPOMOFO LETTER Q" -> 12561
      [] name = "BOPOMOFO LETTER X" -> 12562
      [] name = "BOPOMOFO LETTER ZH" -> 12563
      [] name = "BOPOMOFO LETTER CH" -> 12564
      [] name = "BOPOMOFO LETTER SH" -> 12565
      [] name = "BOPOMOFO LETTER R" -> 12566
      [] name = "BOPOMOFO LETTER Z" -> 12567
      [] name = "BOPOMOFO LETTER C" -> 12568
      [] name = "BOPOMOFO LETTER S" -> 12569
      [] name = "BOPOMOFO LETTER A" -> 12570
      [] name = "BOPOMOFO LETTER O" -> 12571
      [] name = "BOPOMOFO LETTER E" -> 12572
      [] name = "BOPOMOFO LETTER EH" -> 12573
      [] name = "BOPOMOFO LETTER AI" -> 12574
      [] name = "BOPOMOFO LETTER EI" -> 12575
      [] name = "BOPOMOFO LETTER AU" -> 12576
      [] name = "BOPOMOFO LETTER OU" -> 12577
      [] name = "BOPOMOFO LETTER AN" -> 12578
      [] name = "BOPOMOFO LETTER EN" -> 12579
      [] name = "BOPOMOFO LETTER ANG" -> 12580
      [] name = "BOPOMOFO LETTER ENG" -> 12581
      [] name = "BOPOMOFO LETTER ER" -> 12582
      [] name = "BOPOMOFO LETTER I" -> 12583
      [] name = "BOPOMOFO LETTER U" -> 12584
      [] name = "BOPOMOFO LETTER IU" -> 12585
      [] name = "BOPOMOFO LETTER V" -> 12586
      [] name = "BOPOMOFO LETTER NG" -> 12587
      [] name = "BOPOMOFO LETTER GN" -> 12588
      [] name = "BOPOMOFO LETTER IH" -> 12589
      [] name = "BOPOMOFO LETTER O WITH DOT ABOVE" -> 12590
      [] name = "BOPOMOFO LETTER NN" -> 12591
      [] name = "HANGUL LETTER KIYEOK" -> 12593
      [] name = "HANGUL LETTER SSANGKIYEOK" -> 12594
      [] name = "HANGUL LETTER KIYEOK-SIOS" -> 12595
      [] name = "HANGUL LETTER NIEUN" -> 12596
      [] name = "HANGUL LETTER NIEUN-CIEUC" -> 12597
      [] name = "HANGUL LETTER NIEUN-HIEUH" -> 12598
      [] name = "HANGUL LETTER TIKEUT" -> 12599
      [] name = "HANGUL LETTER SSANGTIKEUT" -> 12600
      [] name = "HANGUL LETTER RIEUL" -> 12601
      [] name = "HANGUL LETTER RIEUL-KIYEOK" -> 12602
      [] name = "HANGUL LETTER RIEUL-MIEUM" -> 12603
      [] name = "HANGUL LETTER RIEUL-PIEUP" -> 12604
      [] name = "HANGUL LETTER RIEUL-SIOS" -> 12605
      [] name = "HANGUL LETTER RIEUL-THIEUTH" -> 12606
      [] name = "HANGUL LETTER RIEUL-PHIEUPH" -> 12607
      [] name = "HANGUL LETTER RIEUL-HIEUH" -> 12608
      [] name = "HANGUL LETTER MIEUM" -> 12609
      [] name = "HANGUL LETTER PIEUP" -> 12610
      [] name = "HANGUL LETTER SSANGPIEUP" -> 12611
      [] name = "HANGUL LETTER PIEUP-SIOS" -> 12612
      [] name = "HANGUL LETTER SIOS" -> 12613
      [] name = "HANGUL LETTER SSANGSIOS" -> 12614
      [] name = "HANGUL LETTER IEUNG" -> 12615
      [] name = "HANGUL LETTER CIEUC" -> 12616
      [] name = "HANGUL LETTER SSANGCIEUC" -> 12617
      [] name = "HANGUL LETTER CHIEUCH" -> 12618
      [] name = "HANGUL LETTER KHIEUKH" -> 12619
      [] name = "HANGUL LETTER THIEUTH" -> 12620
      [] name = "HANGUL LETTER PHIEUPH" -> 12621
      [] name = "HANGUL LETTER HIEUH" -> 12622
      [] name = "HANGUL LETTER A" -> 12623
      [] name = "HANGUL LETTER AE" -> 12624
      [] name = "HANGUL LETTER YA" -> 12625
      [] name = "HANGUL LETTER YAE" -> 12626
      [] name = "HANGUL LETTER EO" -> 12627
      [] name = "HANGUL LETTER E" -> 12628
      [] name = "HANGUL LETTER YEO" -> 12629
      [] name = "HANGUL LETTER YE" -> 12630
      [] name = "HANGUL LETTER O" -> 12631
      [] name = "HANGUL LETTER WA" -> 12632
      [] name = "HANGUL LETTER WAE" -> 12633
      [] name = "HANGUL LETTER OE" -> 12634
      [] name = "HANGUL LETTER YO" -> 12635
      [] name = "HANGUL LETTER U" -> 12636
      [] name = "HANGUL LETTER WEO" -> 12637
      [] name = "HANGUL LETTER WE" -> 12638
      [] name = "HANGUL LETTER WI" -> 12639
      [] name = "HANGUL LETTER YU" -> 12640
      [] name = "HANGUL LETTER EU" -> 12641
      [] name = "HANGUL LETTER YI" -> 12642
      [] name = "HANGUL LETTER I" -> 12643
      [] name = "HANGUL FILLER" -> 12644
      [] name = "HANGUL LETTER SSANGNIEUN" -> 12645
      [] name = "HANGUL LETTER NIEUN-TIKEUT" -> 12646
      [] name = "HANGUL LETTER NIEUN-SIOS" -> 12647
      [] name = "HANGUL LETTER NIEUN-PANSIOS" -> 12648
      [] name = "HANGUL LETTER RIEUL-KIYEOK-SIOS" -> 12649
      [] name = "HANGUL LETTER RIEUL-TIKEUT" -> 12650
      [] name = "HANGUL LETTER RIEUL-PIEUP-SIOS" -> 12651
      [] name = "HANGUL LETTER RIEUL-PANSIOS" -> 12652
      [] name = "HANGUL LETTER RIEUL-YEORINHIEUH" -> 12653
      [] name = "HANGUL LETTER MIEUM-PIEUP" -> 12654
      [] name = "HANGUL LETTER MIEUM-SIOS" -> 12655
      [] name = "HANGUL LETTER MIEUM-PANSIOS" -> 12656
      [] name = "HANGUL LETTER KAPYEOUNMIEUM" -> 12657
      [] name = "HANGUL LETTER PIEUP-KIYEOK" -> 12658
      [] name = "HANGUL LETTER PIEUP-TIKEUT" -> 12659
      [] name = "HANGUL LETTER PIEUP-SIOS-KIYEOK" -> 12660
      [] name = "HANGUL LETTER PIEUP-SIOS-TIKEUT" -> 12661
      [] name = "HANGUL LETTER PIEUP-CIEUC" -> 12662
      [] name = "HANGUL LETTER PIEUP-THIEUTH" -> 12663
      [] name = "HANGUL LETTER KAPYEOUNPIEUP" -> 12664
      [] name = "HANGUL LETTER KAPYEOUNSSANGPIEUP" -> 12665
      [] name = "HANGUL LETTER SIOS-KIYEOK" -> 12666
      [] name = "HANGUL LETTER SIOS-NIEUN" -> 12667
      [] name = "HANGUL LETTER SIOS-TIKEUT" -> 12668
      [] name = "HANGUL LETTER SIOS-PIEUP" -> 12669
      [] name = "HANGUL LETTER SIOS-CIEUC" -> 12670
      [] name = "HANGUL LETTER PANSIOS" -> 12671
      [] name = "HANGUL LETTER SSANGIEUNG" -> 12672
      [] name = "HANGUL LETTER YESIEUNG" -> 12673
      [] name = "HANGUL LETTER YESIEUNG-SIOS" -> 12674
      [] name = "HANGUL LETTER YESIEUNG-PANSIOS" -> 12675
      [] name = "HANGUL LETTER KAPYEOUNPHIEUPH" -> 12676
      [] name = "HANGUL LETTER SSANGHIEUH" -> 12677
      [] name = "HANGUL LETTER YEORINHIEUH" -> 12678
      [] name = "HANGUL LETTER YO-YA" -> 12679
      [] name = "HANGUL LETTER YO-YAE" -> 12680
      [] name = "HANGUL LETTER YO-I" -> 12681
      [] name = "HANGUL LETTER YU-YEO" -> 12682
      [] name = "HANGUL LETTER YU-YE" -> 12683
      [] name = "HANGUL LETTER YU-I" -> 12684
      [] name = "HANGUL LETTER ARAEA" -> 12685
      [] name = "HANGUL LETTER ARAEAE" -> 12686
      [] name = "IDEOGRAPHIC ANNOTATION LINKING MARK" -> 12688
      [] name = "IDEOGRAPHIC ANNOTATION REVERSE MARK" -> 12689
      [] name = "IDEOGRAPHIC ANNOTATION ONE MARK" -> 12690
      [] name = "IDEOGRAPHIC ANNOTATION TWO MARK" -> 12691
      [] name = "IDEOGRAPHIC ANNOTATION THREE MARK" -> 12692
      [] name = "IDEOGRAPHIC ANNOTATION FOUR MARK" -> 12693
      [] name = "IDEOGRAPHIC ANNOTATION TOP MARK" -> 12694
      [] name = "IDEOGRAPHIC ANNOTATION MIDDLE MARK" -> 12695
      [] name = "IDEOGRAPHIC ANNOTATION BOTTOM MARK" -> 12696
      [] name = "IDEOGRAPHIC ANNOTATION FIRST MARK" -> 12697
      [] name = "IDEOGRAPHIC ANNOTATION SECOND MARK" -> 12698
      [] name = "IDEOGRAPHIC ANNOTATION THIRD MARK" -> 12699
      [] name = "IDEOGRAPHIC ANNOTATION FOURTH MARK" -> 12700
      [] name = "IDEOGRAPHIC ANNOTATION HEAVEN MARK" -> 12701
      [] name = "IDEOGRAPHIC ANNOTATION EARTH MARK" -> 12702
      [] name = "IDEOGRAPHIC ANNOTATION MAN MARK" -> 12703
      [] name = "BOPOMOFO LETTER BU" -> 12704
      [] name = "BOPOMOFO LETTER ZI" -> 12705
      [] name = "BOPOMOFO LETTER JI" -> 12706
      [] name = "BOPOMOFO LETTER GU" -> 12707
      [] name = "BOPOMOFO LETTER EE" -> 12708
      [] name = "BOPOMOFO LETTER ENN" -> 12709
      [] name = "BOPOMOFO LETTER OO" -> 12710
      [] name = "BOPOMOFO LETTER ONN" -> 12711
      [] name = "BOPOMOFO LETTER IR" -> 12712
      [] name = "BOPOMOFO LETTER ANN" -> 12713
      [] name = "BOPOMOFO LETTER INN" -> 12714
      [] name = "BOPOMOFO LETTER UNN" -> 12715
      [] name = "BOPOMOFO LETTER IM" -> 12716
      [] name = "BOPOMOFO LETTER NGG" -> 12717
      [] name = "BOPOMOFO LETTER AINN" -> 12718
      [] name = "BOPOMOFO LETTER AUNN" -> 12719
      [] name = "BOPOMOFO LETTER AM" -> 12720
      [] name = "BOPOMOFO LETTER OM" -> 12721
      [] name = "BOPOMOFO LETTER ONG" -> 12722
      [] name = "BOPOMOFO LETTER INNN" -> 12723
      [] name = "BOPOMOFO FINAL LETTER P" -> 12724
      [] name = "BOPOMOFO FINAL LETTER T" -> 12725
      [] name = "BOPOMOFO FINAL LETTER K" -> 12726
      [] name = "BOPOMOFO FINAL LETTER H" -> 12727
      [] name = "BOPOMOFO LETTER GH" -> 12728
      [] name = "BOPOMOFO LETTER LH" -> 12729
      [] name = "BOPOMOFO LETTER ZY" -> 12730
      [] name = "BOPOMOFO FINAL LETTER G" -> 12731
      [] name = "BOPOMOFO LETTER GW" -> 12732
      [] name = "BOPOMOFO LETTER KW" -> 12733
      [] name = "BOPOMOFO LETTER OE" -> 12734
      [] name = "BOPOMOFO LETTER AH" -> 12735
      [] name = "CJK STROKE T" -> 12736
      [] name = "CJK STROKE WG" -> 12737
      [] name = "CJK STROKE XG" -> 12738
      [] name = "CJK STROKE BXG" -> 12739
      [] name = "CJK STROKE SW" -> 12740
      [] name = "CJK STROKE HZZ" -> 12741
      [] name = "CJK STROKE HZG" -> 12742
      [] name = "CJK STROKE HP" -> 12743
      [] name = "CJK STROKE HZWG" -> 12744
      [] name = "CJK STROKE SZWG" -> 12745
      [] name = "CJK STROKE HZT" -> 12746
      [] name = "CJK STROKE HZZP" -> 12747
      [] name = "CJK STROKE HPWG" -> 12748
      [] name = "CJK STROKE HZW" -> 12749
      [] name = "CJK STROKE HZZZ" -> 12750
      [] name = "CJK STROKE N" -> 12751
      [] name = "CJK STROKE H" -> 12752
      [] name = "CJK STROKE S" -> 12753
      [] name = "CJK STROKE P" -> 12754
      [] name = "CJK STROKE SP" -> 12755
      [] name = "CJK STROKE D" -> 12756
      [] name = "CJK STROKE HZ" -> 12757
      [] name = "CJK STROKE HG" -> 12758
      [] name = "CJK STROKE SZ" -> 12759
      [] name = "CJK STROKE SWZ" -> 12760
      [] name = "CJK STROKE ST" -> 12761
      [] name = "CJK STROKE SG" -> 12762
      [] name = "CJK STROKE PD" -> 12763
      [] name = "CJK STROKE PZ" -> 12764
      [] name = "CJK STROKE TN" -> 12765
      [] name = "CJK STROKE SZZ" -> 12766
      [] name = "CJK STROKE SWG" -> 12767
      [] name = "CJK STROKE HXWG" -> 12768
      [] name = "CJK STROKE HZZZG" -> 12769
      [] name = "CJK STROKE PG" -> 12770
      [] name = "CJK STROKE Q" -> 12771
      [] name = "KATAKANA LETTER SMALL KU" -> 12784
      [] name = "KATAKANA LETTER SMALL SI" -> 12785
      [] name = "KATAKANA LETTER SMALL SU" -> 12786
      [] name = "KATAKANA LETTER SMALL TO" -> 12787
      [] name = "KATAKANA LETTER SMALL NU" -> 12788
      [] name = "KATAKANA LETTER SMALL HA" -> 12789
      [] name = "KATAKANA LETTER SMALL HI" -> 12790
      [] name = "KATAKANA LETTER SMALL HU" -> 12791
      [] name = "KATAKANA LETTER SMALL HE" -> 12792
      [] name = "KATAKANA LETTER SMALL HO" -> 12793
      [] name = "KATAKANA LETTER SMALL MU" -> 12794
      [] name = "KATAKANA LETTER SMALL RA" -> 12795
      [] name = "KATAKANA LETTER SMALL RI" -> 12796
      [] name = "KATAKANA LETTER SMALL RU" -> 12797
      [] name = "KATAKANA LETTER SMALL RE" -> 12798
      [] name = "KATAKANA LETTER SMALL RO" -> 12799
      [] name = "PARENTHESIZED HANGUL KIYEOK" -> 12800
      [] name = "PARENTHESIZED HANGUL NIEUN" -> 12801
      [] name = "PARENTHESIZED HANGUL TIKEUT" -> 12802
      [] name = "PARENTHESIZED HANGUL RIEUL" -> 12803
      [] name = "PARENTHESIZED HANGUL MIEUM" -> 12804
      [] name = "PARENTHESIZED HANGUL PIEUP" -> 12805
      [] name = "PARENTHESIZED HANGUL SIOS" -> 12806
      [] name = "PARENTHESIZED HANGUL IEUNG" -> 12807
      [] name = "PARENTHESIZED HANGUL CIEUC" -> 12808
      [] name = "PARENTHESIZED HANGUL CHIEUCH" -> 12809
      [] name = "PARENTHESIZED HANGUL KHIEUKH" -> 12810
      [] name = "PARENTHESIZED HANGUL THIEUTH" -> 12811
      [] name = "PARENTHESIZED HANGUL PHIEUPH" -> 12812
      [] name = "PARENTHESIZED HANGUL HIEUH" -> 12813
      [] name = "PARENTHESIZED HANGUL KIYEOK A" -> 12814
      [] name = "PARENTHESIZED HANGUL NIEUN A" -> 12815
      [] name = "PARENTHESIZED HANGUL TIKEUT A" -> 12816
      [] name = "PARENTHESIZED HANGUL RIEUL A" -> 12817
      [] name = "PARENTHESIZED HANGUL MIEUM A" -> 12818
      [] name = "PARENTHESIZED HANGUL PIEUP A" -> 12819
      [] name = "PARENTHESIZED HANGUL SIOS A" -> 12820
      [] name = "PARENTHESIZED HANGUL IEUNG A" -> 12821
      [] name = "PARENTHESIZED HANGUL CIEUC A" -> 12822
      [] name = "PARENTHESIZED HANGUL CHIEUCH A" -> 12823
      [] name = "PARENTHESIZED HANGUL KHIEUKH A" -> 12824
      [] name = "PARENTHESIZED HANGUL THIEUTH A" -> 12825
      [] name = "PARENTHESIZED HANGUL PHIEUPH A" -> 12826
      [] name = "PARENTHESIZED HANGUL HIEUH A" -> 12827
      [] name = "PARENTHESIZED HANGUL CIEUC U" -> 12828
      [] name = "PARENTHESIZED KOREAN CHARACTER OJEON" -> 12829
      [] name = "PARENTHESIZED KOREAN CHARACTER O HU" -> 12830
      [] name = "PARENTHESIZED IDEOGRAPH ONE" -> 12832
      [] name = "PARENTHESIZED IDEOGRAPH TWO" -> 12833
      [] name = "PARENTHESIZED IDEOGRAPH THREE" -> 12834
      [] name = "PARENTHESIZED IDEOGRAPH FOUR" -> 12835
      [] name = "PARENTHESIZED IDEOGRAPH FIVE" -> 12836
      [] name = "PARENTHESIZED IDEOGRAPH SIX" -> 12837
      [] name = "PARENTHESIZED IDEOGRAPH SEVEN" -> 12838
      [] name = "PARENTHESIZED IDEOGRAPH EIGHT" -> 12839
      [] name = "PARENTHESIZED IDEOGRAPH NINE" -> 12840
      [] name = "PARENTHESIZED IDEOGRAPH TEN" -> 12841
      [] name = "PARENTHESIZED IDEOGRAPH MOON" -> 12842
      [] name = "PARENTHESIZED IDEOGRAPH FIRE" -> 12843
      [] name = "PARENTHESIZED IDEOGRAPH WATER" -> 12844
      [] name = "PARENTHESIZED IDEOGRAPH WOOD" -> 12845
      [] name = "PARENTHESIZED IDEOGRAPH METAL" -> 12846
      [] name = "PARENTHESIZED IDEOGRAPH EARTH" -> 12847
      [] name = "PARENTHESIZED IDEOGRAPH SUN" -> 12848
      [] name = "PARENTHESIZED IDEOGRAPH STOCK" -> 12849
      [] name = "PARENTHESIZED IDEOGRAPH HAVE" -> 12850
      [] name = "PARENTHESIZED IDEOGRAPH SOCIETY" -> 12851
      [] name = "PARENTHESIZED IDEOGRAPH NAME" -> 12852
      [] name = "PARENTHESIZED IDEOGRAPH SPECIAL" -> 12853
      [] name = "PARENTHESIZED IDEOGRAPH FINANCIAL" -> 12854
      [] name = "PARENTHESIZED IDEOGRAPH CONGRATULATION" -> 12855
      [] name = "PARENTHESIZED IDEOGRAPH LABOR" -> 12856
      [] name = "PARENTHESIZED IDEOGRAPH REPRESENT" -> 12857
      [] name = "PARENTHESIZED IDEOGRAPH CALL" -> 12858
      [] name = "PARENTHESIZED IDEOGRAPH STUDY" -> 12859
      [] name = "PARENTHESIZED IDEOGRAPH SUPERVISE" -> 12860
      [] name = "PARENTHESIZED IDEOGRAPH ENTERPRISE" -> 12861
      [] name = "PARENTHESIZED IDEOGRAPH RESOURCE" -> 12862
      [] name = "PARENTHESIZED IDEOGRAPH ALLIANCE" -> 12863
      [] name = "PARENTHESIZED IDEOGRAPH FESTIVAL" -> 12864
      [] name = "PARENTHESIZED IDEOGRAPH REST" -> 12865
      [] name = "PARENTHESIZED IDEOGRAPH SELF" -> 12866
      [] name = "PARENTHESIZED IDEOGRAPH REACH" -> 12867
      [] name = "CIRCLED IDEOGRAPH QUESTION" -> 12868
      [] name = "CIRCLED IDEOGRAPH KINDERGARTEN" -> 12869
      [] name = "CIRCLED IDEOGRAPH SCHOOL" -> 12870
      [] name = "CIRCLED IDEOGRAPH KOTO" -> 12871
      [] name = "CIRCLED NUMBER TEN ON BLACK SQUARE" -> 12872
      [] name = "CIRCLED NUMBER TWENTY ON BLACK SQUARE" -> 12873
      [] name = "CIRCLED NUMBER THIRTY ON BLACK SQUARE" -> 12874
      [] name = "CIRCLED NUMBER FORTY ON BLACK SQUARE" -> 12875
      [] name = "CIRCLED NUMBER FIFTY ON BLACK SQUARE" -> 12876
      [] name = "CIRCLED NUMBER SIXTY ON BLACK SQUARE" -> 12877
      [] name = "CIRCLED NUMBER SEVENTY ON BLACK SQUARE" -> 12878
      [] name = "CIRCLED NUMBER EIGHTY ON BLACK SQUARE" -> 12879
      [] name = "PARTNERSHIP SIGN" -> 12880
      [] name = "CIRCLED NUMBER TWENTY ONE" -> 12881
      [] name = "CIRCLED NUMBER TWENTY TWO" -> 12882
      [] name = "CIRCLED NUMBER TWENTY THREE" -> 12883
      [] name = "CIRCLED NUMBER TWENTY FOUR" -> 12884
      [] name = "CIRCLED NUMBER TWENTY FIVE" -> 12885
      [] name = "CIRCLED NUMBER TWENTY SIX" -> 12886
      [] name = "CIRCLED NUMBER TWENTY SEVEN" -> 12887
      [] name = "CIRCLED NUMBER TWENTY EIGHT" -> 12888
      [] name = "CIRCLED NUMBER TWENTY NINE" -> 12889
      [] name = "CIRCLED NUMBER THIRTY" -> 12890
      [] name = "CIRCLED NUMBER THIRTY ONE" -> 12891
      [] name = "CIRCLED NUMBER THIRTY TWO" -> 12892
      [] name = "CIRCLED NUMBER THIRTY THREE" -> 12893
      [] name = "CIRCLED NUMBER THIRTY FOUR" -> 12894
      [] name = "CIRCLED NUMBER THIRTY FIVE" -> 12895
      [] name = "CIRCLED HANGUL KIYEOK" -> 12896
      [] name = "CIRCLED HANGUL NIEUN" -> 12897
      [] name = "CIRCLED HANGUL TIKEUT" -> 12898
      [] name = "CIRCLED HANGUL RIEUL" -> 12899
      [] name = "CIRCLED HANGUL MIEUM" -> 12900
      [] name = "CIRCLED HANGUL PIEUP" -> 12901
      [] name = "CIRCLED HANGUL SIOS" -> 12902
      [] name = "CIRCLED HANGUL IEUNG" -> 12903
      [] name = "CIRCLED HANGUL CIEUC" -> 12904
      [] name = "CIRCLED HANGUL CHIEUCH" -> 12905
      [] name = "CIRCLED HANGUL KHIEUKH" -> 12906
      [] name = "CIRCLED HANGUL THIEUTH" -> 12907
      [] name = "CIRCLED HANGUL PHIEUPH" -> 12908
      [] name = "CIRCLED HANGUL HIEUH" -> 12909
      [] name = "CIRCLED HANGUL KIYEOK A" -> 12910
      [] name = "CIRCLED HANGUL NIEUN A" -> 12911
      [] name = "CIRCLED HANGUL TIKEUT A" -> 12912
      [] name = "CIRCLED HANGUL RIEUL A" -> 12913
      [] name = "CIRCLED HANGUL MIEUM A" -> 12914
      [] name = "CIRCLED HANGUL PIEUP A" -> 12915
      [] name = "CIRCLED HANGUL SIOS A" -> 12916
      [] name = "CIRCLED HANGUL IEUNG A" -> 12917
      [] name = "CIRCLED HANGUL CIEUC A" -> 12918
      [] name = "CIRCLED HANGUL CHIEUCH A" -> 12919
      [] name = "CIRCLED HANGUL KHIEUKH A" -> 12920
      [] name = "CIRCLED HANGUL THIEUTH A" -> 12921
      [] name = "CIRCLED HANGUL PHIEUPH A" -> 12922
      [] name = "CIRCLED HANGUL HIEUH A" -> 12923
      [] name = "CIRCLED KOREAN CHARACTER CHAMKO" -> 12924
      [] name = "CIRCLED KOREAN CHARACTER JUEUI" -> 12925
      [] name = "CIRCLED HANGUL IEUNG U" -> 12926
      [] name = "KOREAN STANDARD SYMBOL" -> 12927
      [] name = "CIRCLED IDEOGRAPH ONE" -> 12928
      [] name = "CIRCLED IDEOGRAPH TWO" -> 12929
      [] name = "CIRCLED IDEOGRAPH THREE" -> 12930
      [] name = "CIRCLED IDEOGRAPH FOUR" -> 12931
      [] name = "CIRCLED IDEOGRAPH FIVE" -> 12932
      [] name = "CIRCLED IDEOGRAPH SIX" -> 12933
      [] name = "CIRCLED IDEOGRAPH SEVEN" -> 12934
      [] name = "CIRCLED IDEOGRAPH EIGHT" -> 12935
      [] name = "CIRCLED IDEOGRAPH NINE" -> 12936
      [] name = "CIRCLED IDEOGRAPH TEN" -> 12937
      [] name = "CIRCLED IDEOGRAPH MOON" -> 12938
      [] name = "CIRCLED IDEOGRAPH FIRE" -> 12939
      [] name = "CIRCLED IDEOGRAPH WATER" -> 12940
      [] name = "CIRCLED IDEOGRAPH WOOD" -> 12941
      [] name = "CIRCLED IDEOGRAPH METAL" -> 12942
      [] name = "CIRCLED IDEOGRAPH EARTH" -> 12943
      [] name = "CIRCLED IDEOGRAPH SUN" -> 12944
      [] name = "CIRCLED IDEOGRAPH STOCK" -> 12945
      [] name = "CIRCLED IDEOGRAPH HAVE" -> 12946
      [] name = "CIRCLED IDEOGRAPH SOCIETY" -> 12947
      [] name = "CIRCLED IDEOGRAPH NAME" -> 12948
      [] name = "CIRCLED IDEOGRAPH SPECIAL" -> 12949
      [] name = "CIRCLED IDEOGRAPH FINANCIAL" -> 12950
      [] name = "CIRCLED IDEOGRAPH CONGRATULATION" -> 12951
      [] name = "CIRCLED IDEOGRAPH LABOR" -> 12952
      [] name = "CIRCLED IDEOGRAPH SECRET" -> 12953
      [] name = "CIRCLED IDEOGRAPH MALE" -> 12954
      [] name = "CIRCLED IDEOGRAPH FEMALE" -> 12955
      [] name = "CIRCLED IDEOGRAPH SUITABLE" -> 12956
      [] name = "CIRCLED IDEOGRAPH EXCELLENT" -> 12957
      [] name = "CIRCLED IDEOGRAPH PRINT" -> 12958
      [] name = "CIRCLED IDEOGRAPH ATTENTION" -> 12959
      [] name = "CIRCLED IDEOGRAPH ITEM" -> 12960
      [] name = "CIRCLED IDEOGRAPH REST" -> 12961
      [] name = "CIRCLED IDEOGRAPH COPY" -> 12962
      [] name = "CIRCLED IDEOGRAPH CORRECT" -> 12963
      [] name = "CIRCLED IDEOGRAPH HIGH" -> 12964
      [] name = "CIRCLED IDEOGRAPH CENTRE" -> 12965
      [] name = "CIRCLED IDEOGRAPH LOW" -> 12966
      [] name = "CIRCLED IDEOGRAPH LEFT" -> 12967
      [] name = "CIRCLED IDEOGRAPH RIGHT" -> 12968
      [] name = "CIRCLED IDEOGRAPH MEDICINE" -> 12969
      [] name = "CIRCLED IDEOGRAPH RELIGION" -> 12970
      [] name = "CIRCLED IDEOGRAPH STUDY" -> 12971
      [] name = "CIRCLED IDEOGRAPH SUPERVISE" -> 12972
      [] name = "CIRCLED IDEOGRAPH ENTERPRISE" -> 12973
      [] name = "CIRCLED IDEOGRAPH RESOURCE" -> 12974
      [] name = "CIRCLED IDEOGRAPH ALLIANCE" -> 12975
      [] name = "CIRCLED IDEOGRAPH NIGHT" -> 12976
      [] name = "CIRCLED NUMBER THIRTY SIX" -> 12977
      [] name = "CIRCLED NUMBER THIRTY SEVEN" -> 12978
      [] name = "CIRCLED NUMBER THIRTY EIGHT" -> 12979
      [] name = "CIRCLED NUMBER THIRTY NINE" -> 12980
      [] name = "CIRCLED NUMBER FORTY" -> 12981
      [] name = "CIRCLED NUMBER FORTY ONE" -> 12982
      [] name = "CIRCLED NUMBER FORTY TWO" -> 12983
      [] name = "CIRCLED NUMBER FORTY THREE" -> 12984
      [] name = "CIRCLED NUMBER FORTY FOUR" -> 12985
      [] name = "CIRCLED NUMBER FORTY FIVE" -> 12986
      [] name = "CIRCLED NUMBER FORTY SIX" -> 12987
      [] name = "CIRCLED NUMBER FORTY SEVEN" -> 12988
      [] name = "CIRCLED NUMBER FORTY EIGHT" -> 12989
      [] name = "CIRCLED NUMBER FORTY NINE" -> 12990
      [] name = "CIRCLED NUMBER FIFTY" -> 12991
      [] name = "IDEOGRAPHIC TELEGRAPH SYMBOL FOR JANUARY" -> 12992
      [] name = "IDEOGRAPHIC TELEGRAPH SYMBOL FOR FEBRUARY" -> 12993
      [] name = "IDEOGRAPHIC TELEGRAPH SYMBOL FOR MARCH" -> 12994
      [] name = "IDEOGRAPHIC TELEGRAPH SYMBOL FOR APRIL" -> 12995
      [] name = "IDEOGRAPHIC TELEGRAPH SYMBOL FOR MAY" -> 12996
      [] name = "IDEOGRAPHIC TELEGRAPH SYMBOL FOR JUNE" -> 12997
      [] name = "IDEOGRAPHIC TELEGRAPH SYMBOL FOR JULY" -> 12998
      [] name = "IDEOGRAPHIC TELEGRAPH SYMBOL FOR AUGUST" -> 12999
      [] name = "IDEOGRAPHIC TELEGRAPH SYMBOL FOR SEPTEMBER" -> 13000
      [] name = "IDEOGRAPHIC TELEGRAPH SYMBOL FOR OCTOBER" -> 13001
      [] name = "IDEOGRAPHIC TELEGRAPH SYMBOL FOR NOVEMBER" -> 13002
      [] name = "IDEOGRAPHIC TELEGRAPH SYMBOL FOR DECEMBER" -> 13003
      [] name = "SQUARE HG" -> 13004
      [] name = "SQUARE ERG" -> 13005
      [] name = "SQUARE EV" -> 13006
      [] name = "LIMITED LIABILITY SIGN" -> 13007
      [] name = "CIRCLED KATAKANA A" -> 13008
      [] name = "CIRCLED KATAKANA I" -> 13009
      [] name = "CIRCLED KATAKANA U" -> 13010
      [] name = "CIRCLED KATAKANA E" -> 13011
      [] name = "CIRCLED KATAKANA O" -> 13012
      [] name = "CIRCLED KATAKANA KA" -> 13013
      [] name = "CIRCLED KATAKANA KI" -> 13014
      [] name = "CIRCLED KATAKANA KU" -> 13015
      [] name = "CIRCLED KATAKANA KE" -> 13016
      [] name = "CIRCLED KATAKANA KO" -> 13017
      [] name = "CIRCLED KATAKANA SA" -> 13018
      [] name = "CIRCLED KATAKANA SI" -> 13019
      [] name = "CIRCLED KATAKANA SU" -> 13020
      [] name = "CIRCLED KATAKANA SE" -> 13021
      [] name = "CIRCLED KATAKANA SO" -> 13022
      [] name = "CIRCLED KATAKANA TA" -> 13023
      [] name = "CIRCLED KATAKANA TI" -> 13024
      [] name = "CIRCLED KATAKANA TU" -> 13025
      [] name = "CIRCLED KATAKANA TE" -> 13026
      [] name = "CIRCLED KATAKANA TO" -> 13027
      [] name = "CIRCLED KATAKANA NA" -> 13028
      [] name = "CIRCLED KATAKANA NI" -> 13029
      [] name = "CIRCLED KATAKANA NU" -> 13030
      [] name = "CIRCLED KATAKANA NE" -> 13031
      [] name = "CIRCLED KATAKANA NO" -> 13032
      [] name = "CIRCLED KATAKANA HA" -> 13033
      [] name = "CIRCLED KATAKANA HI" -> 13034
      [] name = "CIRCLED KATAKANA HU" -> 13035
      [] name = "CIRCLED KATAKANA HE" -> 13036
      [] name = "CIRCLED KATAKANA HO" -> 13037
      [] name = "CIRCLED KATAKANA MA" -> 13038
      [] name = "CIRCLED KATAKANA MI" -> 13039
      [] name = "CIRCLED KATAKANA MU" -> 13040
      [] name = "CIRCLED KATAKANA ME" -> 13041
      [] name = "CIRCLED KATAKANA MO" -> 13042
      [] name = "CIRCLED KATAKANA YA" -> 13043
      [] name = "CIRCLED KATAKANA YU" -> 13044
      [] name = "CIRCLED KATAKANA YO" -> 13045
      [] name = "CIRCLED KATAKANA RA" -> 13046
      [] name = "CIRCLED KATAKANA RI" -> 13047
      [] name = "CIRCLED KATAKANA RU" -> 13048
      [] name = "CIRCLED KATAKANA RE" -> 13049
      [] name = "CIRCLED KATAKANA RO" -> 13050
      [] name = "CIRCLED KATAKANA WA" -> 13051
      [] name = "CIRCLED KATAKANA WI" -> 13052
      [] name = "CIRCLED KATAKANA WE" -> 13053
      [] name = "CIRCLED KATAKANA WO" -> 13054
      [] name = "SQUARE ERA NAME REIWA" -> 13055
      [] name = "SQUARE APAATO" -> 13056
      [] name = "SQUARE ARUHUA" -> 13057
      [] name = "SQUARE ANPEA" -> 13058
      [] name = "SQUARE AARU" -> 13059
      [] name = "SQUARE ININGU" -> 13060
      [] name = "SQUARE INTI" -> 13061
      [] name = "SQUARE UON" -> 13062
      [] name = "SQUARE ESUKUUDO" -> 13063
      [] name = "SQUARE EEKAA" -> 13064
      [] name = "SQUARE ONSU" -> 13065
      [] name = "SQUARE OOMU" -> 13066
      [] name = "SQUARE KAIRI" -> 13067
      [] name = "SQUARE KARATTO" -> 13068
      [] name = "SQUARE KARORII" -> 13069
      [] name = "SQUARE GARON" -> 13070
      [] name = "SQUARE GANMA" -> 13071
      [] name = "SQUARE GIGA" -> 13072
      [] name = "SQUARE GINII" -> 13073
      [] name = "SQUARE KYURII" -> 13074
      [] name = "SQUARE GIRUDAA" -> 13075
      [] name = "SQUARE KIRO" -> 13076
      [] name = "SQUARE KIROGURAMU" -> 13077
      [] name = "SQUARE KIROMEETORU" -> 13078
      [] name = "SQUARE KIROWATTO" -> 13079
      [] name = "SQUARE GURAMU" -> 13080
      [] name = "SQUARE GURAMUTON" -> 13081
      [] name = "SQUARE KURUZEIRO" -> 13082
      [] name = "SQUARE KUROONE" -> 13083
      [] name = "SQUARE KEESU" -> 13084
      [] name = "SQUARE KORUNA" -> 13085
      [] name = "SQUARE KOOPO" -> 13086
      [] name = "SQUARE SAIKURU" -> 13087
      [] name = "SQUARE SANTIIMU" -> 13088
      [] name = "SQUARE SIRINGU" -> 13089
      [] name = "SQUARE SENTI" -> 13090
      [] name = "SQUARE SENTO" -> 13091
      [] name = "SQUARE DAASU" -> 13092
      [] name = "SQUARE DESI" -> 13093
      [] name = "SQUARE DORU" -> 13094
      [] name = "SQUARE TON" -> 13095
      [] name = "SQUARE NANO" -> 13096
      [] name = "SQUARE NOTTO" -> 13097
      [] name = "SQUARE HAITU" -> 13098
      [] name = "SQUARE PAASENTO" -> 13099
      [] name = "SQUARE PAATU" -> 13100
      [] name = "SQUARE BAARERU" -> 13101
      [] name = "SQUARE PIASUTORU" -> 13102
      [] name = "SQUARE PIKURU" -> 13103
      [] name = "SQUARE PIKO" -> 13104
      [] name = "SQUARE BIRU" -> 13105
      [] name = "SQUARE HUARADDO" -> 13106
      [] name = "SQUARE HUIITO" -> 13107
      [] name = "SQUARE BUSSYERU" -> 13108
      [] name = "SQUARE HURAN" -> 13109
      [] name = "SQUARE HEKUTAARU" -> 13110
      [] name = "SQUARE PESO" -> 13111
      [] name = "SQUARE PENIHI" -> 13112
      [] name = "SQUARE HERUTU" -> 13113
      [] name = "SQUARE PENSU" -> 13114
      [] name = "SQUARE PEEZI" -> 13115
      [] name = "SQUARE BEETA" -> 13116
      [] name = "SQUARE POINTO" -> 13117
      [] name = "SQUARE BORUTO" -> 13118
      [] name = "SQUARE HON" -> 13119
      [] name = "SQUARE PONDO" -> 13120
      [] name = "SQUARE HOORU" -> 13121
      [] name = "SQUARE HOON" -> 13122
      [] name = "SQUARE MAIKURO" -> 13123
      [] name = "SQUARE MAIRU" -> 13124
      [] name = "SQUARE MAHHA" -> 13125
      [] name = "SQUARE MARUKU" -> 13126
      [] name = "SQUARE MANSYON" -> 13127
      [] name = "SQUARE MIKURON" -> 13128
      [] name = "SQUARE MIRI" -> 13129
      [] name = "SQUARE MIRIBAARU" -> 13130
      [] name = "SQUARE MEGA" -> 13131
      [] name = "SQUARE MEGATON" -> 13132
      [] name = "SQUARE MEETORU" -> 13133
      [] name = "SQUARE YAADO" -> 13134
      [] name = "SQUARE YAARU" -> 13135
      [] name = "SQUARE YUAN" -> 13136
      [] name = "SQUARE RITTORU" -> 13137
      [] name = "SQUARE RIRA" -> 13138
      [] name = "SQUARE RUPII" -> 13139
      [] name = "SQUARE RUUBURU" -> 13140
      [] name = "SQUARE REMU" -> 13141
      [] name = "SQUARE RENTOGEN" -> 13142
      [] name = "SQUARE WATTO" -> 13143
      [] name = "IDEOGRAPHIC TELEGRAPH SYMBOL FOR HOUR ZERO" -> 13144
      [] name = "IDEOGRAPHIC TELEGRAPH SYMBOL FOR HOUR ONE" -> 13145
      [] name = "IDEOGRAPHIC TELEGRAPH SYMBOL FOR HOUR TWO" -> 13146
      [] name = "IDEOGRAPHIC TELEGRAPH SYMBOL FOR HOUR THREE" -> 13147
      [] name = "IDEOGRAPHIC TELEGRAPH SYMBOL FOR HOUR FOUR" -> 13148
      [] name = "IDEOGRAPHIC TELEGRAPH SYMBOL FOR HOUR FIVE" -> 13149
      [] name = "IDEOGRAPHIC TELEGRAPH SYMBOL FOR HOUR SIX" -> 13150
      [] name = "IDEOGRAPHIC TELEGRAPH SYMBOL FOR HOUR SEVEN" -> 13151
      [] name = "IDEOGRAPHIC TELEGRAPH SYMBOL FOR HOUR EIGHT" -> 13152
      [] name = "IDEOGRAPHIC TELEGRAPH SYMBOL FOR HOUR NINE" -> 13153
      [] name = "IDEOGRAPHIC TELEGRAPH SYMBOL FOR HOUR TEN" -> 13154
      [] name = "IDEOGRAPHIC TELEGRAPH SYMBOL FOR HOUR ELEVEN" -> 13155
      [] name = "IDEOGRAPHIC TELEGRAPH SYMBOL FOR HOUR TWELVE" -> 13156
      [] name = "IDEOGRAPHIC TELEGRAPH SYMBOL FOR HOUR THIRTEEN" -> 13157
      [] name = "IDEOGRAPHIC TELEGRAPH SYMBOL FOR HOUR FOURTEEN" -> 13158
      [] name = "IDEOGRAPHIC TELEGRAPH SYMBOL FOR HOUR FIFTEEN" -> 13159
      [] name = "IDEOGRAPHIC TELEGRAPH SYMBOL FOR HOUR SIXTEEN" -> 13160
      [] name = "IDEOGRAPHIC TELEGRAPH SYMBOL FOR HOUR SEVENTEEN" -> 13161
      [] name = "IDEOGRAPHIC TELEGRAPH SYMBOL FOR HOUR EIGHTEEN" -> 13162
      [] name = "IDEOGRAPHIC TELEGRAPH SYMBOL FOR HOUR NINETEEN" -> 13163
      [] name = "IDEOGRAPHIC TELEGRAPH SYMBOL FOR HOUR TWENTY" -> 13164
      [] name = "IDEOGRAPHIC TELEGRAPH SYMBOL FOR HOUR TWENTY-ONE" -> 13165
      [] name = "IDEOGRAPHIC TELEGRAPH SYMBOL FOR HOUR TWENTY-TWO" -> 13166
      [] name = "IDEOGRAPHIC TELEGRAPH SYMBOL FOR HOUR TWENTY-THREE" -> 13167
      [] name = "IDEOGRAPHIC TELEGRAPH SYMBOL FOR HOUR TWENTY-FOUR" -> 13168
      [] name = "SQUARE HPA" -> 13169
      [] name = "SQUARE DA" -> 13170
      [] name = "SQUARE AU" -> 13171
      [] name = "SQUARE BAR" -> 13172
      [] name = "SQUARE OV" -> 13173
      [] name = "SQUARE PC" -> 13174
      [] name = "SQUARE DM" -> 13175
      [] name = "SQUARE DM SQUARED" -> 13176
      [] name = "SQUARE DM CUBED" -> 13177
      [] name = "SQUARE IU" -> 13178
      [] name = "SQUARE ERA NAME HEISEI" -> 13179
      [] name = "SQUARE ERA NAME SYOUWA" -> 13180
      [] name = "SQUARE ERA NAME TAISYOU" -> 13181
      [] name = "SQUARE ERA NAME MEIZI" -> 13182
      [] name = "SQUARE CORPORATION" -> 13183
      [] name = "SQUARE PA AMPS" -> 13184
      [] name = "SQUARE NA" -> 13185
      [] name = "SQUARE MU A" -> 13186
      [] name = "SQUARE MA" -> 13187
      [] name = "SQUARE KA" -> 13188
      [] name = "SQUARE KB" -> 13189
      [] name = "SQUARE MB" -> 13190
      [] name = "SQUARE GB" -> 13191
      [] name = "SQUARE CAL" -> 13192
      [] name = "SQUARE KCAL" -> 13193
      [] name = "SQUARE PF" -> 13194
      [] name = "SQUARE NF" -> 13195
      [] name = "SQUARE MU F" -> 13196
      [] name = "SQUARE MU G" -> 13197
      [] name = "SQUARE MG" -> 13198
      [] name = "SQUARE KG" -> 13199
      [] name = "SQUARE HZ" -> 13200
      [] name = "SQUARE KHZ" -> 13201
      [] name = "SQUARE MHZ" -> 13202
      [] name = "SQUARE GHZ" -> 13203
      [] name = "SQUARE THZ" -> 13204
      [] name = "SQUARE MU L" -> 13205
      [] name = "SQUARE ML" -> 13206
      [] name = "SQUARE DL" -> 13207
      [] name = "SQUARE KL" -> 13208
      [] name = "SQUARE FM" -> 13209
      [] name = "SQUARE NM" -> 13210
      [] name = "SQUARE MU M" -> 13211
      [] name = "SQUARE MM" -> 13212
      [] name = "SQUARE CM" -> 13213
      [] name = "SQUARE KM" -> 13214
      [] name = "SQUARE MM SQUARED" -> 13215
      [] name = "SQUARE CM SQUARED" -> 13216
      [] name = "SQUARE M SQUARED" -> 13217
      [] name = "SQUARE KM SQUARED" -> 13218
      [] name = "SQUARE MM CUBED" -> 13219
      [] name = "SQUARE CM CUBED" -> 13220
      [] name = "SQUARE M CUBED" -> 13221
      [] name = "SQUARE KM CUBED" -> 13222
      [] name = "SQUARE M OVER S" -> 13223
      [] name = "SQUARE M OVER S SQUARED" -> 13224
      [] name = "SQUARE PA" -> 13225
      [] name = "SQUARE KPA" -> 13226
      [] name = "SQUARE MPA" -> 13227
      [] name = "SQUARE GPA" -> 13228
      [] name = "SQUARE RAD" -> 13229
      [] name = "SQUARE RAD OVER S" -> 13230
      [] name = "SQUARE RAD OVER S SQUARED" -> 13231
      [] name = "SQUARE PS" -> 13232
      [] name = "SQUARE NS" -> 13233
      [] name = "SQUARE MU S" -> 13234
      [] name = "SQUARE MS" -> 13235
      [] name = "SQUARE PV" -> 13236
      [] name = "SQUARE NV" -> 13237
      [] name = "SQUARE MU V" -> 13238
      [] name = "SQUARE MV" -> 13239
      [] name = "SQUARE KV" -> 13240
      [] name = "SQUARE MV MEGA" -> 13241
      [] name = "SQUARE PW" -> 13242
      [] name = "SQUARE NW" -> 13243
      [] name = "SQUARE MU W" -> 13244
      [] name = "SQUARE MW" -> 13245
      [] name = "SQUARE KW" -> 13246
      [] name = "SQUARE MW MEGA" -> 13247
      [] name = "SQUARE K OHM" -> 13248
      [] name = "SQUARE M OHM" -> 13249
      [] name = "SQUARE AM" -> 13250
      [] name = "SQUARE BQ" -> 13251
      [] name = "SQUARE CC" -> 13252
      [] name = "SQUARE CD" -> 13253
      [] name = "SQUARE C OVER KG" -> 13254
      [] name = "SQUARE CO" -> 13255
      [] name = "SQUARE DB" -> 13256
      [] name = "SQUARE GY" -> 13257
      [] name = "SQUARE HA" -> 13258
      [] name = "SQUARE HP" -> 13259
      [] name = "SQUARE IN" -> 13260
      [] name = "SQUARE KK" -> 13261
      [] name = "SQUARE KM CAPITAL" -> 13262
      [] name = "SQUARE KT" -> 13263
      [] name = "SQUARE LM" -> 13264
      [] name = "SQUARE LN" -> 13265
      [] name = "SQUARE LOG" -> 13266
      [] name = "SQUARE LX" -> 13267
      [] name = "SQUARE MB SMALL" -> 13268
      [] name = "SQUARE MIL" -> 13269
      [] name = "SQUARE MOL" -> 13270
      [] name = "SQUARE PH" -> 13271
      [] name = "SQUARE PM" -> 13272
      [] name = "SQUARE PPM" -> 13273
      [] name = "SQUARE PR" -> 13274
      [] name = "SQUARE SR" -> 13275
      [] name = "SQUARE SV" -> 13276
      [] name = "SQUARE WB" -> 13277
      [] name = "SQUARE V OVER M" -> 13278
      [] name = "SQUARE A OVER M" -> 13279
      [] name = "IDEOGRAPHIC TELEGRAPH SYMBOL FOR DAY ONE" -> 13280
      [] name = "IDEOGRAPHIC TELEGRAPH SYMBOL FOR DAY TWO" -> 13281
      [] name = "IDEOGRAPHIC TELEGRAPH SYMBOL FOR DAY THREE" -> 13282
      [] name = "IDEOGRAPHIC TELEGRAPH SYMBOL FOR DAY FOUR" -> 13283
      [] name = "IDEOGRAPHIC TELEGRAPH SYMBOL FOR DAY FIVE" -> 13284
      [] name = "IDEOGRAPHIC TELEGRAPH SYMBOL FOR DAY SIX" -> 13285
      [] name = "IDEOGRAPHIC TELEGRAPH SYMBOL FOR DAY SEVEN" -> 13286
      [] name = "IDEOGRAPHIC TELEGRAPH SYMBOL FOR DAY EIGHT" -> 13287
      [] name = "IDEOGRAPHIC TELEGRAPH SYMBOL FOR DAY NINE" -> 13288
      [] name = "IDEOGRAPHIC TELEGRAPH SYMBOL FOR DAY TEN" -> 13289
      [] name = "IDEOGRAPHIC TELEGRAPH SYMBOL FOR DAY ELEVEN" -> 13290
      [] name = "IDEOGRAPHIC TELEGRAPH SYMBOL FOR DAY TWELVE" -> 13291
      [] name = "IDEOGRAPHIC TELEGRAPH SYMBOL FOR DAY THIRTEEN" -> 13292
      [] name = "IDEOGRAPHIC TELEGRAPH SYMBOL FOR DAY FOURTEEN" -> 13293
      [] name = "IDEOGRAPHIC TELEGRAPH SYMBOL FOR DAY FIFTEEN" -> 13294
      [] name = "IDEOGRAPHIC TELEGRAPH SYMBOL FOR DAY SIXTEEN" -> 13295
      [] name = "IDEOGRAPHIC TELEGRAPH SYMBOL FOR DAY SEVENTEEN" -> 13296
      [] name = "IDEOGRAPHIC TELEGRAPH SYMBOL FOR DAY EIGHTEEN" -> 13297
      [] name = "IDEOGRAPHIC TELEGRAPH SYMBOL FOR DAY NINETEEN" -> 13298
      [] name = "IDEOGRAPHIC TELEGRAPH SYMBOL FOR DAY TWENTY" -> 13299
      [] name = "IDEOGRAPHIC TELEGRAPH SYMBOL FOR DAY TWENTY-ONE" -> 13300
      [] name = "IDEOGRAPHIC TELEGRAPH SYMBOL FOR DAY TWENTY-TWO" -> 13301
      [] name = "IDEOGRAPHIC TELEGRAPH SYMBOL FOR DAY TWENTY-THREE" -> 13302
      [] name = "IDEOGRAPHIC TELEGRAPH SYMBOL FOR DAY TWENTY-FOUR" -> 13303
      [] name = "IDEOGRAPHIC TELEGRAPH SYMBOL FOR DAY TWENTY-FIVE" -> 13304
      [] name = "IDEOGRAPHIC TELEGRAPH SYMBOL FOR DAY TWENTY-SIX" -> 13305
      [] name = "IDEOGRAPHIC TELEGRAPH SYMBOL FOR DAY TWENTY-SEVEN" -> 13306
      [] name = "IDEOGRAPHIC TELEGRAPH SYMBOL FOR DAY TWENTY-EIGHT" -> 13307
      [] name = "IDEOGRAPHIC TELEGRAPH SYMBOL FOR DAY TWENTY-NINE" -> 13308
      [] name = "IDEOGRAPHIC TELEGRAPH SYMBOL FOR DAY THIRTY" -> 13309
      [] name = "IDEOGRAPHIC TELEGRAPH SYMBOL FOR DAY THIRTY-ONE" -> 13310
      [] name = "SQUARE GAL" -> 13311
      [] name = "HEXAGRAM FOR THE CREATIVE HEAVEN" -> 19904
      [] name = "HEXAGRAM FOR THE RECEPTIVE EARTH" -> 19905
      [] name = "HEXAGRAM FOR DIFFICULTY AT THE BEGINNING" -> 19906
      [] name = "HEXAGRAM FOR YOUTHFUL FOLLY" -> 19907
      [] name = "HEXAGRAM FOR WAITING" -> 19908
      [] name = "HEXAGRAM FOR CONFLICT" -> 19909
      [] name = "HEXAGRAM FOR THE ARMY" -> 19910
      [] name = "HEXAGRAM FOR HOLDING TOGETHER" -> 19911
      [] name = "HEXAGRAM FOR SMALL TAMING" -> 19912
      [] name = "HEXAGRAM FOR TREADING" -> 19913
      [] name = "HEXAGRAM FOR PEACE" -> 19914
      [] name = "HEXAGRAM FOR STANDSTILL" -> 19915
      [] name = "HEXAGRAM FOR FELLOWSHIP" -> 19916
      [] name = "HEXAGRAM FOR GREAT POSSESSION" -> 19917
      [] name = "HEXAGRAM FOR MODESTY" -> 19918
      [] name = "HEXAGRAM FOR ENTHUSIASM" -> 19919
      [] name = "HEXAGRAM FOR FOLLOWING" -> 19920
      [] name = "HEXAGRAM FOR WORK ON THE DECAYED" -> 19921
      [] name = "HEXAGRAM FOR APPROACH" -> 19922
      [] name = "HEXAGRAM FOR CONTEMPLATION" -> 19923
      [] name = "HEXAGRAM FOR BITING THROUGH" -> 19924
      [] name = "HEXAGRAM FOR GRACE" -> 19925
      [] name = "HEXAGRAM FOR SPLITTING APART" -> 19926
      [] name = "HEXAGRAM FOR RETURN" -> 19927
      [] name = "HEXAGRAM FOR INNOCENCE" -> 19928
      [] name = "HEXAGRAM FOR GREAT TAMING" -> 19929
      [] name = "HEXAGRAM FOR MOUTH CORNERS" -> 19930
      [] name = "HEXAGRAM FOR GREAT PREPONDERANCE" -> 19931
      [] name = "HEXAGRAM FOR THE ABYSMAL WATER" -> 19932
      [] name = "HEXAGRAM FOR THE CLINGING FIRE" -> 19933
      [] name = "HEXAGRAM FOR INFLUENCE" -> 19934
      [] name = "HEXAGRAM FOR DURATION" -> 19935
      [] name = "HEXAGRAM FOR RETREAT" -> 19936
      [] name = "HEXAGRAM FOR GREAT POWER" -> 19937
      [] name = "HEXAGRAM FOR PROGRESS" -> 19938
      [] name = "HEXAGRAM FOR DARKENING OF THE LIGHT" -> 19939
      [] name = "HEXAGRAM FOR THE FAMILY" -> 19940
      [] name = "HEXAGRAM FOR OPPOSITION" -> 19941
      [] name = "HEXAGRAM FOR OBSTRUCTION" -> 19942
      [] name = "HEXAGRAM FOR DELIVERANCE" -> 19943
      [] name = "HEXAGRAM FOR DECREASE" -> 19944
      [] name = "HEXAGRAM FOR INCREASE" -> 19945
      [] name = "HEXAGRAM FOR BREAKTHROUGH" -> 19946
      [] name = "HEXAGRAM FOR COMING TO MEET" -> 19947
      [] name = "HEXAGRAM FOR GATHERING TOGETHER" -> 19948
      [] name = "HEXAGRAM FOR PUSHING UPWARD" -> 19949
      [] name = "HEXAGRAM FOR OPPRESSION" -> 19950
      [] name = "HEXAGRAM FOR THE WELL" -> 19951
      [] name = "HEXAGRAM FOR REVOLUTION" -> 19952
      [] name = "HEXAGRAM FOR THE CAULDRON" -> 19953
      [] name = "HEXAGRAM FOR THE AROUSING THUNDER" -> 19954
      [] name = "HEXAGRAM FOR THE KEEPING STILL MOUNTAIN" -> 19955
      [] name = "HEXAGRAM FOR DEVELOPMENT" -> 19956
      [] name = "HEXAGRAM FOR THE MARRYING MAIDEN" -> 19957
      [] name = "HEXAGRAM FOR ABUNDANCE" -> 19958
      [] name = "HEXAGRAM FOR THE WANDERER" -> 19959
      [] name = "HEXAGRAM FOR THE GENTLE WIND" -> 19960
      [] name = "HEXAGRAM FOR THE JOYOUS LAKE" -> 19961
      [] name = "HEXAGRAM FOR DISPERSION" -> 19962
      [] name = "HEXAGRAM FOR LIMITATION" -> 19963
      [] name = "HEXAGRAM FOR INNER TRUTH" -> 19964
      [] name = "HEXAGRAM FOR SMALL PREPONDERANCE" -> 19965
      [] name = "HEXAGRAM FOR AFTER COMPLETION" -> 19966
      [] name = "HEXAGRAM FOR BEFORE COMPLETION" -> 19967
      [] name = "YI SYLLABLE IT" -> 40960
      [] name = "YI SYLLABLE IX" -> 40961
      [] name = "YI SYLLABLE I" -> 40962
      [] name = "YI SYLLABLE IP" -> 40963
      [] name = "YI SYLLABLE IET" -> 40964
      [] name = "YI SYLLABLE IEX" -> 40965
      [] name = "YI SYLLABLE IE" -> 40966
      [] name = "YI SYLLABLE IEP" -> 40967
      [] name = "YI SYLLABLE AT" -> 40968
      [] name = "YI SYLLABLE AX" -> 40969
      [] name = "YI SYLLABLE A" -> 40970
      [] name = "YI SYLLABLE AP" -> 40971
      [] name = "YI SYLLABLE UOX" -> 40972
      [] name = "YI SYLLABLE UO" -> 40973
      [] name = "YI SYLLABLE UOP" -> 40974
      [] name = "YI SYLLABLE OT" -> 40975
      [] name = "YI SYLLABLE OX" -> 40976
      [] name = "YI SYLLABLE O" -> 40977
      [] name = "YI SYLLABLE OP" -> 40978
      [] name = "YI SYLLABLE EX" -> 40979
      [] name = "YI SYLLABLE E" -> 40980
      [] name = "YI SYLLABLE ITERATION MARK" -> 40981
      [] name = "YI SYLLABLE WU" -> 40981
      [] name = "YI SYLLABLE BIT" -> 40982
      [] name = "YI SYLLABLE BIX" -> 40983
      [] name = "YI SYLLABLE BI" -> 40984
      [] name = "YI SYLLABLE BIP" -> 40985
      [] name = "YI SYLLABLE BIET" -> 40986
      [] name = "YI SYLLABLE BIEX" -> 40987
      [] name = "YI SYLLABLE BIE" -> 40988
      [] name = "YI SYLLABLE BIEP" -> 40989
      [] name = "YI SYLLABLE BAT" -> 40990
      [] name = "YI SYLLABLE BAX" -> 40991
      [] name = "YI SYLLABLE BA" -> 40992
      [] name = "YI SYLLABLE BAP" -> 40993
      [] name = "YI SYLLABLE BUOX" -> 40994
      [] name = "YI SYLLABLE BUO" -> 40995
      [] name = "YI SYLLABLE BUOP" -> 40996
      [] name = "YI SYLLABLE BOT" -> 40997
      [] name = "YI SYLLABLE BOX" -> 40998
      [] name = "YI SYLLABLE BO" -> 40999
      [] name = "YI SYLLABLE BOP" -> 41000
      [] name = "YI SYLLABLE BEX" -> 41001
      [] name = "YI SYLLABLE BE" -> 41002
      [] name = "YI SYLLABLE BEP" -> 41003
      [] name = "YI SYLLABLE BUT" -> 41004
      [] name = "YI SYLLABLE BUX" -> 41005
      [] name = "YI SYLLABLE BU" -> 41006
      [] name = "YI SYLLABLE BUP" -> 41007
      [] name = "YI SYLLABLE BURX" -> 41008
      [] name = "YI SYLLABLE BUR" -> 41009
      [] name = "YI SYLLABLE BYT" -> 41010
      [] name = "YI SYLLABLE BYX" -> 41011
      [] name = "YI SYLLABLE BY" -> 41012
      [] name = "YI SYLLABLE BYP" -> 41013
      [] name = "YI SYLLABLE BYRX" -> 41014
      [] name = "YI SYLLABLE BYR" -> 41015
      [] name = "YI SYLLABLE PIT" -> 41016
      [] name = "YI SYLLABLE PIX" -> 41017
      [] name = "YI SYLLABLE PI" -> 41018
      [] name = "YI SYLLABLE PIP" -> 41019
      [] name = "YI SYLLABLE PIEX" -> 41020
      [] name = "YI SYLLABLE PIE" -> 41021
      [] name = "YI SYLLABLE PIEP" -> 41022
      [] name = "YI SYLLABLE PAT" -> 41023
      [] name = "YI SYLLABLE PAX" -> 41024
      [] name = "YI SYLLABLE PA" -> 41025
      [] name = "YI SYLLABLE PAP" -> 41026
      [] name = "YI SYLLABLE PUOX" -> 41027
      [] name = "YI SYLLABLE PUO" -> 41028
      [] name = "YI SYLLABLE PUOP" -> 41029
      [] name = "YI SYLLABLE POT" -> 41030
      [] name = "YI SYLLABLE POX" -> 41031
      [] name = "YI SYLLABLE PO" -> 41032
      [] name = "YI SYLLABLE POP" -> 41033
      [] name = "YI SYLLABLE PUT" -> 41034
      [] name = "YI SYLLABLE PUX" -> 41035
      [] name = "YI SYLLABLE PU" -> 41036
      [] name = "YI SYLLABLE PUP" -> 41037
      [] name = "YI SYLLABLE PURX" -> 41038
      [] name = "YI SYLLABLE PUR" -> 41039
      [] name = "YI SYLLABLE PYT" -> 41040
      [] name = "YI SYLLABLE PYX" -> 41041
      [] name = "YI SYLLABLE PY" -> 41042
      [] name = "YI SYLLABLE PYP" -> 41043
      [] name = "YI SYLLABLE PYRX" -> 41044
      [] name = "YI SYLLABLE PYR" -> 41045
      [] name = "YI SYLLABLE BBIT" -> 41046
      [] name = "YI SYLLABLE BBIX" -> 41047
      [] name = "YI SYLLABLE BBI" -> 41048
      [] name = "YI SYLLABLE BBIP" -> 41049
      [] name = "YI SYLLABLE BBIET" -> 41050
      [] name = "YI SYLLABLE BBIEX" -> 41051
      [] name = "YI SYLLABLE BBIE" -> 41052
      [] name = "YI SYLLABLE BBIEP" -> 41053
      [] name = "YI SYLLABLE BBAT" -> 41054
      [] name = "YI SYLLABLE BBAX" -> 41055
      [] name = "YI SYLLABLE BBA" -> 41056
      [] name = "YI SYLLABLE BBAP" -> 41057
      [] name = "YI SYLLABLE BBUOX" -> 41058
      [] name = "YI SYLLABLE BBUO" -> 41059
      [] name = "YI SYLLABLE BBUOP" -> 41060
      [] name = "YI SYLLABLE BBOT" -> 41061
      [] name = "YI SYLLABLE BBOX" -> 41062
      [] name = "YI SYLLABLE BBO" -> 41063
      [] name = "YI SYLLABLE BBOP" -> 41064
      [] name = "YI SYLLABLE BBEX" -> 41065
      [] name = "YI SYLLABLE BBE" -> 41066
      [] name = "YI SYLLABLE BBEP" -> 41067
      [] name = "YI SYLLABLE BBUT" -> 41068
      [] name = "YI SYLLABLE BBUX" -> 41069
      [] name = "YI SYLLABLE BBU" -> 41070
      [] name = "YI SYLLABLE BBUP" -> 41071
      [] name = "YI SYLLABLE BBURX" -> 41072
      [] name = "YI SYLLABLE BBUR" -> 41073
      [] name = "YI SYLLABLE BBYT" -> 41074
      [] name = "YI SYLLABLE BBYX" -> 41075
      [] name = "YI SYLLABLE BBY" -> 41076
      [] name = "YI SYLLABLE BBYP" -> 41077
      [] name = "YI SYLLABLE NBIT" -> 41078
      [] name = "YI SYLLABLE NBIX" -> 41079
      [] name = "YI SYLLABLE NBI" -> 41080
      [] name = "YI SYLLABLE NBIP" -> 41081
      [] name = "YI SYLLABLE NBIEX" -> 41082
      [] name = "YI SYLLABLE NBIE" -> 41083
      [] name = "YI SYLLABLE NBIEP" -> 41084
      [] name = "YI SYLLABLE NBAT" -> 41085
      [] name = "YI SYLLABLE NBAX" -> 41086
      [] name = "YI SYLLABLE NBA" -> 41087
      [] name = "YI SYLLABLE NBAP" -> 41088
      [] name = "YI SYLLABLE NBOT" -> 41089
      [] name = "YI SYLLABLE NBOX" -> 41090
      [] name = "YI SYLLABLE NBO" -> 41091
      [] name = "YI SYLLABLE NBOP" -> 41092
      [] name = "YI SYLLABLE NBUT" -> 41093
      [] name = "YI SYLLABLE NBUX" -> 41094
      [] name = "YI SYLLABLE NBU" -> 41095
      [] name = "YI SYLLABLE NBUP" -> 41096
      [] name = "YI SYLLABLE NBURX" -> 41097
      [] name = "YI SYLLABLE NBUR" -> 41098
      [] name = "YI SYLLABLE NBYT" -> 41099
      [] name = "YI SYLLABLE NBYX" -> 41100
      [] name = "YI SYLLABLE NBY" -> 41101
      [] name = "YI SYLLABLE NBYP" -> 41102
      [] name = "YI SYLLABLE NBYRX" -> 41103
      [] name = "YI SYLLABLE NBYR" -> 41104
      [] name = "YI SYLLABLE HMIT" -> 41105
      [] name = "YI SYLLABLE HMIX" -> 41106
      [] name = "YI SYLLABLE HMI" -> 41107
      [] name = "YI SYLLABLE HMIP" -> 41108
      [] name = "YI SYLLABLE HMIEX" -> 41109
      [] name = "YI SYLLABLE HMIE" -> 41110
      [] name = "YI SYLLABLE HMIEP" -> 41111
      [] name = "YI SYLLABLE HMAT" -> 41112
      [] name = "YI SYLLABLE HMAX" -> 41113
      [] name = "YI SYLLABLE HMA" -> 41114
      [] name = "YI SYLLABLE HMAP" -> 41115
      [] name = "YI SYLLABLE HMUOX" -> 41116
      [] name = "YI SYLLABLE HMUO" -> 41117
      [] name = "YI SYLLABLE HMUOP" -> 41118
      [] name = "YI SYLLABLE HMOT" -> 41119
      [] name = "YI SYLLABLE HMOX" -> 41120
      [] name = "YI SYLLABLE HMO" -> 41121
      [] name = "YI SYLLABLE HMOP" -> 41122
      [] name = "YI SYLLABLE HMUT" -> 41123
      [] name = "YI SYLLABLE HMUX" -> 41124
      [] name = "YI SYLLABLE HMU" -> 41125
      [] name = "YI SYLLABLE HMUP" -> 41126
      [] name = "YI SYLLABLE HMURX" -> 41127
      [] name = "YI SYLLABLE HMUR" -> 41128
      [] name = "YI SYLLABLE HMYX" -> 41129
      [] name = "YI SYLLABLE HMY" -> 41130
      [] name = "YI SYLLABLE HMYP" -> 41131
      [] name = "YI SYLLABLE HMYRX" -> 41132
      [] name = "YI SYLLABLE HMYR" -> 41133
      [] name = "YI SYLLABLE MIT" -> 41134
      [] name = "YI SYLLABLE MIX" -> 41135
      [] name = "YI SYLLABLE MI" -> 41136
      [] name = "YI SYLLABLE MIP" -> 41137
      [] name = "YI SYLLABLE MIEX" -> 41138
      [] name = "YI SYLLABLE MIE" -> 41139
      [] name = "YI SYLLABLE MIEP" -> 41140
      [] name = "YI SYLLABLE MAT" -> 41141
      [] name = "YI SYLLABLE MAX" -> 41142
      [] name = "YI SYLLABLE MA" -> 41143
      [] name = "YI SYLLABLE MAP" -> 41144
      [] name = "YI SYLLABLE MUOT" -> 41145
      [] name = "YI SYLLABLE MUOX" -> 41146
      [] name = "YI SYLLABLE MUO" -> 41147
      [] name = "YI SYLLABLE MUOP" -> 41148
      [] name = "YI SYLLABLE MOT" -> 41149
      [] name = "YI SYLLABLE MOX" -> 41150
      [] name = "YI SYLLABLE MO" -> 41151
      [] name = "YI SYLLABLE MOP" -> 41152
      [] name = "YI SYLLABLE MEX" -> 41153
      [] name = "YI SYLLABLE ME" -> 41154
      [] name = "YI SYLLABLE MUT" -> 41155
      [] name = "YI SYLLABLE MUX" -> 41156
      [] name = "YI SYLLABLE MU" -> 41157
      [] name = "YI SYLLABLE MUP" -> 41158
      [] name = "YI SYLLABLE MURX" -> 41159
      [] name = "YI SYLLABLE MUR" -> 41160
      [] name = "YI SYLLABLE MYT" -> 41161
      [] name = "YI SYLLABLE MYX" -> 41162
      [] name = "YI SYLLABLE MY" -> 41163
      [] name = "YI SYLLABLE MYP" -> 41164
      [] name = "YI SYLLABLE FIT" -> 41165
      [] name = "YI SYLLABLE FIX" -> 41166
      [] name = "YI SYLLABLE FI" -> 41167
      [] name = "YI SYLLABLE FIP" -> 41168
      [] name = "YI SYLLABLE FAT" -> 41169
      [] name = "YI SYLLABLE FAX" -> 41170
      [] name = "YI SYLLABLE FA" -> 41171
      [] name = "YI SYLLABLE FAP" -> 41172
      [] name = "YI SYLLABLE FOX" -> 41173
      [] name = "YI SYLLABLE FO" -> 41174
      [] name = "YI SYLLABLE FOP" -> 41175
      [] name = "YI SYLLABLE FUT" -> 41176
      [] name = "YI SYLLABLE FUX" -> 41177
      [] name = "YI SYLLABLE FU" -> 41178
      [] name = "YI SYLLABLE FUP" -> 41179
      [] name = "YI SYLLABLE FURX" -> 41180
      [] name = "YI SYLLABLE FUR" -> 41181
      [] name = "YI SYLLABLE FYT" -> 41182
      [] name = "YI SYLLABLE FYX" -> 41183
      [] name = "YI SYLLABLE FY" -> 41184
      [] name = "YI SYLLABLE FYP" -> 41185
      [] name = "YI SYLLABLE VIT" -> 41186
      [] name = "YI SYLLABLE VIX" -> 41187
      [] name = "YI SYLLABLE VI" -> 41188
      [] name = "YI SYLLABLE VIP" -> 41189
      [] name = "YI SYLLABLE VIET" -> 41190
      [] name = "YI SYLLABLE VIEX" -> 41191
      [] name = "YI SYLLABLE VIE" -> 41192
      [] name = "YI SYLLABLE VIEP" -> 41193
      [] name = "YI SYLLABLE VAT" -> 41194
      [] name = "YI SYLLABLE VAX" -> 41195
      [] name = "YI SYLLABLE VA" -> 41196
      [] name = "YI SYLLABLE VAP" -> 41197
      [] name = "YI SYLLABLE VOT" -> 41198
      [] name = "YI SYLLABLE VOX" -> 41199
      [] name = "YI SYLLABLE VO" -> 41200
      [] name = "YI SYLLABLE VOP" -> 41201
      [] name = "YI SYLLABLE VEX" -> 41202
      [] name = "YI SYLLABLE VEP" -> 41203
      [] name = "YI SYLLABLE VUT" -> 41204
      [] name = "YI SYLLABLE VUX" -> 41205
      [] name = "YI SYLLABLE VU" -> 41206
      [] name = "YI SYLLABLE VUP" -> 41207
      [] name = "YI SYLLABLE VURX" -> 41208
      [] name = "YI SYLLABLE VUR" -> 41209
      [] name = "YI SYLLABLE VYT" -> 41210
      [] name = "YI SYLLABLE VYX" -> 41211
      [] name = "YI SYLLABLE VY" -> 41212
      [] name = "YI SYLLABLE VYP" -> 41213
      [] name = "YI SYLLABLE VYRX" -> 41214
      [] name = "YI SYLLABLE VYR" -> 41215
      [] name = "YI SYLLABLE DIT" -> 41216
      [] name = "YI SYLLABLE DIX" -> 41217
      [] name = "YI SYLLABLE DI" -> 41218
      [] name = "YI SYLLABLE DIP" -> 41219
      [] name = "YI SYLLABLE DIEX" -> 41220
      [] name = "YI SYLLABLE DIE" -> 41221
      [] name = "YI SYLLABLE DIEP" -> 41222
      [] name = "YI SYLLABLE DAT" -> 41223
      [] name = "YI SYLLABLE DAX" -> 41224
      [] name = "YI SYLLABLE DA" -> 41225
      [] name = "YI SYLLABLE DAP" -> 41226
      [] name = "YI SYLLABLE DUOX" -> 41227
      [] name = "YI SYLLABLE DUO" -> 41228
      [] name = "YI SYLLABLE DOT" -> 41229
      [] name = "YI SYLLABLE DOX" -> 41230
      [] name = "YI SYLLABLE DO" -> 41231
      [] name = "YI SYLLABLE DOP" -> 41232
      [] name = "YI SYLLABLE DEX" -> 41233
      [] name = "YI SYLLABLE DE" -> 41234
      [] name = "YI SYLLABLE DEP" -> 41235
      [] name = "YI SYLLABLE DUT" -> 41236
      [] name = "YI SYLLABLE DUX" -> 41237
      [] name = "YI SYLLABLE DU" -> 41238
      [] name = "YI SYLLABLE DUP" -> 41239
      [] name = "YI SYLLABLE DURX" -> 41240
      [] name = "YI SYLLABLE DUR" -> 41241
      [] name = "YI SYLLABLE TIT" -> 41242
      [] name = "YI SYLLABLE TIX" -> 41243
      [] name = "YI SYLLABLE TI" -> 41244
      [] name = "YI SYLLABLE TIP" -> 41245
      [] name = "YI SYLLABLE TIEX" -> 41246
      [] name = "YI SYLLABLE TIE" -> 41247
      [] name = "YI SYLLABLE TIEP" -> 41248
      [] name = "YI SYLLABLE TAT" -> 41249
      [] name = "YI SYLLABLE TAX" -> 41250
      [] name = "YI SYLLABLE TA" -> 41251
      [] name = "YI SYLLABLE TAP" -> 41252
      [] name = "YI SYLLABLE TUOT" -> 41253
      [] name = "YI SYLLABLE TUOX" -> 41254
      [] name = "YI SYLLABLE TUO" -> 41255
      [] name = "YI SYLLABLE TUOP" -> 41256
      [] name = "YI SYLLABLE TOT" -> 41257
      [] name = "YI SYLLABLE TOX" -> 41258
      [] name = "YI SYLLABLE TO" -> 41259
      [] name = "YI SYLLABLE TOP" -> 41260
      [] name = "YI SYLLABLE TEX" -> 41261
      [] name = "YI SYLLABLE TE" -> 41262
      [] name = "YI SYLLABLE TEP" -> 41263
      [] name = "YI SYLLABLE TUT" -> 41264
      [] name = "YI SYLLABLE TUX" -> 41265
      [] name = "YI SYLLABLE TU" -> 41266
      [] name = "YI SYLLABLE TUP" -> 41267
      [] name = "YI SYLLABLE TURX" -> 41268
      [] name = "YI SYLLABLE TUR" -> 41269
      [] name = "YI SYLLABLE DDIT" -> 41270
      [] name = "YI SYLLABLE DDIX" -> 41271
      [] name = "YI SYLLABLE DDI" -> 41272
      [] name = "YI SYLLABLE DDIP" -> 41273
      [] name = "YI SYLLABLE DDIEX" -> 41274
      [] name = "YI SYLLABLE DDIE" -> 41275
      [] name = "YI SYLLABLE DDIEP" -> 41276
      [] name = "YI SYLLABLE DDAT" -> 41277
      [] name = "YI SYLLABLE DDAX" -> 41278
      [] name = "YI SYLLABLE DDA" -> 41279
      [] name = "YI SYLLABLE DDAP" -> 41280
      [] name = "YI SYLLABLE DDUOX" -> 41281
      [] name = "YI SYLLABLE DDUO" -> 41282
      [] name = "YI SYLLABLE DDUOP" -> 41283
      [] name = "YI SYLLABLE DDOT" -> 41284
      [] name = "YI SYLLABLE DDOX" -> 41285
      [] name = "YI SYLLABLE DDO" -> 41286
      [] name = "YI SYLLABLE DDOP" -> 41287
      [] name = "YI SYLLABLE DDEX" -> 41288
      [] name = "YI SYLLABLE DDE" -> 41289
      [] name = "YI SYLLABLE DDEP" -> 41290
      [] name = "YI SYLLABLE DDUT" -> 41291
      [] name = "YI SYLLABLE DDUX" -> 41292
      [] name = "YI SYLLABLE DDU" -> 41293
      [] name = "YI SYLLABLE DDUP" -> 41294
      [] name = "YI SYLLABLE DDURX" -> 41295
      [] name = "YI SYLLABLE DDUR" -> 41296
      [] name = "YI SYLLABLE NDIT" -> 41297
      [] name = "YI SYLLABLE NDIX" -> 41298
      [] name = "YI SYLLABLE NDI" -> 41299
      [] name = "YI SYLLABLE NDIP" -> 41300
      [] name = "YI SYLLABLE NDIEX" -> 41301
      [] name = "YI SYLLABLE NDIE" -> 41302
      [] name = "YI SYLLABLE NDAT" -> 41303
      [] name = "YI SYLLABLE NDAX" -> 41304
      [] name = "YI SYLLABLE NDA" -> 41305
      [] name = "YI SYLLABLE NDAP" -> 41306
      [] name = "YI SYLLABLE NDOT" -> 41307
      [] name = "YI SYLLABLE NDOX" -> 41308
      [] name = "YI SYLLABLE NDO" -> 41309
      [] name = "YI SYLLABLE NDOP" -> 41310
      [] name = "YI SYLLABLE NDEX" -> 41311
      [] name = "YI SYLLABLE NDE" -> 41312
      [] name = "YI SYLLABLE NDEP" -> 41313
      [] name = "YI SYLLABLE NDUT" -> 41314
      [] name = "YI SYLLABLE NDUX" -> 41315
      [] name = "YI SYLLABLE NDU" -> 41316
      [] name = "YI SYLLABLE NDUP" -> 41317
      [] name = "YI SYLLABLE NDURX" -> 41318
      [] name = "YI SYLLABLE NDUR" -> 41319
      [] name = "YI SYLLABLE HNIT" -> 41320
      [] name = "YI SYLLABLE HNIX" -> 41321
      [] name = "YI SYLLABLE HNI" -> 41322
      [] name = "YI SYLLABLE HNIP" -> 41323
      [] name = "YI SYLLABLE HNIET" -> 41324
      [] name = "YI SYLLABLE HNIEX" -> 41325
      [] name = "YI SYLLABLE HNIE" -> 41326
      [] name = "YI SYLLABLE HNIEP" -> 41327
      [] name = "YI SYLLABLE HNAT" -> 41328
      [] name = "YI SYLLABLE HNAX" -> 41329
      [] name = "YI SYLLABLE HNA" -> 41330
      [] name = "YI SYLLABLE HNAP" -> 41331
      [] name = "YI SYLLABLE HNUOX" -> 41332
      [] name = "YI SYLLABLE HNUO" -> 41333
      [] name = "YI SYLLABLE HNOT" -> 41334
      [] name = "YI SYLLABLE HNOX" -> 41335
      [] name = "YI SYLLABLE HNOP" -> 41336
      [] name = "YI SYLLABLE HNEX" -> 41337
      [] name = "YI SYLLABLE HNE" -> 41338
      [] name = "YI SYLLABLE HNEP" -> 41339
      [] name = "YI SYLLABLE HNUT" -> 41340
      [] name = "YI SYLLABLE NIT" -> 41341
      [] name = "YI SYLLABLE NIX" -> 41342
      [] name = "YI SYLLABLE NI" -> 41343
      [] name = "YI SYLLABLE NIP" -> 41344
      [] name = "YI SYLLABLE NIEX" -> 41345
      [] name = "YI SYLLABLE NIE" -> 41346
      [] name = "YI SYLLABLE NIEP" -> 41347
      [] name = "YI SYLLABLE NAX" -> 41348
      [] name = "YI SYLLABLE NA" -> 41349
      [] name = "YI SYLLABLE NAP" -> 41350
      [] name = "YI SYLLABLE NUOX" -> 41351
      [] name = "YI SYLLABLE NUO" -> 41352
      [] name = "YI SYLLABLE NUOP" -> 41353
      [] name = "YI SYLLABLE NOT" -> 41354
      [] name = "YI SYLLABLE NOX" -> 41355
      [] name = "YI SYLLABLE NO" -> 41356
      [] name = "YI SYLLABLE NOP" -> 41357
      [] name = "YI SYLLABLE NEX" -> 41358
      [] name = "YI SYLLABLE NE" -> 41359
      [] name = "YI SYLLABLE NEP" -> 41360
      [] name = "YI SYLLABLE NUT" -> 41361
      [] name = "YI SYLLABLE NUX" -> 41362
      [] name = "YI SYLLABLE NU" -> 41363
      [] name = "YI SYLLABLE NUP" -> 41364
      [] name = "YI SYLLABLE NURX" -> 41365
      [] name = "YI SYLLABLE NUR" -> 41366
      [] name = "YI SYLLABLE HLIT" -> 41367
      [] name = "YI SYLLABLE HLIX" -> 41368
      [] name = "YI SYLLABLE HLI" -> 41369
      [] name = "YI SYLLABLE HLIP" -> 41370
      [] name = "YI SYLLABLE HLIEX" -> 41371
      [] name = "YI SYLLABLE HLIE" -> 41372
      [] name = "YI SYLLABLE HLIEP" -> 41373
      [] name = "YI SYLLABLE HLAT" -> 41374
      [] name = "YI SYLLABLE HLAX" -> 41375
      [] name = "YI SYLLABLE HLA" -> 41376
      [] name = "YI SYLLABLE HLAP" -> 41377
      [] name = "YI SYLLABLE HLUOX" -> 41378
      [] name = "YI SYLLABLE HLUO" -> 41379
      [] name = "YI SYLLABLE HLUOP" -> 41380
      [] name = "YI SYLLABLE HLOX" -> 41381
      [] name = "YI SYLLABLE HLO" -> 41382
      [] name = "YI SYLLABLE HLOP" -> 41383
      [] name = "YI SYLLABLE HLEX" -> 41384
      [] name = "YI SYLLABLE HLE" -> 41385
      [] name = "YI SYLLABLE HLEP" -> 41386
      [] name = "YI SYLLABLE HLUT" -> 41387
      [] name = "YI SYLLABLE HLUX" -> 41388
      [] name = "YI SYLLABLE HLU" -> 41389
      [] name = "YI SYLLABLE HLUP" -> 41390
      [] name = "YI SYLLABLE HLURX" -> 41391
      [] name = "YI SYLLABLE HLUR" -> 41392
      [] name = "YI SYLLABLE HLYT" -> 41393
      [] name = "YI SYLLABLE HLYX" -> 41394
      [] name = "YI SYLLABLE HLY" -> 41395
      [] name = "YI SYLLABLE HLYP" -> 41396
      [] name = "YI SYLLABLE HLYRX" -> 41397
      [] name = "YI SYLLABLE HLYR" -> 41398
      [] name = "YI SYLLABLE LIT" -> 41399
      [] name = "YI SYLLABLE LIX" -> 41400
      [] name = "YI SYLLABLE LI" -> 41401
      [] name = "YI SYLLABLE LIP" -> 41402
      [] name = "YI SYLLABLE LIET" -> 41403
      [] name = "YI SYLLABLE LIEX" -> 41404
      [] name = "YI SYLLABLE LIE" -> 41405
      [] name = "YI SYLLABLE LIEP" -> 41406
      [] name = "YI SYLLABLE LAT" -> 41407
      [] name = "YI SYLLABLE LAX" -> 41408
      [] name = "YI SYLLABLE LA" -> 41409
      [] name = "YI SYLLABLE LAP" -> 41410
      [] name = "YI SYLLABLE LUOT" -> 41411
      [] name = "YI SYLLABLE LUOX" -> 41412
      [] name = "YI SYLLABLE LUO" -> 41413
      [] name = "YI SYLLABLE LUOP" -> 41414
      [] name = "YI SYLLABLE LOT" -> 41415
      [] name = "YI SYLLABLE LOX" -> 41416
      [] name = "YI SYLLABLE LO" -> 41417
      [] name = "YI SYLLABLE LOP" -> 41418
      [] name = "YI SYLLABLE LEX" -> 41419
      [] name = "YI SYLLABLE LE" -> 41420
      [] name = "YI SYLLABLE LEP" -> 41421
      [] name = "YI SYLLABLE LUT" -> 41422
      [] name = "YI SYLLABLE LUX" -> 41423
      [] name = "YI SYLLABLE LU" -> 41424
      [] name = "YI SYLLABLE LUP" -> 41425
      [] name = "YI SYLLABLE LURX" -> 41426
      [] name = "YI SYLLABLE LUR" -> 41427
      [] name = "YI SYLLABLE LYT" -> 41428
      [] name = "YI SYLLABLE LYX" -> 41429
      [] name = "YI SYLLABLE LY" -> 41430
      [] name = "YI SYLLABLE LYP" -> 41431
      [] name = "YI SYLLABLE LYRX" -> 41432
      [] name = "YI SYLLABLE LYR" -> 41433
      [] name = "YI SYLLABLE GIT" -> 41434
      [] name = "YI SYLLABLE GIX" -> 41435
      [] name = "YI SYLLABLE GI" -> 41436
      [] name = "YI SYLLABLE GIP" -> 41437
      [] name = "YI SYLLABLE GIET" -> 41438
      [] name = "YI SYLLABLE GIEX" -> 41439
      [] name = "YI SYLLABLE GIE" -> 41440
      [] name = "YI SYLLABLE GIEP" -> 41441
      [] name = "YI SYLLABLE GAT" -> 41442
      [] name = "YI SYLLABLE GAX" -> 41443
      [] name = "YI SYLLABLE GA" -> 41444
      [] name = "YI SYLLABLE GAP" -> 41445
      [] name = "YI SYLLABLE GUOT" -> 41446
      [] name = "YI SYLLABLE GUOX" -> 41447
      [] name = "YI SYLLABLE GUO" -> 41448
      [] name = "YI SYLLABLE GUOP" -> 41449
      [] name = "YI SYLLABLE GOT" -> 41450
      [] name = "YI SYLLABLE GOX" -> 41451
      [] name = "YI SYLLABLE GO" -> 41452
      [] name = "YI SYLLABLE GOP" -> 41453
      [] name = "YI SYLLABLE GET" -> 41454
      [] name = "YI SYLLABLE GEX" -> 41455
      [] name = "YI SYLLABLE GE" -> 41456
      [] name = "YI SYLLABLE GEP" -> 41457
      [] name = "YI SYLLABLE GUT" -> 41458
      [] name = "YI SYLLABLE GUX" -> 41459
      [] name = "YI SYLLABLE GU" -> 41460
      [] name = "YI SYLLABLE GUP" -> 41461
      [] name = "YI SYLLABLE GURX" -> 41462
      [] name = "YI SYLLABLE GUR" -> 41463
      [] name = "YI SYLLABLE KIT" -> 41464
      [] name = "YI SYLLABLE KIX" -> 41465
      [] name = "YI SYLLABLE KI" -> 41466
      [] name = "YI SYLLABLE KIP" -> 41467
      [] name = "YI SYLLABLE KIEX" -> 41468
      [] name = "YI SYLLABLE KIE" -> 41469
      [] name = "YI SYLLABLE KIEP" -> 41470
      [] name = "YI SYLLABLE KAT" -> 41471
      [] name = "YI SYLLABLE KAX" -> 41472
      [] name = "YI SYLLABLE KA" -> 41473
      [] name = "YI SYLLABLE KAP" -> 41474
      [] name = "YI SYLLABLE KUOX" -> 41475
      [] name = "YI SYLLABLE KUO" -> 41476
      [] name = "YI SYLLABLE KUOP" -> 41477
      [] name = "YI SYLLABLE KOT" -> 41478
      [] name = "YI SYLLABLE KOX" -> 41479
      [] name = "YI SYLLABLE KO" -> 41480
      [] name = "YI SYLLABLE KOP" -> 41481
      [] name = "YI SYLLABLE KET" -> 41482
      [] name = "YI SYLLABLE KEX" -> 41483
      [] name = "YI SYLLABLE KE" -> 41484
      [] name = "YI SYLLABLE KEP" -> 41485
      [] name = "YI SYLLABLE KUT" -> 41486
      [] name = "YI SYLLABLE KUX" -> 41487
      [] name = "YI SYLLABLE KU" -> 41488
      [] name = "YI SYLLABLE KUP" -> 41489
      [] name = "YI SYLLABLE KURX" -> 41490
      [] name = "YI SYLLABLE KUR" -> 41491
      [] name = "YI SYLLABLE GGIT" -> 41492
      [] name = "YI SYLLABLE GGIX" -> 41493
      [] name = "YI SYLLABLE GGI" -> 41494
      [] name = "YI SYLLABLE GGIEX" -> 41495
      [] name = "YI SYLLABLE GGIE" -> 41496
      [] name = "YI SYLLABLE GGIEP" -> 41497
      [] name = "YI SYLLABLE GGAT" -> 41498
      [] name = "YI SYLLABLE GGAX" -> 41499
      [] name = "YI SYLLABLE GGA" -> 41500
      [] name = "YI SYLLABLE GGAP" -> 41501
      [] name = "YI SYLLABLE GGUOT" -> 41502
      [] name = "YI SYLLABLE GGUOX" -> 41503
      [] name = "YI SYLLABLE GGUO" -> 41504
      [] name = "YI SYLLABLE GGUOP" -> 41505
      [] name = "YI SYLLABLE GGOT" -> 41506
      [] name = "YI SYLLABLE GGOX" -> 41507
      [] name = "YI SYLLABLE GGO" -> 41508
      [] name = "YI SYLLABLE GGOP" -> 41509
      [] name = "YI SYLLABLE GGET" -> 41510
      [] name = "YI SYLLABLE GGEX" -> 41511
      [] name = "YI SYLLABLE GGE" -> 41512
      [] name = "YI SYLLABLE GGEP" -> 41513
      [] name = "YI SYLLABLE GGUT" -> 41514
      [] name = "YI SYLLABLE GGUX" -> 41515
      [] name = "YI SYLLABLE GGU" -> 41516
      [] name = "YI SYLLABLE GGUP" -> 41517
      [] name = "YI SYLLABLE GGURX" -> 41518
      [] name = "YI SYLLABLE GGUR" -> 41519
      [] name = "YI SYLLABLE MGIEX" -> 41520
      [] name = "YI SYLLABLE MGIE" -> 41521
      [] name = "YI SYLLABLE MGAT" -> 41522
      [] name = "YI SYLLABLE MGAX" -> 41523
      [] name = "YI SYLLABLE MGA" -> 41524
      [] name = "YI SYLLABLE MGAP" -> 41525
      [] name = "YI SYLLABLE MGUOX" -> 41526
      [] name = "YI SYLLABLE MGUO" -> 41527
      [] name = "YI SYLLABLE MGUOP" -> 41528
      [] name = "YI SYLLABLE MGOT" -> 41529
      [] name = "YI SYLLABLE MGOX" -> 41530
      [] name = "YI SYLLABLE MGO" -> 41531
      [] name = "YI SYLLABLE MGOP" -> 41532
      [] name = "YI SYLLABLE MGEX" -> 41533
      [] name = "YI SYLLABLE MGE" -> 41534
      [] name = "YI SYLLABLE MGEP" -> 41535
      [] name = "YI SYLLABLE MGUT" -> 41536
      [] name = "YI SYLLABLE MGUX" -> 41537
      [] name = "YI SYLLABLE MGU" -> 41538
      [] name = "YI SYLLABLE MGUP" -> 41539
      [] name = "YI SYLLABLE MGURX" -> 41540
      [] name = "YI SYLLABLE MGUR" -> 41541
      [] name = "YI SYLLABLE HXIT" -> 41542
      [] name = "YI SYLLABLE HXIX" -> 41543
      [] name = "YI SYLLABLE HXI" -> 41544
      [] name = "YI SYLLABLE HXIP" -> 41545
      [] name = "YI SYLLABLE HXIET" -> 41546
      [] name = "YI SYLLABLE HXIEX" -> 41547
      [] name = "YI SYLLABLE HXIE" -> 41548
      [] name = "YI SYLLABLE HXIEP" -> 41549
      [] name = "YI SYLLABLE HXAT" -> 41550
      [] name = "YI SYLLABLE HXAX" -> 41551
      [] name = "YI SYLLABLE HXA" -> 41552
      [] name = "YI SYLLABLE HXAP" -> 41553
      [] name = "YI SYLLABLE HXUOT" -> 41554
      [] name = "YI SYLLABLE HXUOX" -> 41555
      [] name = "YI SYLLABLE HXUO" -> 41556
      [] name = "YI SYLLABLE HXUOP" -> 41557
      [] name = "YI SYLLABLE HXOT" -> 41558
      [] name = "YI SYLLABLE HXOX" -> 41559
      [] name = "YI SYLLABLE HXO" -> 41560
      [] name = "YI SYLLABLE HXOP" -> 41561
      [] name = "YI SYLLABLE HXEX" -> 41562
      [] name = "YI SYLLABLE HXE" -> 41563
      [] name = "YI SYLLABLE HXEP" -> 41564
      [] name = "YI SYLLABLE NGIEX" -> 41565
      [] name = "YI SYLLABLE NGIE" -> 41566
      [] name = "YI SYLLABLE NGIEP" -> 41567
      [] name = "YI SYLLABLE NGAT" -> 41568
      [] name = "YI SYLLABLE NGAX" -> 41569
      [] name = "YI SYLLABLE NGA" -> 41570
      [] name = "YI SYLLABLE NGAP" -> 41571
      [] name = "YI SYLLABLE NGUOT" -> 41572
      [] name = "YI SYLLABLE NGUOX" -> 41573
      [] name = "YI SYLLABLE NGUO" -> 41574
      [] name = "YI SYLLABLE NGOT" -> 41575
      [] name = "YI SYLLABLE NGOX" -> 41576
      [] name = "YI SYLLABLE NGO" -> 41577
      [] name = "YI SYLLABLE NGOP" -> 41578
      [] name = "YI SYLLABLE NGEX" -> 41579
      [] name = "YI SYLLABLE NGE" -> 41580
      [] name = "YI SYLLABLE NGEP" -> 41581
      [] name = "YI SYLLABLE HIT" -> 41582
      [] name = "YI SYLLABLE HIEX" -> 41583
      [] name = "YI SYLLABLE HIE" -> 41584
      [] name = "YI SYLLABLE HAT" -> 41585
      [] name = "YI SYLLABLE HAX" -> 41586
      [] name = "YI SYLLABLE HA" -> 41587
      [] name = "YI SYLLABLE HAP" -> 41588
      [] name = "YI SYLLABLE HUOT" -> 41589
      [] name = "YI SYLLABLE HUOX" -> 41590
      [] name = "YI SYLLABLE HUO" -> 41591
      [] name = "YI SYLLABLE HUOP" -> 41592
      [] name = "YI SYLLABLE HOT" -> 41593
      [] name = "YI SYLLABLE HOX" -> 41594
      [] name = "YI SYLLABLE HO" -> 41595
      [] name = "YI SYLLABLE HOP" -> 41596
      [] name = "YI SYLLABLE HEX" -> 41597
      [] name = "YI SYLLABLE HE" -> 41598
      [] name = "YI SYLLABLE HEP" -> 41599
      [] name = "YI SYLLABLE WAT" -> 41600
      [] name = "YI SYLLABLE WAX" -> 41601
      [] name = "YI SYLLABLE WA" -> 41602
      [] name = "YI SYLLABLE WAP" -> 41603
      [] name = "YI SYLLABLE WUOX" -> 41604
      [] name = "YI SYLLABLE WUO" -> 41605
      [] name = "YI SYLLABLE WUOP" -> 41606
      [] name = "YI SYLLABLE WOX" -> 41607
      [] name = "YI SYLLABLE WO" -> 41608
      [] name = "YI SYLLABLE WOP" -> 41609
      [] name = "YI SYLLABLE WEX" -> 41610
      [] name = "YI SYLLABLE WE" -> 41611
      [] name = "YI SYLLABLE WEP" -> 41612
      [] name = "YI SYLLABLE ZIT" -> 41613
      [] name = "YI SYLLABLE ZIX" -> 41614
      [] name = "YI SYLLABLE ZI" -> 41615
      [] name = "YI SYLLABLE ZIP" -> 41616
      [] name = "YI SYLLABLE ZIEX" -> 41617
      [] name = "YI SYLLABLE ZIE" -> 41618
      [] name = "YI SYLLABLE ZIEP" -> 41619
      [] name = "YI SYLLABLE ZAT" -> 41620
      [] name = "YI SYLLABLE ZAX" -> 41621
      [] name = "YI SYLLABLE ZA" -> 41622
      [] name = "YI SYLLABLE ZAP" -> 41623
      [] name = "YI SYLLABLE ZUOX" -> 41624
      [] name = "YI SYLLABLE ZUO" -> 41625
      [] name = "YI SYLLABLE ZUOP" -> 41626
      [] name = "YI SYLLABLE ZOT" -> 41627
      [] name = "YI SYLLABLE ZOX" -> 41628
      [] name = "YI SYLLABLE ZO" -> 41629
      [] name = "YI SYLLABLE ZOP" -> 41630
      [] name = "YI SYLLABLE ZEX" -> 41631
      [] name = "YI SYLLABLE ZE" -> 41632
      [] name = "YI SYLLABLE ZEP" -> 41633
      [] name = "YI SYLLABLE ZUT" -> 41634
      [] name = "YI SYLLABLE ZUX" -> 41635
      [] name = "YI SYLLABLE ZU" -> 41636
      [] name = "YI SYLLABLE ZUP" -> 41637
      [] name = "YI SYLLABLE ZURX" -> 41638
      [] name = "YI SYLLABLE ZUR" -> 41639
      [] name = "YI SYLLABLE ZYT" -> 41640
      [] name = "YI SYLLABLE ZYX" -> 41641
      [] name = "YI SYLLABLE ZY" -> 41642
      [] name = "YI SYLLABLE ZYP" -> 41643
      [] name = "YI SYLLABLE ZYRX" -> 41644
      [] name = "YI SYLLABLE ZYR" -> 41645
      [] name = "YI SYLLABLE CIT" -> 41646
      [] name = "YI SYLLABLE CIX" -> 41647
      [] name = "YI SYLLABLE CI" -> 41648
      [] name = "YI SYLLABLE CIP" -> 41649
      [] name = "YI SYLLABLE CIET" -> 41650
      [] name = "YI SYLLABLE CIEX" -> 41651
      [] name = "YI SYLLABLE CIE" -> 41652
      [] name = "YI SYLLABLE CIEP" -> 41653
      [] name = "YI SYLLABLE CAT" -> 41654
      [] name = "YI SYLLABLE CAX" -> 41655
      [] name = "YI SYLLABLE CA" -> 41656
      [] name = "YI SYLLABLE CAP" -> 41657
      [] name = "YI SYLLABLE CUOX" -> 41658
      [] name = "YI SYLLABLE CUO" -> 41659
      [] name = "YI SYLLABLE CUOP" -> 41660
      [] name = "YI SYLLABLE COT" -> 41661
      [] name = "YI SYLLABLE COX" -> 41662
      [] name = "YI SYLLABLE CO" -> 41663
      [] name = "YI SYLLABLE COP" -> 41664
      [] name = "YI SYLLABLE CEX" -> 41665
      [] name = "YI SYLLABLE CE" -> 41666
      [] name = "YI SYLLABLE CEP" -> 41667
      [] name = "YI SYLLABLE CUT" -> 41668
      [] name = "YI SYLLABLE CUX" -> 41669
      [] name = "YI SYLLABLE CU" -> 41670
      [] name = "YI SYLLABLE CUP" -> 41671
      [] name = "YI SYLLABLE CURX" -> 41672
      [] name = "YI SYLLABLE CUR" -> 41673
      [] name = "YI SYLLABLE CYT" -> 41674
      [] name = "YI SYLLABLE CYX" -> 41675
      [] name = "YI SYLLABLE CY" -> 41676
      [] name = "YI SYLLABLE CYP" -> 41677
      [] name = "YI SYLLABLE CYRX" -> 41678
      [] name = "YI SYLLABLE CYR" -> 41679
      [] name = "YI SYLLABLE ZZIT" -> 41680
      [] name = "YI SYLLABLE ZZIX" -> 41681
      [] name = "YI SYLLABLE ZZI" -> 41682
      [] name = "YI SYLLABLE ZZIP" -> 41683
      [] name = "YI SYLLABLE ZZIET" -> 41684
      [] name = "YI SYLLABLE ZZIEX" -> 41685
      [] name = "YI SYLLABLE ZZIE" -> 41686
      [] name = "YI SYLLABLE ZZIEP" -> 41687
      [] name = "YI SYLLABLE ZZAT" -> 41688
      [] name = "YI SYLLABLE ZZAX" -> 41689
      [] name = "YI SYLLABLE ZZA" -> 41690
      [] name = "YI SYLLABLE ZZAP" -> 41691
      [] name = "YI SYLLABLE ZZOX" -> 41692
      [] name = "YI SYLLABLE ZZO" -> 41693
      [] name = "YI SYLLABLE ZZOP" -> 41694
      [] name = "YI SYLLABLE ZZEX" -> 41695
      [] name = "YI SYLLABLE ZZE" -> 41696
      [] name = "YI SYLLABLE ZZEP" -> 41697
      [] name = "YI SYLLABLE ZZUX" -> 41698
      [] name = "YI SYLLABLE ZZU" -> 41699
      [] name = "YI SYLLABLE ZZUP" -> 41700
      [] name = "YI SYLLABLE ZZURX" -> 41701
      [] name = "YI SYLLABLE ZZUR" -> 41702
      [] name = "YI SYLLABLE ZZYT" -> 41703
      [] name = "YI SYLLABLE ZZYX" -> 41704
      [] name = "YI SYLLABLE ZZY" -> 41705
      [] name = "YI SYLLABLE ZZYP" -> 41706
      [] name = "YI SYLLABLE ZZYRX" -> 41707
      [] name = "YI SYLLABLE ZZYR" -> 41708
      [] name = "YI SYLLABLE NZIT" -> 41709
      [] name = "YI SYLLABLE NZIX" -> 41710
      [] name = "YI SYLLABLE NZI" -> 41711
      [] name = "YI SYLLABLE NZIP" -> 41712
      [] name = "YI SYLLABLE NZIEX" -> 41713
      [] name = "YI SYLLABLE NZIE" -> 41714
      [] name = "YI SYLLABLE NZIEP" -> 41715
      [] name = "YI SYLLABLE NZAT" -> 41716
      [] name = "YI SYLLABLE NZAX" -> 41717
      [] name = "YI SYLLABLE NZA" -> 41718
      [] name = "YI SYLLABLE NZAP" -> 41719
      [] name = "YI SYLLABLE NZUOX" -> 41720
      [] name = "YI SYLLABLE NZUO" -> 41721
      [] name = "YI SYLLABLE NZOX" -> 41722
      [] name = "YI SYLLABLE NZOP" -> 41723
      [] name = "YI SYLLABLE NZEX" -> 41724
      [] name = "YI SYLLABLE NZE" -> 41725
      [] name = "YI SYLLABLE NZUX" -> 41726
      [] name = "YI SYLLABLE NZU" -> 41727
      [] name = "YI SYLLABLE NZUP" -> 41728
      [] name = "YI SYLLABLE NZURX" -> 41729
      [] name = "YI SYLLABLE NZUR" -> 41730
      [] name = "YI SYLLABLE NZYT" -> 41731
      [] name = "YI SYLLABLE NZYX" -> 41732
      [] name = "YI SYLLABLE NZY" -> 41733
      [] name = "YI SYLLABLE NZYP" -> 41734
      [] name = "YI SYLLABLE NZYRX" -> 41735
      [] name = "YI SYLLABLE NZYR" -> 41736
      [] name = "YI SYLLABLE SIT" -> 41737
      [] name = "YI SYLLABLE SIX" -> 41738
      [] name = "YI SYLLABLE SI" -> 41739
      [] name = "YI SYLLABLE SIP" -> 41740
      [] name = "YI SYLLABLE SIEX" -> 41741
      [] name = "YI SYLLABLE SIE" -> 41742
      [] name = "YI SYLLABLE SIEP" -> 41743
      [] name = "YI SYLLABLE SAT" -> 41744
      [] name = "YI SYLLABLE SAX" -> 41745
      [] name = "YI SYLLABLE SA" -> 41746
      [] name = "YI SYLLABLE SAP" -> 41747
      [] name = "YI SYLLABLE SUOX" -> 41748
      [] name = "YI SYLLABLE SUO" -> 41749
      [] name = "YI SYLLABLE SUOP" -> 41750
      [] name = "YI SYLLABLE SOT" -> 41751
      [] name = "YI SYLLABLE SOX" -> 41752
      [] name = "YI SYLLABLE SO" -> 41753
      [] name = "YI SYLLABLE SOP" -> 41754
      [] name = "YI SYLLABLE SEX" -> 41755
      [] name = "YI SYLLABLE SE" -> 41756
      [] name = "YI SYLLABLE SEP" -> 41757
      [] name = "YI SYLLABLE SUT" -> 41758
      [] name = "YI SYLLABLE SUX" -> 41759
      [] name = "YI SYLLABLE SU" -> 41760
      [] name = "YI SYLLABLE SUP" -> 41761
      [] name = "YI SYLLABLE SURX" -> 41762
      [] name = "YI SYLLABLE SUR" -> 41763
      [] name = "YI SYLLABLE SYT" -> 41764
      [] name = "YI SYLLABLE SYX" -> 41765
      [] name = "YI SYLLABLE SY" -> 41766
      [] name = "YI SYLLABLE SYP" -> 41767
      [] name = "YI SYLLABLE SYRX" -> 41768
      [] name = "YI SYLLABLE SYR" -> 41769
      [] name = "YI SYLLABLE SSIT" -> 41770
      [] name = "YI SYLLABLE SSIX" -> 41771
      [] name = "YI SYLLABLE SSI" -> 41772
      [] name = "YI SYLLABLE SSIP" -> 41773
      [] name = "YI SYLLABLE SSIEX" -> 41774
      [] name = "YI SYLLABLE SSIE" -> 41775
      [] name = "YI SYLLABLE SSIEP" -> 41776
      [] name = "YI SYLLABLE SSAT" -> 41777
      [] name = "YI SYLLABLE SSAX" -> 41778
      [] name = "YI SYLLABLE SSA" -> 41779
      [] name = "YI SYLLABLE SSAP" -> 41780
      [] name = "YI SYLLABLE SSOT" -> 41781
      [] name = "YI SYLLABLE SSOX" -> 41782
      [] name = "YI SYLLABLE SSO" -> 41783
      [] name = "YI SYLLABLE SSOP" -> 41784
      [] name = "YI SYLLABLE SSEX" -> 41785
      [] name = "YI SYLLABLE SSE" -> 41786
      [] name = "YI SYLLABLE SSEP" -> 41787
      [] name = "YI SYLLABLE SSUT" -> 41788
      [] name = "YI SYLLABLE SSUX" -> 41789
      [] name = "YI SYLLABLE SSU" -> 41790
      [] name = "YI SYLLABLE SSUP" -> 41791
      [] name = "YI SYLLABLE SSYT" -> 41792
      [] name = "YI SYLLABLE SSYX" -> 41793
      [] name = "YI SYLLABLE SSY" -> 41794
      [] name = "YI SYLLABLE SSYP" -> 41795
      [] name = "YI SYLLABLE SSYRX" -> 41796
      [] name = "YI SYLLABLE SSYR" -> 41797
      [] name = "YI SYLLABLE ZHAT" -> 41798
      [] name = "YI SYLLABLE ZHAX" -> 41799
      [] name = "YI SYLLABLE ZHA" -> 41800
      [] name = "YI SYLLABLE ZHAP" -> 41801
      [] name = "YI SYLLABLE ZHUOX" -> 41802
      [] name = "YI SYLLABLE ZHUO" -> 41803
      [] name = "YI SYLLABLE ZHUOP" -> 41804
      [] name = "YI SYLLABLE ZHOT" -> 41805
      [] name = "YI SYLLABLE ZHOX" -> 41806
      [] name = "YI SYLLABLE ZHO" -> 41807
      [] name = "YI SYLLABLE ZHOP" -> 41808
      [] name = "YI SYLLABLE ZHET" -> 41809
      [] name = "YI SYLLABLE ZHEX" -> 41810
      [] name = "YI SYLLABLE ZHE" -> 41811
      [] name = "YI SYLLABLE ZHEP" -> 41812
      [] name = "YI SYLLABLE ZHUT" -> 41813
      [] name = "YI SYLLABLE ZHUX" -> 41814
      [] name = "YI SYLLABLE ZHU" -> 41815
      [] name = "YI SYLLABLE ZHUP" -> 41816
      [] name = "YI SYLLABLE ZHURX" -> 41817
      [] name = "YI SYLLABLE ZHUR" -> 41818
      [] name = "YI SYLLABLE ZHYT" -> 41819
      [] name = "YI SYLLABLE ZHYX" -> 41820
      [] name = "YI SYLLABLE ZHY" -> 41821
      [] name = "YI SYLLABLE ZHYP" -> 41822
      [] name = "YI SYLLABLE ZHYRX" -> 41823
      [] name = "YI SYLLABLE ZHYR" -> 41824
      [] name = "YI SYLLABLE CHAT" -> 41825
      [] name = "YI SYLLABLE CHAX" -> 41826
      [] name = "YI SYLLABLE CHA" -> 41827
      [] name = "YI SYLLABLE CHAP" -> 41828
      [] name = "YI SYLLABLE CHUOT" -> 41829
      [] name = "YI SYLLABLE CHUOX" -> 41830
      [] name = "YI SYLLABLE CHUO" -> 41831
      [] name = "YI SYLLABLE CHUOP" -> 41832
      [] name = "YI SYLLABLE CHOT" -> 41833
      [] name = "YI SYLLABLE CHOX" -> 41834
      [] name = "YI SYLLABLE CHO" -> 41835
      [] name = "YI SYLLABLE CHOP" -> 41836
      [] name = "YI SYLLABLE CHET" -> 41837
      [] name = "YI SYLLABLE CHEX" -> 41838
      [] name = "YI SYLLABLE CHE" -> 41839
      [] name = "YI SYLLABLE CHEP" -> 41840
      [] name = "YI SYLLABLE CHUX" -> 41841
      [] name = "YI SYLLABLE CHU" -> 41842
      [] name = "YI SYLLABLE CHUP" -> 41843
      [] name = "YI SYLLABLE CHURX" -> 41844
      [] name = "YI SYLLABLE CHUR" -> 41845
      [] name = "YI SYLLABLE CHYT" -> 41846
      [] name = "YI SYLLABLE CHYX" -> 41847
      [] name = "YI SYLLABLE CHY" -> 41848
      [] name = "YI SYLLABLE CHYP" -> 41849
      [] name = "YI SYLLABLE CHYRX" -> 41850
      [] name = "YI SYLLABLE CHYR" -> 41851
      [] name = "YI SYLLABLE RRAX" -> 41852
      [] name = "YI SYLLABLE RRA" -> 41853
      [] name = "YI SYLLABLE RRUOX" -> 41854
      [] name = "YI SYLLABLE RRUO" -> 41855
      [] name = "YI SYLLABLE RROT" -> 41856
      [] name = "YI SYLLABLE RROX" -> 41857
      [] name = "YI SYLLABLE RRO" -> 41858
      [] name = "YI SYLLABLE RROP" -> 41859
      [] name = "YI SYLLABLE RRET" -> 41860
      [] name = "YI SYLLABLE RREX" -> 41861
      [] name = "YI SYLLABLE RRE" -> 41862
      [] name = "YI SYLLABLE RREP" -> 41863
      [] name = "YI SYLLABLE RRUT" -> 41864
      [] name = "YI SYLLABLE RRUX" -> 41865
      [] name = "YI SYLLABLE RRU" -> 41866
      [] name = "YI SYLLABLE RRUP" -> 41867
      [] name = "YI SYLLABLE RRURX" -> 41868
      [] name = "YI SYLLABLE RRUR" -> 41869
      [] name = "YI SYLLABLE RRYT" -> 41870
      [] name = "YI SYLLABLE RRYX" -> 41871
      [] name = "YI SYLLABLE RRY" -> 41872
      [] name = "YI SYLLABLE RRYP" -> 41873
      [] name = "YI SYLLABLE RRYRX" -> 41874
      [] name = "YI SYLLABLE RRYR" -> 41875
      [] name = "YI SYLLABLE NRAT" -> 41876
      [] name = "YI SYLLABLE NRAX" -> 41877
      [] name = "YI SYLLABLE NRA" -> 41878
      [] name = "YI SYLLABLE NRAP" -> 41879
      [] name = "YI SYLLABLE NROX" -> 41880
      [] name = "YI SYLLABLE NRO" -> 41881
      [] name = "YI SYLLABLE NROP" -> 41882
      [] name = "YI SYLLABLE NRET" -> 41883
      [] name = "YI SYLLABLE NREX" -> 41884
      [] name = "YI SYLLABLE NRE" -> 41885
      [] name = "YI SYLLABLE NREP" -> 41886
      [] name = "YI SYLLABLE NRUT" -> 41887
      [] name = "YI SYLLABLE NRUX" -> 41888
      [] name = "YI SYLLABLE NRU" -> 41889
      [] name = "YI SYLLABLE NRUP" -> 41890
      [] name = "YI SYLLABLE NRURX" -> 41891
      [] name = "YI SYLLABLE NRUR" -> 41892
      [] name = "YI SYLLABLE NRYT" -> 41893
      [] name = "YI SYLLABLE NRYX" -> 41894
      [] name = "YI SYLLABLE NRY" -> 41895
      [] name = "YI SYLLABLE NRYP" -> 41896
      [] name = "YI SYLLABLE NRYRX" -> 41897
      [] name = "YI SYLLABLE NRYR" -> 41898
      [] name = "YI SYLLABLE SHAT" -> 41899
      [] name = "YI SYLLABLE SHAX" -> 41900
      [] name = "YI SYLLABLE SHA" -> 41901
      [] name = "YI SYLLABLE SHAP" -> 41902
      [] name = "YI SYLLABLE SHUOX" -> 41903
      [] name = "YI SYLLABLE SHUO" -> 41904
      [] name = "YI SYLLABLE SHUOP" -> 41905
      [] name = "YI SYLLABLE SHOT" -> 41906
      [] name = "YI SYLLABLE SHOX" -> 41907
      [] name = "YI SYLLABLE SHO" -> 41908
      [] name = "YI SYLLABLE SHOP" -> 41909
      [] name = "YI SYLLABLE SHET" -> 41910
      [] name = "YI SYLLABLE SHEX" -> 41911
      [] name = "YI SYLLABLE SHE" -> 41912
      [] name = "YI SYLLABLE SHEP" -> 41913
      [] name = "YI SYLLABLE SHUT" -> 41914
      [] name = "YI SYLLABLE SHUX" -> 41915
      [] name = "YI SYLLABLE SHU" -> 41916
      [] name = "YI SYLLABLE SHUP" -> 41917
      [] name = "YI SYLLABLE SHURX" -> 41918
      [] name = "YI SYLLABLE SHUR" -> 41919
      [] name = "YI SYLLABLE SHYT" -> 41920
      [] name = "YI SYLLABLE SHYX" -> 41921
      [] name = "YI SYLLABLE SHY" -> 41922
      [] name = "YI SYLLABLE SHYP" -> 41923
      [] name = "YI SYLLABLE SHYRX" -> 41924
      [] name = "YI SYLLABLE SHYR" -> 41925
      [] name = "YI SYLLABLE RAT" -> 41926
      [] name = "YI SYLLABLE RAX" -> 41927
      [] name = "YI SYLLABLE RA" -> 41928
      [] name = "YI SYLLABLE RAP" -> 41929
      [] name = "YI SYLLABLE RUOX" -> 41930
      [] name = "YI SYLLABLE RUO" -> 41931
      [] name = "YI SYLLABLE RUOP" -> 41932
      [] name = "YI SYLLABLE ROT" -> 41933
      [] name = "YI SYLLABLE ROX" -> 41934
      [] name = "YI SYLLABLE RO" -> 41935
      [] name = "YI SYLLABLE ROP" -> 41936
      [] name = "YI SYLLABLE REX" -> 41937
      [] name = "YI SYLLABLE RE" -> 41938
      [] name = "YI SYLLABLE REP" -> 41939
      [] name = "YI SYLLABLE RUT" -> 41940
      [] name = "YI SYLLABLE RUX" -> 41941
      [] name = "YI SYLLABLE RU" -> 41942
      [] name = "YI SYLLABLE RUP" -> 41943
      [] name = "YI SYLLABLE RURX" -> 41944
      [] name = "YI SYLLABLE RUR" -> 41945
      [] name = "YI SYLLABLE RYT" -> 41946
      [] name = "YI SYLLABLE RYX" -> 41947
      [] name = "YI SYLLABLE RY" -> 41948
      [] name = "YI SYLLABLE RYP" -> 41949
      [] name = "YI SYLLABLE RYRX" -> 41950
      [] name = "YI SYLLABLE RYR" -> 41951
      [] name = "YI SYLLABLE JIT" -> 41952
      [] name = "YI SYLLABLE JIX" -> 41953
      [] name = "YI SYLLABLE JI" -> 41954
      [] name = "YI SYLLABLE JIP" -> 41955
      [] name = "YI SYLLABLE JIET" -> 41956
      [] name = "YI SYLLABLE JIEX" -> 41957
      [] name = "YI SYLLABLE JIE" -> 41958
      [] name = "YI SYLLABLE JIEP" -> 41959
      [] name = "YI SYLLABLE JUOT" -> 41960
      [] name = "YI SYLLABLE JUOX" -> 41961
      [] name = "YI SYLLABLE JUO" -> 41962
      [] name = "YI SYLLABLE JUOP" -> 41963
      [] name = "YI SYLLABLE JOT" -> 41964
      [] name = "YI SYLLABLE JOX" -> 41965
      [] name = "YI SYLLABLE JO" -> 41966
      [] name = "YI SYLLABLE JOP" -> 41967
      [] name = "YI SYLLABLE JUT" -> 41968
      [] name = "YI SYLLABLE JUX" -> 41969
      [] name = "YI SYLLABLE JU" -> 41970
      [] name = "YI SYLLABLE JUP" -> 41971
      [] name = "YI SYLLABLE JURX" -> 41972
      [] name = "YI SYLLABLE JUR" -> 41973
      [] name = "YI SYLLABLE JYT" -> 41974
      [] name = "YI SYLLABLE JYX" -> 41975
      [] name = "YI SYLLABLE JY" -> 41976
      [] name = "YI SYLLABLE JYP" -> 41977
      [] name = "YI SYLLABLE JYRX" -> 41978
      [] name = "YI SYLLABLE JYR" -> 41979
      [] name = "YI SYLLABLE QIT" -> 41980
      [] name = "YI SYLLABLE QIX" -> 41981
      [] name = "YI SYLLABLE QI" -> 41982
      [] name = "YI SYLLABLE QIP" -> 41983
      [] name = "YI SYLLABLE QIET" -> 41984
      [] name = "YI SYLLABLE QIEX" -> 41985
      [] name = "YI SYLLABLE QIE" -> 41986
      [] name = "YI SYLLABLE QIEP" -> 41987
      [] name = "YI SYLLABLE QUOT" -> 41988
      [] name = "YI SYLLABLE QUOX" -> 41989
      [] name = "YI SYLLABLE QUO" -> 41990
      [] name = "YI SYLLABLE QUOP" -> 41991
      [] name = "YI SYLLABLE QOT" -> 41992
      [] name = "YI SYLLABLE QOX" -> 41993
      [] name = "YI SYLLABLE QO" -> 41994
      [] name = "YI SYLLABLE QOP" -> 41995
      [] name = "YI SYLLABLE QUT" -> 41996
      [] name = "YI SYLLABLE QUX" -> 41997
      [] name = "YI SYLLABLE QU" -> 41998
      [] name = "YI SYLLABLE QUP" -> 41999
      [] name = "YI SYLLABLE QURX" -> 42000
      [] name = "YI SYLLABLE QUR" -> 42001
      [] name = "YI SYLLABLE QYT" -> 42002
      [] name = "YI SYLLABLE QYX" -> 42003
      [] name = "YI SYLLABLE QY" -> 42004
      [] name = "YI SYLLABLE QYP" -> 42005
      [] name = "YI SYLLABLE QYRX" -> 42006
      [] name = "YI SYLLABLE QYR" -> 42007
      [] name = "YI SYLLABLE JJIT" -> 42008
      [] name = "YI SYLLABLE JJIX" -> 42009
      [] name = "YI SYLLABLE JJI" -> 42010
      [] name = "YI SYLLABLE JJIP" -> 42011
      [] name = "YI SYLLABLE JJIET" -> 42012
      [] name = "YI SYLLABLE JJIEX" -> 42013
      [] name = "YI SYLLABLE JJIE" -> 42014
      [] name = "YI SYLLABLE JJIEP" -> 42015
      [] name = "YI SYLLABLE JJUOX" -> 42016
      [] name = "YI SYLLABLE JJUO" -> 42017
      [] name = "YI SYLLABLE JJUOP" -> 42018
      [] name = "YI SYLLABLE JJOT" -> 42019
      [] name = "YI SYLLABLE JJOX" -> 42020
      [] name = "YI SYLLABLE JJO" -> 42021
      [] name = "YI SYLLABLE JJOP" -> 42022
      [] name = "YI SYLLABLE JJUT" -> 42023
      [] name = "YI SYLLABLE JJUX" -> 42024
      [] name = "YI SYLLABLE JJU" -> 42025
      [] name = "YI SYLLABLE JJUP" -> 42026
      [] name = "YI SYLLABLE JJURX" -> 42027
      [] name = "YI SYLLABLE JJUR" -> 42028
      [] name = "YI SYLLABLE JJYT" -> 42029
      [] name = "YI SYLLABLE JJYX" -> 42030
      [] name = "YI SYLLABLE JJY" -> 42031
      [] name = "YI SYLLABLE JJYP" -> 42032
      [] name = "YI SYLLABLE NJIT" -> 42033
      [] name = "YI SYLLABLE NJIX" -> 42034
      [] name = "YI SYLLABLE NJI" -> 42035
      [] name = "YI SYLLABLE NJIP" -> 42036
      [] name = "YI SYLLABLE NJIET" -> 42037
      [] name = "YI SYLLABLE NJIEX" -> 42038
      [] name = "YI SYLLABLE NJIE" -> 42039
      [] name = "YI SYLLABLE NJIEP" -> 42040
      [] name = "YI SYLLABLE NJUOX" -> 42041
      [] name = "YI SYLLABLE NJUO" -> 42042
      [] name = "YI SYLLABLE NJOT" -> 42043
      [] name = "YI SYLLABLE NJOX" -> 42044
      [] name = "YI SYLLABLE NJO" -> 42045
      [] name = "YI SYLLABLE NJOP" -> 42046
      [] name = "YI SYLLABLE NJUX" -> 42047
      [] name = "YI SYLLABLE NJU" -> 42048
      [] name = "YI SYLLABLE NJUP" -> 42049
      [] name = "YI SYLLABLE NJURX" -> 42050
      [] name = "YI SYLLABLE NJUR" -> 42051
      [] name = "YI SYLLABLE NJYT" -> 42052
      [] name = "YI SYLLABLE NJYX" -> 42053
      [] name = "YI SYLLABLE NJY" -> 42054
      [] name = "YI SYLLABLE NJYP" -> 42055
      [] name = "YI SYLLABLE NJYRX" -> 42056
      [] name = "YI SYLLABLE NJYR" -> 42057
      [] name = "YI SYLLABLE NYIT" -> 42058
      [] name = "YI SYLLABLE NYIX" -> 42059
      [] name = "YI SYLLABLE NYI" -> 42060
      [] name = "YI SYLLABLE NYIP" -> 42061
      [] name = "YI SYLLABLE NYIET" -> 42062
      [] name = "YI SYLLABLE NYIEX" -> 42063
      [] name = "YI SYLLABLE NYIE" -> 42064
      [] name = "YI SYLLABLE NYIEP" -> 42065
      [] name = "YI SYLLABLE NYUOX" -> 42066
      [] name = "YI SYLLABLE NYUO" -> 42067
      [] name = "YI SYLLABLE NYUOP" -> 42068
      [] name = "YI SYLLABLE NYOT" -> 42069
      [] name = "YI SYLLABLE NYOX" -> 42070
      [] name = "YI SYLLABLE NYO" -> 42071
      [] name = "YI SYLLABLE NYOP" -> 42072
      [] name = "YI SYLLABLE NYUT" -> 42073
      [] name = "YI SYLLABLE NYUX" -> 42074
      [] name = "YI SYLLABLE NYU" -> 42075
      [] name = "YI SYLLABLE NYUP" -> 42076
      [] name = "YI SYLLABLE XIT" -> 42077
      [] name = "YI SYLLABLE XIX" -> 42078
      [] name = "YI SYLLABLE XI" -> 42079
      [] name = "YI SYLLABLE XIP" -> 42080
      [] name = "YI SYLLABLE XIET" -> 42081
      [] name = "YI SYLLABLE XIEX" -> 42082
      [] name = "YI SYLLABLE XIE" -> 42083
      [] name = "YI SYLLABLE XIEP" -> 42084
      [] name = "YI SYLLABLE XUOX" -> 42085
      [] name = "YI SYLLABLE XUO" -> 42086
      [] name = "YI SYLLABLE XOT" -> 42087
      [] name = "YI SYLLABLE XOX" -> 42088
      [] name = "YI SYLLABLE XO" -> 42089
      [] name = "YI SYLLABLE XOP" -> 42090
      [] name = "YI SYLLABLE XYT" -> 42091
      [] name = "YI SYLLABLE XYX" -> 42092
      [] name = "YI SYLLABLE XY" -> 42093
      [] name = "YI SYLLABLE XYP" -> 42094
      [] name = "YI SYLLABLE XYRX" -> 42095
      [] name = "YI SYLLABLE XYR" -> 42096
      [] name = "YI SYLLABLE YIT" -> 42097
      [] name = "YI SYLLABLE YIX" -> 42098
      [] name = "YI SYLLABLE YI" -> 42099
      [] name = "YI SYLLABLE YIP" -> 42100
      [] name = "YI SYLLABLE YIET" -> 42101
      [] name = "YI SYLLABLE YIEX" -> 42102
      [] name = "YI SYLLABLE YIE" -> 42103
      [] name = "YI SYLLABLE YIEP" -> 42104
      [] name = "YI SYLLABLE YUOT" -> 42105
      [] name = "YI SYLLABLE YUOX" -> 42106
      [] name = "YI SYLLABLE YUO" -> 42107
      [] name = "YI SYLLABLE YUOP" -> 42108
      [] name = "YI SYLLABLE YOT" -> 42109
      [] name = "YI SYLLABLE YOX" -> 42110
      [] name = "YI SYLLABLE YO" -> 42111
      [] name = "YI SYLLABLE YOP" -> 42112
      [] name = "YI SYLLABLE YUT" -> 42113
      [] name = "YI SYLLABLE YUX" -> 42114
      [] name = "YI SYLLABLE YU" -> 42115
      [] name = "YI SYLLABLE YUP" -> 42116
      [] name = "YI SYLLABLE YURX" -> 42117
      [] name = "YI SYLLABLE YUR" -> 42118
      [] name = "YI SYLLABLE YYT" -> 42119
      [] name = "YI SYLLABLE YYX" -> 42120
      [] name = "YI SYLLABLE YY" -> 42121
      [] name = "YI SYLLABLE YYP" -> 42122
      [] name = "YI SYLLABLE YYRX" -> 42123
      [] name = "YI SYLLABLE YYR" -> 42124
      [] name = "YI RADICAL QOT" -> 42128
      [] name = "YI RADICAL LI" -> 42129
      [] name = "YI RADICAL KIT" -> 42130
      [] name = "YI RADICAL NYIP" -> 42131
      [] name = "YI RADICAL CYP" -> 42132
      [] name = "YI RADICAL SSI" -> 42133
      [] name = "YI RADICAL GGOP" -> 42134
      [] name = "YI RADICAL GEP" -> 42135
      [] name = "YI RADICAL MI" -> 42136
      [] name = "YI RADICAL HXIT" -> 42137
      [] name = "YI RADICAL LYR" -> 42138
      [] name = "YI RADICAL BBUT" -> 42139
      [] name = "YI RADICAL MOP" -> 42140
      [] name = "YI RADICAL YO" -> 42141
      [] name = "YI RADICAL PUT" -> 42142
      [] name = "YI RADICAL HXUO" -> 42143
      [] name = "YI RADICAL TAT" -> 42144
      [] name = "YI RADICAL GA" -> 42145
      [] name = "YI RADICAL ZUP" -> 42146
      [] name = "YI RADICAL CYT" -> 42147
      [] name = "YI RADICAL DDUR" -> 42148
      [] name = "YI RADICAL BUR" -> 42149
      [] name = "YI RADICAL GGUO" -> 42150
      [] name = "YI RADICAL NYOP" -> 42151
      [] name = "YI RADICAL TU" -> 42152
      [] name = "YI RADICAL OP" -> 42153
      [] name = "YI RADICAL JJUT" -> 42154
      [] name = "YI RADICAL ZOT" -> 42155
      [] name = "YI RADICAL PYT" -> 42156
      [] name = "YI RADICAL HMO" -> 42157
      [] name = "YI RADICAL YIT" -> 42158
      [] name = "YI RADICAL VUR" -> 42159
      [] name = "YI RADICAL SHY" -> 42160
      [] name = "YI RADICAL VEP" -> 42161
      [] name = "YI RADICAL ZA" -> 42162
      [] name = "YI RADICAL JO" -> 42163
      [] name = "YI RADICAL NZUP" -> 42164
      [] name = "YI RADICAL JJY" -> 42165
      [] name = "YI RADICAL GOT" -> 42166
      [] name = "YI RADICAL JJIE" -> 42167
      [] name = "YI RADICAL WO" -> 42168
      [] name = "YI RADICAL DU" -> 42169
      [] name = "YI RADICAL SHUR" -> 42170
      [] name = "YI RADICAL LIE" -> 42171
      [] name = "YI RADICAL CY" -> 42172
      [] name = "YI RADICAL CUOP" -> 42173
      [] name = "YI RADICAL CIP" -> 42174
      [] name = "YI RADICAL HXOP" -> 42175
      [] name = "YI RADICAL SHAT" -> 42176
      [] name = "YI RADICAL ZUR" -> 42177
      [] name = "YI RADICAL SHOP" -> 42178
      [] name = "YI RADICAL CHE" -> 42179
      [] name = "YI RADICAL ZZIET" -> 42180
      [] name = "YI RADICAL NBIE" -> 42181
      [] name = "YI RADICAL KE" -> 42182
      [] name = "LISU LETTER BA" -> 42192
      [] name = "LISU LETTER PA" -> 42193
      [] name = "LISU LETTER PHA" -> 42194
      [] name = "LISU LETTER DA" -> 42195
      [] name = "LISU LETTER TA" -> 42196
      [] name = "LISU LETTER THA" -> 42197
      [] name = "LISU LETTER GA" -> 42198
      [] name = "LISU LETTER KA" -> 42199
      [] name = "LISU LETTER KHA" -> 42200
      [] name = "LISU LETTER JA" -> 42201
      [] name = "LISU LETTER CA" -> 42202
      [] name = "LISU LETTER CHA" -> 42203
      [] name = "LISU LETTER DZA" -> 42204
      [] name = "LISU LETTER TSA" -> 42205
      [] name = "LISU LETTER TSHA" -> 42206
      [] name = "LISU LETTER MA" -> 42207
      [] name = "LISU LETTER NA" -> 42208
      [] name = "LISU LETTER LA" -> 42209
      [] name = "LISU LETTER SA" -> 42210
      [] name = "LISU LETTER ZHA" -> 42211
      [] name = "LISU LETTER ZA" -> 42212
      [] name = "LISU LETTER NGA" -> 42213
      [] name = "LISU LETTER HA" -> 42214
      [] name = "LISU LETTER XA" -> 42215
      [] name = "LISU LETTER HHA" -> 42216
      [] name = "LISU LETTER FA" -> 42217
      [] name = "LISU LETTER WA" -> 42218
      [] name = "LISU LETTER SHA" -> 42219
      [] name = "LISU LETTER YA" -> 42220
      [] name = "LISU LETTER GHA" -> 42221
      [] name = "LISU LETTER A" -> 42222
      [] name = "LISU LETTER AE" -> 42223
      [] name = "LISU LETTER E" -> 42224
      [] name = "LISU LETTER EU" -> 42225
      [] name = "LISU LETTER I" -> 42226
      [] name = "LISU LETTER O" -> 42227
      [] name = "LISU LETTER U" -> 42228
      [] name = "LISU LETTER UE" -> 42229
      [] name = "LISU LETTER UH" -> 42230
      [] name = "LISU LETTER OE" -> 42231
      [] name = "LISU LETTER TONE MYA TI" -> 42232
      [] name = "LISU LETTER TONE NA PO" -> 42233
      [] name = "LISU LETTER TONE MYA CYA" -> 42234
      [] name = "LISU LETTER TONE MYA BO" -> 42235
      [] name = "LISU LETTER TONE MYA NA" -> 42236
      [] name = "LISU LETTER TONE MYA JEU" -> 42237
      [] name = "LISU PUNCTUATION COMMA" -> 42238
      [] name = "LISU PUNCTUATION FULL STOP" -> 42239
      [] name = "VAI SYLLABLE EE" -> 42240
      [] name = "VAI SYLLABLE EEN" -> 42241
      [] name = "VAI SYLLABLE HEE" -> 42242
      [] name = "VAI SYLLABLE WEE" -> 42243
      [] name = "VAI SYLLABLE WEEN" -> 42244
      [] name = "VAI SYLLABLE PEE" -> 42245
      [] name = "VAI SYLLABLE BHEE" -> 42246
      [] name = "VAI SYLLABLE BEE" -> 42247
      [] name = "VAI SYLLABLE MBEE" -> 42248
      [] name = "VAI SYLLABLE KPEE" -> 42249
      [] name = "VAI SYLLABLE MGBEE" -> 42250
      [] name = "VAI SYLLABLE GBEE" -> 42251
      [] name = "VAI SYLLABLE FEE" -> 42252
      [] name = "VAI SYLLABLE VEE" -> 42253
      [] name = "VAI SYLLABLE TEE" -> 42254
      [] name = "VAI SYLLABLE THEE" -> 42255
      [] name = "VAI SYLLABLE DHEE" -> 42256
      [] name = "VAI SYLLABLE DHHEE" -> 42257
      [] name = "VAI SYLLABLE LEE" -> 42258
      [] name = "VAI SYLLABLE REE" -> 42259
      [] name = "VAI SYLLABLE DEE" -> 42260
      [] name = "VAI SYLLABLE NDEE" -> 42261
      [] name = "VAI SYLLABLE SEE" -> 42262
      [] name = "VAI SYLLABLE SHEE" -> 42263
      [] name = "VAI SYLLABLE ZEE" -> 42264
      [] name = "VAI SYLLABLE ZHEE" -> 42265
      [] name = "VAI SYLLABLE CEE" -> 42266
      [] name = "VAI SYLLABLE JEE" -> 42267
      [] name = "VAI SYLLABLE NJEE" -> 42268
      [] name = "VAI SYLLABLE YEE" -> 42269
      [] name = "VAI SYLLABLE KEE" -> 42270
      [] name = "VAI SYLLABLE NGGEE" -> 42271
      [] name = "VAI SYLLABLE GEE" -> 42272
      [] name = "VAI SYLLABLE MEE" -> 42273
      [] name = "VAI SYLLABLE NEE" -> 42274
      [] name = "VAI SYLLABLE NYEE" -> 42275
      [] name = "VAI SYLLABLE I" -> 42276
      [] name = "VAI SYLLABLE IN" -> 42277
      [] name = "VAI SYLLABLE HI" -> 42278
      [] name = "VAI SYLLABLE HIN" -> 42279
      [] name = "VAI SYLLABLE WI" -> 42280
      [] name = "VAI SYLLABLE WIN" -> 42281
      [] name = "VAI SYLLABLE PI" -> 42282
      [] name = "VAI SYLLABLE BHI" -> 42283
      [] name = "VAI SYLLABLE BI" -> 42284
      [] name = "VAI SYLLABLE MBI" -> 42285
      [] name = "VAI SYLLABLE KPI" -> 42286
      [] name = "VAI SYLLABLE MGBI" -> 42287
      [] name = "VAI SYLLABLE GBI" -> 42288
      [] name = "VAI SYLLABLE FI" -> 42289
      [] name = "VAI SYLLABLE VI" -> 42290
      [] name = "VAI SYLLABLE TI" -> 42291
      [] name = "VAI SYLLABLE THI" -> 42292
      [] name = "VAI SYLLABLE DHI" -> 42293
      [] name = "VAI SYLLABLE DHHI" -> 42294
      [] name = "VAI SYLLABLE LI" -> 42295
      [] name = "VAI SYLLABLE RI" -> 42296
      [] name = "VAI SYLLABLE DI" -> 42297
      [] name = "VAI SYLLABLE NDI" -> 42298
      [] name = "VAI SYLLABLE SI" -> 42299
      [] name = "VAI SYLLABLE SHI" -> 42300
      [] name = "VAI SYLLABLE ZI" -> 42301
      [] name = "VAI SYLLABLE ZHI" -> 42302
      [] name = "VAI SYLLABLE CI" -> 42303
      [] name = "VAI SYLLABLE JI" -> 42304
      [] name = "VAI SYLLABLE NJI" -> 42305
      [] name = "VAI SYLLABLE YI" -> 42306
      [] name = "VAI SYLLABLE KI" -> 42307
      [] name = "VAI SYLLABLE NGGI" -> 42308
      [] name = "VAI SYLLABLE GI" -> 42309
      [] name = "VAI SYLLABLE MI" -> 42310
      [] name = "VAI SYLLABLE NI" -> 42311
      [] name = "VAI SYLLABLE NYI" -> 42312
      [] name = "VAI SYLLABLE A" -> 42313
      [] name = "VAI SYLLABLE AN" -> 42314
      [] name = "VAI SYLLABLE NGAN" -> 42315
      [] name = "VAI SYLLABLE HA" -> 42316
      [] name = "VAI SYLLABLE HAN" -> 42317
      [] name = "VAI SYLLABLE WA" -> 42318
      [] name = "VAI SYLLABLE WAN" -> 42319
      [] name = "VAI SYLLABLE PA" -> 42320
      [] name = "VAI SYLLABLE BHA" -> 42321
      [] name = "VAI SYLLABLE BA" -> 42322
      [] name = "VAI SYLLABLE MBA" -> 42323
      [] name = "VAI SYLLABLE KPA" -> 42324
      [] name = "VAI SYLLABLE KPAN" -> 42325
      [] name = "VAI SYLLABLE MGBA" -> 42326
      [] name = "VAI SYLLABLE GBA" -> 42327
      [] name = "VAI SYLLABLE FA" -> 42328
      [] name = "VAI SYLLABLE VA" -> 42329
      [] name = "VAI SYLLABLE TA" -> 42330
      [] name = "VAI SYLLABLE THA" -> 42331
      [] name = "VAI SYLLABLE DHA" -> 42332
      [] name = "VAI SYLLABLE DHHA" -> 42333
      [] name = "VAI SYLLABLE LA" -> 42334
      [] name = "VAI SYLLABLE RA" -> 42335
      [] name = "VAI SYLLABLE DA" -> 42336
      [] name = "VAI SYLLABLE NDA" -> 42337
      [] name = "VAI SYLLABLE SA" -> 42338
      [] name = "VAI SYLLABLE SHA" -> 42339
      [] name = "VAI SYLLABLE ZA" -> 42340
      [] name = "VAI SYLLABLE ZHA" -> 42341
      [] name = "VAI SYLLABLE CA" -> 42342
      [] name = "VAI SYLLABLE JA" -> 42343
      [] name = "VAI SYLLABLE NJA" -> 42344
      [] name = "VAI SYLLABLE YA" -> 42345
      [] name = "VAI SYLLABLE KA" -> 42346
      [] name = "VAI SYLLABLE KAN" -> 42347
      [] name = "VAI SYLLABLE NGGA" -> 42348
      [] name = "VAI SYLLABLE GA" -> 42349
      [] name = "VAI SYLLABLE MA" -> 42350
      [] name = "VAI SYLLABLE NA" -> 42351
      [] name = "VAI SYLLABLE NYA" -> 42352
      [] name = "VAI SYLLABLE OO" -> 42353
      [] name = "VAI SYLLABLE OON" -> 42354
      [] name = "VAI SYLLABLE HOO" -> 42355
      [] name = "VAI SYLLABLE WOO" -> 42356
      [] name = "VAI SYLLABLE WOON" -> 42357
      [] name = "VAI SYLLABLE POO" -> 42358
      [] name = "VAI SYLLABLE BHOO" -> 42359
      [] name = "VAI SYLLABLE BOO" -> 42360
      [] name = "VAI SYLLABLE MBOO" -> 42361
      [] name = "VAI SYLLABLE KPOO" -> 42362
      [] name = "VAI SYLLABLE MGBOO" -> 42363
      [] name = "VAI SYLLABLE GBOO" -> 42364
      [] name = "VAI SYLLABLE FOO" -> 42365
      [] name = "VAI SYLLABLE VOO" -> 42366
      [] name = "VAI SYLLABLE TOO" -> 42367
      [] name = "VAI SYLLABLE THOO" -> 42368
      [] name = "VAI SYLLABLE DHOO" -> 42369
      [] name = "VAI SYLLABLE DHHOO" -> 42370
      [] name = "VAI SYLLABLE LOO" -> 42371
      [] name = "VAI SYLLABLE ROO" -> 42372
      [] name = "VAI SYLLABLE DOO" -> 42373
      [] name = "VAI SYLLABLE NDOO" -> 42374
      [] name = "VAI SYLLABLE SOO" -> 42375
      [] name = "VAI SYLLABLE SHOO" -> 42376
      [] name = "VAI SYLLABLE ZOO" -> 42377
      [] name = "VAI SYLLABLE ZHOO" -> 42378
      [] name = "VAI SYLLABLE COO" -> 42379
      [] name = "VAI SYLLABLE JOO" -> 42380
      [] name = "VAI SYLLABLE NJOO" -> 42381
      [] name = "VAI SYLLABLE YOO" -> 42382
      [] name = "VAI SYLLABLE KOO" -> 42383
      [] name = "VAI SYLLABLE NGGOO" -> 42384
      [] name = "VAI SYLLABLE GOO" -> 42385
      [] name = "VAI SYLLABLE MOO" -> 42386
      [] name = "VAI SYLLABLE NOO" -> 42387
      [] name = "VAI SYLLABLE NYOO" -> 42388
      [] name = "VAI SYLLABLE U" -> 42389
      [] name = "VAI SYLLABLE UN" -> 42390
      [] name = "VAI SYLLABLE HU" -> 42391
      [] name = "VAI SYLLABLE HUN" -> 42392
      [] name = "VAI SYLLABLE WU" -> 42393
      [] name = "VAI SYLLABLE WUN" -> 42394
      [] name = "VAI SYLLABLE PU" -> 42395
      [] name = "VAI SYLLABLE BHU" -> 42396
      [] name = "VAI SYLLABLE BU" -> 42397
      [] name = "VAI SYLLABLE MBU" -> 42398
      [] name = "VAI SYLLABLE KPU" -> 42399
      [] name = "VAI SYLLABLE MGBU" -> 42400
      [] name = "VAI SYLLABLE GBU" -> 42401
      [] name = "VAI SYLLABLE FU" -> 42402
      [] name = "VAI SYLLABLE VU" -> 42403
      [] name = "VAI SYLLABLE TU" -> 42404
      [] name = "VAI SYLLABLE THU" -> 42405
      [] name = "VAI SYLLABLE DHU" -> 42406
      [] name = "VAI SYLLABLE DHHU" -> 42407
      [] name = "VAI SYLLABLE LU" -> 42408
      [] name = "VAI SYLLABLE RU" -> 42409
      [] name = "VAI SYLLABLE DU" -> 42410
      [] name = "VAI SYLLABLE NDU" -> 42411
      [] name = "VAI SYLLABLE SU" -> 42412
      [] name = "VAI SYLLABLE SHU" -> 42413
      [] name = "VAI SYLLABLE ZU" -> 42414
      [] name = "VAI SYLLABLE ZHU" -> 42415
      [] name = "VAI SYLLABLE CU" -> 42416
      [] name = "VAI SYLLABLE JU" -> 42417
      [] name = "VAI SYLLABLE NJU" -> 42418
      [] name = "VAI SYLLABLE YU" -> 42419
      [] name = "VAI SYLLABLE KU" -> 42420
      [] name = "VAI SYLLABLE NGGU" -> 42421
      [] name = "VAI SYLLABLE GU" -> 42422
      [] name = "VAI SYLLABLE MU" -> 42423
      [] name = "VAI SYLLABLE NU" -> 42424
      [] name = "VAI SYLLABLE NYU" -> 42425
      [] name = "VAI SYLLABLE O" -> 42426
      [] name = "VAI SYLLABLE ON" -> 42427
      [] name = "VAI SYLLABLE NGON" -> 42428
      [] name = "VAI SYLLABLE HO" -> 42429
      [] name = "VAI SYLLABLE HON" -> 42430
      [] name = "VAI SYLLABLE WO" -> 42431
      [] name = "VAI SYLLABLE WON" -> 42432
      [] name = "VAI SYLLABLE PO" -> 42433
      [] name = "VAI SYLLABLE BHO" -> 42434
      [] name = "VAI SYLLABLE BO" -> 42435
      [] name = "VAI SYLLABLE MBO" -> 42436
      [] name = "VAI SYLLABLE KPO" -> 42437
      [] name = "VAI SYLLABLE MGBO" -> 42438
      [] name = "VAI SYLLABLE GBO" -> 42439
      [] name = "VAI SYLLABLE GBON" -> 42440
      [] name = "VAI SYLLABLE FO" -> 42441
      [] name = "VAI SYLLABLE VO" -> 42442
      [] name = "VAI SYLLABLE TO" -> 42443
      [] name = "VAI SYLLABLE THO" -> 42444
      [] name = "VAI SYLLABLE DHO" -> 42445
      [] name = "VAI SYLLABLE DHHO" -> 42446
      [] name = "VAI SYLLABLE LO" -> 42447
      [] name = "VAI SYLLABLE RO" -> 42448
      [] name = "VAI SYLLABLE DO" -> 42449
      [] name = "VAI SYLLABLE NDO" -> 42450
      [] name = "VAI SYLLABLE SO" -> 42451
      [] name = "VAI SYLLABLE SHO" -> 42452
      [] name = "VAI SYLLABLE ZO" -> 42453
      [] name = "VAI SYLLABLE ZHO" -> 42454
      [] name = "VAI SYLLABLE CO" -> 42455
      [] name = "VAI SYLLABLE JO" -> 42456
      [] name = "VAI SYLLABLE NJO" -> 42457
      [] name = "VAI SYLLABLE YO" -> 42458
      [] name = "VAI SYLLABLE KO" -> 42459
      [] name = "VAI SYLLABLE NGGO" -> 42460
      [] name = "VAI SYLLABLE GO" -> 42461
      [] name = "VAI SYLLABLE MO" -> 42462
      [] name = "VAI SYLLABLE NO" -> 42463
      [] name = "VAI SYLLABLE NYO" -> 42464
      [] name = "VAI SYLLABLE E" -> 42465
      [] name = "VAI SYLLABLE EN" -> 42466
      [] name = "VAI SYLLABLE NGEN" -> 42467
      [] name = "VAI SYLLABLE HE" -> 42468
      [] name = "VAI SYLLABLE HEN" -> 42469
      [] name = "VAI SYLLABLE WE" -> 42470
      [] name = "VAI SYLLABLE WEN" -> 42471
      [] name = "VAI SYLLABLE PE" -> 42472
      [] name = "VAI SYLLABLE BHE" -> 42473
      [] name = "VAI SYLLABLE BE" -> 42474
      [] name = "VAI SYLLABLE MBE" -> 42475
      [] name = "VAI SYLLABLE KPE" -> 42476
      [] name = "VAI SYLLABLE KPEN" -> 42477
      [] name = "VAI SYLLABLE MGBE" -> 42478
      [] name = "VAI SYLLABLE GBE" -> 42479
      [] name = "VAI SYLLABLE GBEN" -> 42480
      [] name = "VAI SYLLABLE FE" -> 42481
      [] name = "VAI SYLLABLE VE" -> 42482
      [] name = "VAI SYLLABLE TE" -> 42483
      [] name = "VAI SYLLABLE THE" -> 42484
      [] name = "VAI SYLLABLE DHE" -> 42485
      [] name = "VAI SYLLABLE DHHE" -> 42486
      [] name = "VAI SYLLABLE LE" -> 42487
      [] name = "VAI SYLLABLE RE" -> 42488
      [] name = "VAI SYLLABLE DE" -> 42489
      [] name = "VAI SYLLABLE NDE" -> 42490
      [] name = "VAI SYLLABLE SE" -> 42491
      [] name = "VAI SYLLABLE SHE" -> 42492
      [] name = "VAI SYLLABLE ZE" -> 42493
      [] name = "VAI SYLLABLE ZHE" -> 42494
      [] name = "VAI SYLLABLE CE" -> 42495
      [] name = "VAI SYLLABLE JE" -> 42496
      [] name = "VAI SYLLABLE NJE" -> 42497
      [] name = "VAI SYLLABLE YE" -> 42498
      [] name = "VAI SYLLABLE KE" -> 42499
      [] name = "VAI SYLLABLE NGGE" -> 42500
      [] name = "VAI SYLLABLE NGGEN" -> 42501
      [] name = "VAI SYLLABLE GE" -> 42502
      [] name = "VAI SYLLABLE GEN" -> 42503
      [] name = "VAI SYLLABLE ME" -> 42504
      [] name = "VAI SYLLABLE NE" -> 42505
      [] name = "VAI SYLLABLE NYE" -> 42506
      [] name = "VAI SYLLABLE NG" -> 42507
      [] name = "VAI SYLLABLE LENGTHENER" -> 42508
      [] name = "VAI COMMA" -> 42509
      [] name = "VAI FULL STOP" -> 42510
      [] name = "VAI QUESTION MARK" -> 42511
      [] name = "VAI SYLLABLE NDOLE FA" -> 42512
      [] name = "VAI SYLLABLE NDOLE KA" -> 42513
      [] name = "VAI SYLLABLE NDOLE SOO" -> 42514
      [] name = "VAI SYMBOL FEENG" -> 42515
      [] name = "VAI SYMBOL KEENG" -> 42516
      [] name = "VAI SYMBOL TING" -> 42517
      [] name = "VAI SYMBOL NII" -> 42518
      [] name = "VAI SYMBOL BANG" -> 42519
      [] name = "VAI SYMBOL FAA" -> 42520
      [] name = "VAI SYMBOL TAA" -> 42521
      [] name = "VAI SYMBOL DANG" -> 42522
      [] name = "VAI SYMBOL DOONG" -> 42523
      [] name = "VAI SYMBOL KUNG" -> 42524
      [] name = "VAI SYMBOL TONG" -> 42525
      [] name = "VAI SYMBOL DO-O" -> 42526
      [] name = "VAI SYMBOL JONG" -> 42527
      [] name = "VAI DIGIT ZERO" -> 42528
      [] name = "VAI DIGIT ONE" -> 42529
      [] name = "VAI DIGIT TWO" -> 42530
      [] name = "VAI DIGIT THREE" -> 42531
      [] name = "VAI DIGIT FOUR" -> 42532
      [] name = "VAI DIGIT FIVE" -> 42533
      [] name = "VAI DIGIT SIX" -> 42534
      [] name = "VAI DIGIT SEVEN" -> 42535
      [] name = "VAI DIGIT EIGHT" -> 42536
      [] name = "VAI DIGIT NINE" -> 42537
      [] name = "VAI SYLLABLE NDOLE MA" -> 42538
      [] name = "VAI SYLLABLE NDOLE DO" -> 42539
      [] name = "CYRILLIC CAPITAL LETTER ZEMLYA" -> 42560
      [] name = "CYRILLIC SMALL LETTER ZEMLYA" -> 42561
      [] name = "CYRILLIC CAPITAL LETTER DZELO" -> 42562
      [] name = "CYRILLIC SMALL LETTER DZELO" -> 42563
      [] name = "CYRILLIC CAPITAL LETTER REVERSED DZE" -> 42564
      [] name = "CYRILLIC SMALL LETTER REVERSED DZE" -> 42565
      [] name = "CYRILLIC CAPITAL LETTER IOTA" -> 42566
      [] name = "CYRILLIC SMALL LETTER IOTA" -> 42567
      [] name = "CYRILLIC CAPITAL LETTER DJERV" -> 42568
      [] name = "CYRILLIC SMALL LETTER DJERV" -> 42569
      [] name = "CYRILLIC CAPITAL LETTER MONOGRAPH UK" -> 42570
      [] name = "CYRILLIC SMALL LETTER MONOGRAPH UK" -> 42571
      [] name = "CYRILLIC CAPITAL LETTER BROAD OMEGA" -> 42572
      [] name = "CYRILLIC SMALL LETTER BROAD OMEGA" -> 42573
      [] name = "CYRILLIC CAPITAL LETTER NEUTRAL YER" -> 42574
      [] name = "CYRILLIC SMALL LETTER NEUTRAL YER" -> 42575
      [] name = "CYRILLIC CAPITAL LETTER YERU WITH BACK YER" -> 42576
      [] name = "CYRILLIC SMALL LETTER YERU WITH BACK YER" -> 42577
      [] name = "CYRILLIC CAPITAL LETTER IOTIFIED YAT" -> 42578
      [] name = "CYRILLIC SMALL LETTER IOTIFIED YAT" -> 42579
      [] name = "CYRILLIC CAPITAL LETTER REVERSED YU" -> 42580
      [] name = "CYRILLIC SMALL LETTER REVERSED YU" -> 42581
      [] name = "CYRILLIC CAPITAL LETTER IOTIFIED A" -> 42582
      [] name = "CYRILLIC SMALL LETTER IOTIFIED A" -> 42583
      [] name = "CYRILLIC CAPITAL LETTER CLOSED LITTLE YUS" -> 42584
      [] name = "CYRILLIC SMALL LETTER CLOSED LITTLE YUS" -> 42585
      [] name = "CYRILLIC CAPITAL LETTER BLENDED YUS" -> 42586
      [] name = "CYRILLIC SMALL LETTER BLENDED YUS" -> 42587
      [] name = "CYRILLIC CAPITAL LETTER IOTIFIED CLOSED LITTLE YUS" -> 42588
      [] name = "CYRILLIC SMALL LETTER IOTIFIED CLOSED LITTLE YUS" -> 42589
      [] name = "CYRILLIC CAPITAL LETTER YN" -> 42590
      [] name = "CYRILLIC SMALL LETTER YN" -> 42591
      [] name = "CYRILLIC CAPITAL LETTER REVERSED TSE" -> 42592
      [] name = "CYRILLIC SMALL LETTER REVERSED TSE" -> 42593
      [] name = "CYRILLIC CAPITAL LETTER SOFT DE" -> 42594
      [] name = "CYRILLIC SMALL LETTER SOFT DE" -> 42595
      [] name = "CYRILLIC CAPITAL LETTER SOFT EL" -> 42596
      [] name = "CYRILLIC SMALL LETTER SOFT EL" -> 42597
      [] name = "CYRILLIC CAPITAL LETTER SOFT EM" -> 42598
      [] name = "CYRILLIC SMALL LETTER SOFT EM" -> 42599
      [] name = "CYRILLIC CAPITAL LETTER MONOCULAR O" -> 42600
      [] name = "CYRILLIC SMALL LETTER MONOCULAR O" -> 42601
      [] name = "CYRILLIC CAPITAL LETTER BINOCULAR O" -> 42602
      [] name = "CYRILLIC SMALL LETTER BINOCULAR O" -> 42603
      [] name = "CYRILLIC CAPITAL LETTER DOUBLE MONOCULAR O" -> 42604
      [] name = "CYRILLIC SMALL LETTER DOUBLE MONOCULAR O" -> 42605
      [] name = "CYRILLIC LETTER MULTIOCULAR O" -> 42606
      [] name = "COMBINING CYRILLIC VZMET" -> 42607
      [] name = "COMBINING CYRILLIC TEN MILLIONS SIGN" -> 42608
      [] name = "COMBINING CYRILLIC HUNDRED MILLIONS SIGN" -> 42609
      [] name = "COMBINING CYRILLIC THOUSAND MILLIONS SIGN" -> 42610
      [] name = "SLAVONIC ASTERISK" -> 42611
      [] name = "COMBINING CYRILLIC LETTER UKRAINIAN IE" -> 42612
      [] name = "COMBINING CYRILLIC LETTER I" -> 42613
      [] name = "COMBINING CYRILLIC LETTER YI" -> 42614
      [] name = "COMBINING CYRILLIC LETTER U" -> 42615
      [] name = "COMBINING CYRILLIC LETTER HARD SIGN" -> 42616
      [] name = "COMBINING CYRILLIC LETTER YERU" -> 42617
      [] name = "COMBINING CYRILLIC LETTER SOFT SIGN" -> 42618
      [] name = "COMBINING CYRILLIC LETTER OMEGA" -> 42619
      [] name = "COMBINING CYRILLIC KAVYKA" -> 42620
      [] name = "COMBINING CYRILLIC PAYEROK" -> 42621
      [] name = "CYRILLIC KAVYKA" -> 42622
      [] name = "CYRILLIC PAYEROK" -> 42623
      [] name = "CYRILLIC CAPITAL LETTER DWE" -> 42624
      [] name = "CYRILLIC SMALL LETTER DWE" -> 42625
      [] name = "CYRILLIC CAPITAL LETTER DZWE" -> 42626
      [] name = "CYRILLIC SMALL LETTER DZWE" -> 42627
      [] name = "CYRILLIC CAPITAL LETTER ZHWE" -> 42628
      [] name = "CYRILLIC SMALL LETTER ZHWE" -> 42629
      [] name = "CYRILLIC CAPITAL LETTER CCHE" -> 42630
      [] name = "CYRILLIC SMALL LETTER CCHE" -> 42631
      [] name = "CYRILLIC CAPITAL LETTER DZZE" -> 42632
      [] name = "CYRILLIC SMALL LETTER DZZE" -> 42633
      [] name = "CYRILLIC CAPITAL LETTER TE WITH MIDDLE HOOK" -> 42634
      [] name = "CYRILLIC SMALL LETTER TE WITH MIDDLE HOOK" -> 42635
      [] name = "CYRILLIC CAPITAL LETTER TWE" -> 42636
      [] name = "CYRILLIC SMALL LETTER TWE" -> 42637
      [] name = "CYRILLIC CAPITAL LETTER TSWE" -> 42638
      [] name = "CYRILLIC SMALL LETTER TSWE" -> 42639
      [] name = "CYRILLIC CAPITAL LETTER TSSE" -> 42640
      [] name = "CYRILLIC SMALL LETTER TSSE" -> 42641
      [] name = "CYRILLIC CAPITAL LETTER TCHE" -> 42642
      [] name = "CYRILLIC SMALL LETTER TCHE" -> 42643
      [] name = "CYRILLIC CAPITAL LETTER HWE" -> 42644
      [] name = "CYRILLIC SMALL LETTER HWE" -> 42645
      [] name = "CYRILLIC CAPITAL LETTER SHWE" -> 42646
      [] name = "CYRILLIC SMALL LETTER SHWE" -> 42647
      [] name = "CYRILLIC CAPITAL LETTER DOUBLE O" -> 42648
      [] name = "CYRILLIC SMALL LETTER DOUBLE O" -> 42649
      [] name = "CYRILLIC CAPITAL LETTER CROSSED O" -> 42650
      [] name = "CYRILLIC SMALL LETTER CROSSED O" -> 42651
      [] name = "MODIFIER LETTER CYRILLIC HARD SIGN" -> 42652
      [] name = "MODIFIER LETTER CYRILLIC SOFT SIGN" -> 42653
      [] name = "COMBINING CYRILLIC LETTER EF" -> 42654
      [] name = "COMBINING CYRILLIC LETTER IOTIFIED E" -> 42655
      [] name = "BAMUM LETTER A" -> 42656
      [] name = "BAMUM LETTER KA" -> 42657
      [] name = "BAMUM LETTER U" -> 42658
      [] name = "BAMUM LETTER KU" -> 42659
      [] name = "BAMUM LETTER EE" -> 42660
      [] name = "BAMUM LETTER REE" -> 42661
      [] name = "BAMUM LETTER TAE" -> 42662
      [] name = "BAMUM LETTER O" -> 42663
      [] name = "BAMUM LETTER NYI" -> 42664
      [] name = "BAMUM LETTER I" -> 42665
      [] name = "BAMUM LETTER LA" -> 42666
      [] name = "BAMUM LETTER PA" -> 42667
      [] name = "BAMUM LETTER RII" -> 42668
      [] name = "BAMUM LETTER RIEE" -> 42669
      [] name = "BAMUM LETTER LEEEE" -> 42670
      [] name = "BAMUM LETTER MEEEE" -> 42671
      [] name = "BAMUM LETTER TAA" -> 42672
      [] name = "BAMUM LETTER NDAA" -> 42673
      [] name = "BAMUM LETTER NJAEM" -> 42674
      [] name = "BAMUM LETTER M" -> 42675
      [] name = "BAMUM LETTER SUU" -> 42676
      [] name = "BAMUM LETTER MU" -> 42677
      [] name = "BAMUM LETTER SHII" -> 42678
      [] name = "BAMUM LETTER SI" -> 42679
      [] name = "BAMUM LETTER SHEUX" -> 42680
      [] name = "BAMUM LETTER SEUX" -> 42681
      [] name = "BAMUM LETTER KYEE" -> 42682
      [] name = "BAMUM LETTER KET" -> 42683
      [] name = "BAMUM LETTER NUAE" -> 42684
      [] name = "BAMUM LETTER NU" -> 42685
      [] name = "BAMUM LETTER NJUAE" -> 42686
      [] name = "BAMUM LETTER YOQ" -> 42687
      [] name = "BAMUM LETTER SHU" -> 42688
      [] name = "BAMUM LETTER YUQ" -> 42689
      [] name = "BAMUM LETTER YA" -> 42690
      [] name = "BAMUM LETTER NSHA" -> 42691
      [] name = "BAMUM LETTER KEUX" -> 42692
      [] name = "BAMUM LETTER PEUX" -> 42693
      [] name = "BAMUM LETTER NJEE" -> 42694
      [] name = "BAMUM LETTER NTEE" -> 42695
      [] name = "BAMUM LETTER PUE" -> 42696
      [] name = "BAMUM LETTER WUE" -> 42697
      [] name = "BAMUM LETTER PEE" -> 42698
      [] name = "BAMUM LETTER FEE" -> 42699
      [] name = "BAMUM LETTER RU" -> 42700
      [] name = "BAMUM LETTER LU" -> 42701
      [] name = "BAMUM LETTER MI" -> 42702
      [] name = "BAMUM LETTER NI" -> 42703
      [] name = "BAMUM LETTER REUX" -> 42704
      [] name = "BAMUM LETTER RAE" -> 42705
      [] name = "BAMUM LETTER KEN" -> 42706
      [] name = "BAMUM LETTER NGKWAEN" -> 42707
      [] name = "BAMUM LETTER NGGA" -> 42708
      [] name = "BAMUM LETTER NGA" -> 42709
      [] name = "BAMUM LETTER SHO" -> 42710
      [] name = "BAMUM LETTER PUAE" -> 42711
      [] name = "BAMUM LETTER FU" -> 42712
      [] name = "BAMUM LETTER FOM" -> 42713
      [] name = "BAMUM LETTER WA" -> 42714
      [] name = "BAMUM LETTER NA" -> 42715
      [] name = "BAMUM LETTER LI" -> 42716
      [] name = "BAMUM LETTER PI" -> 42717
      [] name = "BAMUM LETTER LOQ" -> 42718
      [] name = "BAMUM LETTER KO" -> 42719
      [] name = "BAMUM LETTER MBEN" -> 42720
      [] name = "BAMUM LETTER REN" -> 42721
      [] name = "BAMUM LETTER MEN" -> 42722
      [] name = "BAMUM LETTER MA" -> 42723
      [] name = "BAMUM LETTER TI" -> 42724
      [] name = "BAMUM LETTER KI" -> 42725
      [] name = "BAMUM LETTER MO" -> 42726
      [] name = "BAMUM LETTER MBAA" -> 42727
      [] name = "BAMUM LETTER TET" -> 42728
      [] name = "BAMUM LETTER KPA" -> 42729
      [] name = "BAMUM LETTER TEN" -> 42730
      [] name = "BAMUM LETTER NTUU" -> 42731
      [] name = "BAMUM LETTER SAMBA" -> 42732
      [] name = "BAMUM LETTER FAAMAE" -> 42733
      [] name = "BAMUM LETTER KOVUU" -> 42734
      [] name = "BAMUM LETTER KOGHOM" -> 42735
      [] name = "BAMUM COMBINING MARK KOQNDON" -> 42736
      [] name = "BAMUM COMBINING MARK TUKWENTIS" -> 42737
      [] name = "BAMUM NJAEMLI" -> 42738
      [] name = "BAMUM FULL STOP" -> 42739
      [] name = "BAMUM COLON" -> 42740
      [] name = "BAMUM COMMA" -> 42741
      [] name = "BAMUM SEMICOLON" -> 42742
      [] name = "BAMUM QUESTION MARK" -> 42743
      [] name = "MODIFIER LETTER CHINESE TONE YIN PING" -> 42752
      [] name = "MODIFIER LETTER CHINESE TONE YANG PING" -> 42753
      [] name = "MODIFIER LETTER CHINESE TONE YIN SHANG" -> 42754
      [] name = "MODIFIER LETTER CHINESE TONE YANG SHANG" -> 42755
      [] name = "MODIFIER LETTER CHINESE TONE YIN QU" -> 42756
      [] name = "MODIFIER LETTER CHINESE TONE YANG QU" -> 42757
      [] name = "MODIFIER LETTER CHINESE TONE YIN RU" -> 42758
      [] name = "MODIFIER LETTER CHINESE TONE YANG RU" -> 42759
      [] name = "MODIFIER LETTER EXTRA-HIGH DOTTED TONE BAR" -> 42760
      [] name = "MODIFIER LETTER HIGH DOTTED TONE BAR" -> 42761
      [] name = "MODIFIER LETTER MID DOTTED TONE BAR" -> 42762
      [] name = "MODIFIER LETTER LOW DOTTED TONE BAR" -> 42763
      [] name = "MODIFIER LETTER EXTRA-LOW DOTTED TONE BAR" -> 42764
      [] name = "MODIFIER LETTER EXTRA-HIGH DOTTED LEFT-STEM TONE BAR" -> 42765
      [] name = "MODIFIER LETTER HIGH DOTTED LEFT-STEM TONE BAR" -> 42766
      [] name = "MODIFIER LETTER MID DOTTED LEFT-STEM TONE BAR" -> 42767
      [] name = "MODIFIER LETTER LOW DOTTED LEFT-STEM TONE BAR" -> 42768
      [] name = "MODIFIER LETTER EXTRA-LOW DOTTED LEFT-STEM TONE BAR" -> 42769
      [] name = "MODIFIER LETTER EXTRA-HIGH LEFT-STEM TONE BAR" -> 42770
      [] name = "MODIFIER LETTER HIGH LEFT-STEM TONE BAR" -> 42771
      [] name = "MODIFIER LETTER MID LEFT-STEM TONE BAR" -> 42772
      [] name = "MODIFIER LETTER LOW LEFT-STEM TONE BAR" -> 42773
      [] name = "MODIFIER LETTER EXTRA-LOW LEFT-STEM TONE BAR" -> 42774
      [] name = "MODIFIER LETTER DOT VERTICAL BAR" -> 42775
      [] name = "MODIFIER LETTER DOT SLASH" -> 42776
      [] name = "MODIFIER LETTER DOT HORIZONTAL BAR" -> 42777
      [] name = "MODIFIER LETTER LOWER RIGHT CORNER ANGLE" -> 42778
      [] name = "MODIFIER LETTER RAISED UP ARROW" -> 42779
      [] name = "MODIFIER LETTER RAISED DOWN ARROW" -> 42780
      [] name = "MODIFIER LETTER RAISED EXCLAMATION MARK" -> 42781
      [] name = "MODIFIER LETTER RAISED INVERTED EXCLAMATION MARK" -> 42782
      [] name = "MODIFIER LETTER LOW INVERTED EXCLAMATION MARK" -> 42783
      [] name = "MODIFIER LETTER STRESS AND HIGH TONE" -> 42784
      [] name = "MODIFIER LETTER STRESS AND LOW TONE" -> 42785
      [] name = "LATIN CAPITAL LETTER EGYPTOLOGICAL ALEF" -> 42786
      [] name = "LATIN SMALL LETTER EGYPTOLOGICAL ALEF" -> 42787
      [] name = "LATIN CAPITAL LETTER EGYPTOLOGICAL AIN" -> 42788
      [] name = "LATIN SMALL LETTER EGYPTOLOGICAL AIN" -> 42789
      [] name = "LATIN CAPITAL LETTER HENG" -> 42790
      [] name = "LATIN SMALL LETTER HENG" -> 42791
      [] name = "LATIN CAPITAL LETTER TZ" -> 42792
      [] name = "LATIN SMALL LETTER TZ" -> 42793
      [] name = "LATIN CAPITAL LETTER TRESILLO" -> 42794
      [] name = "LATIN SMALL LETTER TRESILLO" -> 42795
      [] name = "LATIN CAPITAL LETTER CUATRILLO" -> 42796
      [] name = "LATIN SMALL LETTER CUATRILLO" -> 42797
      [] name = "LATIN CAPITAL LETTER CUATRILLO WITH COMMA" -> 42798
      [] name = "LATIN SMALL LETTER CUATRILLO WITH COMMA" -> 42799
      [] name = "LATIN LETTER SMALL CAPITAL F" -> 42800
      [] name = "LATIN LETTER SMALL CAPITAL S" -> 42801
      [] name = "LATIN CAPITAL LETTER AA" -> 42802
      [] name = "LATIN SMALL LETTER AA" -> 42803
      [] name = "LATIN CAPITAL LETTER AO" -> 42804
      [] name = "LATIN SMALL LETTER AO" -> 42805
      [] name = "LATIN CAPITAL LETTER AU" -> 42806
      [] name = "LATIN SMALL LETTER AU" -> 42807
      [] name = "LATIN CAPITAL LETTER AV" -> 42808
      [] name = "LATIN SMALL LETTER AV" -> 42809
      [] name = "LATIN CAPITAL LETTER AV WITH HORIZONTAL BAR" -> 42810
      [] name = "LATIN SMALL LETTER AV WITH HORIZONTAL BAR" -> 42811
      [] name = "LATIN CAPITAL LETTER AY" -> 42812
      [] name = "LATIN SMALL LETTER AY" -> 42813
      [] name = "LATIN CAPITAL LETTER REVERSED C WITH DOT" -> 42814
      [] name = "LATIN SMALL LETTER REVERSED C WITH DOT" -> 42815
      [] name = "LATIN CAPITAL LETTER K WITH STROKE" -> 42816
      [] name = "LATIN SMALL LETTER K WITH STROKE" -> 42817
      [] name = "LATIN CAPITAL LETTER K WITH DIAGONAL STROKE" -> 42818
      [] name = "LATIN SMALL LETTER K WITH DIAGONAL STROKE" -> 42819
      [] name = "LATIN CAPITAL LETTER K WITH STROKE AND DIAGONAL STROKE" -> 42820
      [] name = "LATIN SMALL LETTER K WITH STROKE AND DIAGONAL STROKE" -> 42821
      [] name = "LATIN CAPITAL LETTER BROKEN L" -> 42822
      [] name = "LATIN SMALL LETTER BROKEN L" -> 42823
      [] name = "LATIN CAPITAL LETTER L WITH HIGH STROKE" -> 42824
      [] name = "LATIN SMALL LETTER L WITH HIGH STROKE" -> 42825
      [] name = "LATIN CAPITAL LETTER O WITH LONG STROKE OVERLAY" -> 42826
      [] name = "LATIN SMALL LETTER O WITH LONG STROKE OVERLAY" -> 42827
      [] name = "LATIN CAPITAL LETTER O WITH LOOP" -> 42828
      [] name = "LATIN SMALL LETTER O WITH LOOP" -> 42829
      [] name = "LATIN CAPITAL LETTER OO" -> 42830
      [] name = "LATIN SMALL LETTER OO" -> 42831
      [] name = "LATIN CAPITAL LETTER P WITH STROKE THROUGH DESCENDER" -> 42832
      [] name = "LATIN SMALL LETTER P WITH STROKE THROUGH DESCENDER" -> 42833
      [] name = "LATIN CAPITAL LETTER P WITH FLOURISH" -> 42834
      [] name = "LATIN SMALL LETTER P WITH FLOURISH" -> 42835
      [] name = "LATIN CAPITAL LETTER P WITH SQUIRREL TAIL" -> 42836
      [] name = "LATIN SMALL LETTER P WITH SQUIRREL TAIL" -> 42837
      [] name = "LATIN CAPITAL LETTER Q WITH STROKE THROUGH DESCENDER" -> 42838
      [] name = "LATIN SMALL LETTER Q WITH STROKE THROUGH DESCENDER" -> 42839
      [] name = "LATIN CAPITAL LETTER Q WITH DIAGONAL STROKE" -> 42840
      [] name = "LATIN SMALL LETTER Q WITH DIAGONAL STROKE" -> 42841
      [] name = "LATIN CAPITAL LETTER R ROTUNDA" -> 42842
      [] name = "LATIN SMALL LETTER R ROTUNDA" -> 42843
      [] name = "LATIN CAPITAL LETTER RUM ROTUNDA" -> 42844
      [] name = "LATIN SMALL LETTER RUM ROTUNDA" -> 42845
      [] name = "LATIN CAPITAL LETTER V WITH DIAGONAL STROKE" -> 42846
      [] name = "LATIN SMALL LETTER V WITH DIAGONAL STROKE" -> 42847
      [] name = "LATIN CAPITAL LETTER VY" -> 42848
      [] name = "LATIN SMALL LETTER VY" -> 42849
      [] name = "LATIN CAPITAL LETTER VISIGOTHIC Z" -> 42850
      [] name = "LATIN SMALL LETTER VISIGOTHIC Z" -> 42851
      [] name = "LATIN CAPITAL LETTER THORN WITH STROKE" -> 42852
      [] name = "LATIN SMALL LETTER THORN WITH STROKE" -> 42853
      [] name = "LATIN CAPITAL LETTER THORN WITH STROKE THROUGH DESCENDER" -> 42854
      [] name = "LATIN SMALL LETTER THORN WITH STROKE THROUGH DESCENDER" -> 42855
      [] name = "LATIN CAPITAL LETTER VEND" -> 42856
      [] name = "LATIN SMALL LETTER VEND" -> 42857
      [] name = "LATIN CAPITAL LETTER ET" -> 42858
      [] name = "LATIN SMALL LETTER ET" -> 42859
      [] name = "LATIN CAPITAL LETTER IS" -> 42860
      [] name = "LATIN SMALL LETTER IS" -> 42861
      [] name = "LATIN CAPITAL LETTER CON" -> 42862
      [] name = "LATIN SMALL LETTER CON" -> 42863
      [] name = "MODIFIER LETTER US" -> 42864
      [] name = "LATIN SMALL LETTER DUM" -> 42865
      [] name = "LATIN SMALL LETTER LUM" -> 42866
      [] name = "LATIN SMALL LETTER MUM" -> 42867
      [] name = "LATIN SMALL LETTER NUM" -> 42868
      [] name = "LATIN SMALL LETTER RUM" -> 42869
      [] name = "LATIN LETTER SMALL CAPITAL RUM" -> 42870
      [] name = "LATIN SMALL LETTER TUM" -> 42871
      [] name = "LATIN SMALL LETTER UM" -> 42872
      [] name = "LATIN CAPITAL LETTER INSULAR D" -> 42873
      [] name = "LATIN SMALL LETTER INSULAR D" -> 42874
      [] name = "LATIN CAPITAL LETTER INSULAR F" -> 42875
      [] name = "LATIN SMALL LETTER INSULAR F" -> 42876
      [] name = "LATIN CAPITAL LETTER INSULAR G" -> 42877
      [] name = "LATIN CAPITAL LETTER TURNED INSULAR G" -> 42878
      [] name = "LATIN SMALL LETTER TURNED INSULAR G" -> 42879
      [] name = "LATIN CAPITAL LETTER TURNED L" -> 42880
      [] name = "LATIN SMALL LETTER TURNED L" -> 42881
      [] name = "LATIN CAPITAL LETTER INSULAR R" -> 42882
      [] name = "LATIN SMALL LETTER INSULAR R" -> 42883
      [] name = "LATIN CAPITAL LETTER INSULAR S" -> 42884
      [] name = "LATIN SMALL LETTER INSULAR S" -> 42885
      [] name = "LATIN CAPITAL LETTER INSULAR T" -> 42886
      [] name = "LATIN SMALL LETTER INSULAR T" -> 42887
      [] name = "MODIFIER LETTER LOW CIRCUMFLEX ACCENT" -> 42888
      [] name = "MODIFIER LETTER COLON" -> 42889
      [] name = "MODIFIER LETTER SHORT EQUALS SIGN" -> 42890
      [] name = "LATIN CAPITAL LETTER SALTILLO" -> 42891
      [] name = "LATIN SMALL LETTER SALTILLO" -> 42892
      [] name = "LATIN CAPITAL LETTER TURNED H" -> 42893
      [] name = "LATIN SMALL LETTER L WITH RETROFLEX HOOK AND BELT" -> 42894
      [] name = "LATIN LETTER SINOLOGICAL DOT" -> 42895
      [] name = "LATIN CAPITAL LETTER N WITH DESCENDER" -> 42896
      [] name = "LATIN SMALL LETTER N WITH DESCENDER" -> 42897
      [] name = "LATIN CAPITAL LETTER C WITH BAR" -> 42898
      [] name = "LATIN SMALL LETTER C WITH BAR" -> 42899
      [] name = "LATIN SMALL LETTER C WITH PALATAL HOOK" -> 42900
      [] name = "LATIN SMALL LETTER H WITH PALATAL HOOK" -> 42901
      [] name = "LATIN CAPITAL LETTER B WITH FLOURISH" -> 42902
      [] name = "LATIN SMALL LETTER B WITH FLOURISH" -> 42903
      [] name = "LATIN CAPITAL LETTER F WITH STROKE" -> 42904
      [] name = "LATIN SMALL LETTER F WITH STROKE" -> 42905
      [] name = "LATIN CAPITAL LETTER VOLAPUK AE" -> 42906
      [] name = "LATIN SMALL LETTER VOLAPUK AE" -> 42907
      [] name = "LATIN CAPITAL LETTER VOLAPUK OE" -> 42908
      [] name = "LATIN SMALL LETTER VOLAPUK OE" -> 42909
      [] name = "LATIN CAPITAL LETTER VOLAPUK UE" -> 42910
      [] name = "LATIN SMALL LETTER VOLAPUK UE" -> 42911
      [] name = "LATIN CAPITAL LETTER G WITH OBLIQUE STROKE" -> 42912
      [] name = "LATIN SMALL LETTER G WITH OBLIQUE STROKE" -> 42913
      [] name = "LATIN CAPITAL LETTER K WITH OBLIQUE STROKE" -> 42914
      [] name = "LATIN SMALL LETTER K WITH OBLIQUE STROKE" -> 42915
      [] name = "LATIN CAPITAL LETTER N WITH OBLIQUE STROKE" -> 42916
      [] name = "LATIN SMALL LETTER N WITH OBLIQUE STROKE" -> 42917
      [] name = "LATIN CAPITAL LETTER R WITH OBLIQUE STROKE" -> 42918
      [] name = "LATIN SMALL LETTER R WITH OBLIQUE STROKE" -> 42919
      [] name = "LATIN CAPITAL LETTER S WITH OBLIQUE STROKE" -> 42920
      [] name = "LATIN SMALL LETTER S WITH OBLIQUE STROKE" -> 42921
      [] name = "LATIN CAPITAL LETTER H WITH HOOK" -> 42922
      [] name = "LATIN CAPITAL LETTER REVERSED OPEN E" -> 42923
      [] name = "LATIN CAPITAL LETTER SCRIPT G" -> 42924
      [] name = "LATIN CAPITAL LETTER L WITH BELT" -> 42925
      [] name = "LATIN CAPITAL LETTER SMALL CAPITAL I" -> 42926
      [] name = "LATIN LETTER SMALL CAPITAL Q" -> 42927
      [] name = "LATIN CAPITAL LETTER TURNED K" -> 42928
      [] name = "LATIN CAPITAL LETTER TURNED T" -> 42929
      [] name = "LATIN CAPITAL LETTER J WITH CROSSED-TAIL" -> 42930
      [] name = "LATIN CAPITAL LETTER CHI" -> 42931
      [] name = "LATIN CAPITAL LETTER BETA" -> 42932
      [] name = "LATIN SMALL LETTER BETA" -> 42933
      [] name = "LATIN CAPITAL LETTER OMEGA" -> 42934
      [] name = "LATIN SMALL LETTER OMEGA" -> 42935
      [] name = "LATIN CAPITAL LETTER U WITH STROKE" -> 42936
      [] name = "LATIN SMALL LETTER U WITH STROKE" -> 42937
      [] name = "LATIN CAPITAL LETTER GLOTTAL A" -> 42938
      [] name = "LATIN SMALL LETTER GLOTTAL A" -> 42939
      [] name = "LATIN CAPITAL LETTER GLOTTAL I" -> 42940
      [] name = "LATIN SMALL LETTER GLOTTAL I" -> 42941
      [] name = "LATIN CAPITAL LETTER GLOTTAL U" -> 42942
      [] name = "LATIN SMALL LETTER GLOTTAL U" -> 42943
      [] name = "LATIN CAPITAL LETTER OLD POLISH O" -> 42944
      [] name = "LATIN SMALL LETTER OLD POLISH O" -> 42945
      [] name = "LATIN CAPITAL LETTER ANGLICANA W" -> 42946
      [] name = "LATIN SMALL LETTER ANGLICANA W" -> 42947
      [] name = "LATIN CAPITAL LETTER C WITH PALATAL HOOK" -> 42948
      [] name = "LATIN CAPITAL LETTER S WITH HOOK" -> 42949
      [] name = "LATIN CAPITAL LETTER Z WITH PALATAL HOOK" -> 42950
      [] name = "LATIN CAPITAL LETTER D WITH SHORT STROKE OVERLAY" -> 42951
      [] name = "LATIN SMALL LETTER D WITH SHORT STROKE OVERLAY" -> 42952
      [] name = "LATIN CAPITAL LETTER S WITH SHORT STROKE OVERLAY" -> 42953
      [] name = "LATIN SMALL LETTER S WITH SHORT STROKE OVERLAY" -> 42954
      [] name = "LATIN CAPITAL LETTER CLOSED INSULAR G" -> 42960
      [] name = "LATIN SMALL LETTER CLOSED INSULAR G" -> 42961
      [] name = "LATIN SMALL LETTER DOUBLE THORN" -> 42963
      [] name = "LATIN SMALL LETTER DOUBLE WYNN" -> 42965
      [] name = "LATIN CAPITAL LETTER MIDDLE SCOTS S" -> 42966
      [] name = "LATIN SMALL LETTER MIDDLE SCOTS S" -> 42967
      [] name = "LATIN CAPITAL LETTER SIGMOID S" -> 42968
      [] name = "LATIN SMALL LETTER SIGMOID S" -> 42969
      [] name = "MODIFIER LETTER CAPITAL C" -> 42994
      [] name = "MODIFIER LETTER CAPITAL F" -> 42995
      [] name = "MODIFIER LETTER CAPITAL Q" -> 42996
      [] name = "LATIN CAPITAL LETTER REVERSED HALF H" -> 42997
      [] name = "LATIN SMALL LETTER REVERSED HALF H" -> 42998
      [] name = "LATIN EPIGRAPHIC LETTER SIDEWAYS I" -> 42999
      [] name = "MODIFIER LETTER CAPITAL H WITH STROKE" -> 43000
      [] name = "MODIFIER LETTER SMALL LIGATURE OE" -> 43001
      [] name = "LATIN LETTER SMALL CAPITAL TURNED M" -> 43002
      [] name = "LATIN EPIGRAPHIC LETTER REVERSED F" -> 43003
      [] name = "LATIN EPIGRAPHIC LETTER REVERSED P" -> 43004
      [] name = "LATIN EPIGRAPHIC LETTER INVERTED M" -> 43005
      [] name = "LATIN EPIGRAPHIC LETTER I LONGA" -> 43006
      [] name = "LATIN EPIGRAPHIC LETTER ARCHAIC M" -> 43007
      [] name = "SYLOTI NAGRI LETTER A" -> 43008
      [] name = "SYLOTI NAGRI LETTER I" -> 43009
      [] name = "SYLOTI NAGRI SIGN DVISVARA" -> 43010
      [] name = "SYLOTI NAGRI LETTER U" -> 43011
      [] name = "SYLOTI NAGRI LETTER E" -> 43012
      [] name = "SYLOTI NAGRI LETTER O" -> 43013
      [] name = "SYLOTI NAGRI SIGN HASANTA" -> 43014
      [] name = "SYLOTI NAGRI LETTER KO" -> 43015
      [] name = "SYLOTI NAGRI LETTER KHO" -> 43016
      [] name = "SYLOTI NAGRI LETTER GO" -> 43017
      [] name = "SYLOTI NAGRI LETTER GHO" -> 43018
      [] name = "SYLOTI NAGRI SIGN ANUSVARA" -> 43019
      [] name = "SYLOTI NAGRI LETTER CO" -> 43020
      [] name = "SYLOTI NAGRI LETTER CHO" -> 43021
      [] name = "SYLOTI NAGRI LETTER JO" -> 43022
      [] name = "SYLOTI NAGRI LETTER JHO" -> 43023
      [] name = "SYLOTI NAGRI LETTER TTO" -> 43024
      [] name = "SYLOTI NAGRI LETTER TTHO" -> 43025
      [] name = "SYLOTI NAGRI LETTER DDO" -> 43026
      [] name = "SYLOTI NAGRI LETTER DDHO" -> 43027
      [] name = "SYLOTI NAGRI LETTER TO" -> 43028
      [] name = "SYLOTI NAGRI LETTER THO" -> 43029
      [] name = "SYLOTI NAGRI LETTER DO" -> 43030
      [] name = "SYLOTI NAGRI LETTER DHO" -> 43031
      [] name = "SYLOTI NAGRI LETTER NO" -> 43032
      [] name = "SYLOTI NAGRI LETTER PO" -> 43033
      [] name = "SYLOTI NAGRI LETTER PHO" -> 43034
      [] name = "SYLOTI NAGRI LETTER BO" -> 43035
      [] name = "SYLOTI NAGRI LETTER BHO" -> 43036
      [] name = "SYLOTI NAGRI LETTER MO" -> 43037
      [] name = "SYLOTI NAGRI LETTER RO" -> 43038
      [] name = "SYLOTI NAGRI LETTER LO" -> 43039
      [] name = "SYLOTI NAGRI LETTER RRO" -> 43040
      [] name = "SYLOTI NAGRI LETTER SO" -> 43041
      [] name = "SYLOTI NAGRI LETTER HO" -> 43042
      [] name = "SYLOTI NAGRI VOWEL SIGN A" -> 43043
      [] name = "SYLOTI NAGRI VOWEL SIGN I" -> 43044
      [] name = "SYLOTI NAGRI VOWEL SIGN U" -> 43045
      [] name = "SYLOTI NAGRI VOWEL SIGN E" -> 43046
      [] name = "SYLOTI NAGRI VOWEL SIGN OO" -> 43047
      [] name = "SYLOTI NAGRI POETRY MARK-1" -> 43048
      [] name = "SYLOTI NAGRI POETRY MARK-2" -> 43049
      [] name = "SYLOTI NAGRI POETRY MARK-3" -> 43050
      [] name = "SYLOTI NAGRI POETRY MARK-4" -> 43051
      [] name = "SYLOTI NAGRI SIGN ALTERNATE HASANTA" -> 43052
      [] name = "NORTH INDIC FRACTION ONE QUARTER" -> 43056
      [] name = "NORTH INDIC FRACTION ONE HALF" -> 43057
      [] name = "NORTH INDIC FRACTION THREE QUARTERS" -> 43058
      [] name = "NORTH INDIC FRACTION ONE SIXTEENTH" -> 43059
      [] name = "NORTH INDIC FRACTION ONE EIGHTH" -> 43060
      [] name = "NORTH INDIC FRACTION THREE SIXTEENTHS" -> 43061
      [] name = "NORTH INDIC QUARTER MARK" -> 43062
      [] name = "NORTH INDIC PLACEHOLDER MARK" -> 43063
      [] name = "NORTH INDIC RUPEE MARK" -> 43064
      [] name = "NORTH INDIC QUANTITY MARK" -> 43065
      [] name = "PHAGS-PA LETTER KA" -> 43072
      [] name = "PHAGS-PA LETTER KHA" -> 43073
      [] name = "PHAGS-PA LETTER GA" -> 43074
      [] name = "PHAGS-PA LETTER NGA" -> 43075
      [] name = "PHAGS-PA LETTER CA" -> 43076
      [] name = "PHAGS-PA LETTER CHA" -> 43077
      [] name = "PHAGS-PA LETTER JA" -> 43078
      [] name = "PHAGS-PA LETTER NYA" -> 43079
      [] name = "PHAGS-PA LETTER TA" -> 43080
      [] name = "PHAGS-PA LETTER THA" -> 43081
      [] name = "PHAGS-PA LETTER DA" -> 43082
      [] name = "PHAGS-PA LETTER NA" -> 43083
      [] name = "PHAGS-PA LETTER PA" -> 43084
      [] name = "PHAGS-PA LETTER PHA" -> 43085
      [] name = "PHAGS-PA LETTER BA" -> 43086
      [] name = "PHAGS-PA LETTER MA" -> 43087
      [] name = "PHAGS-PA LETTER TSA" -> 43088
      [] name = "PHAGS-PA LETTER TSHA" -> 43089
      [] name = "PHAGS-PA LETTER DZA" -> 43090
      [] name = "PHAGS-PA LETTER WA" -> 43091
      [] name = "PHAGS-PA LETTER ZHA" -> 43092
      [] name = "PHAGS-PA LETTER ZA" -> 43093
      [] name = "PHAGS-PA LETTER SMALL A" -> 43094
      [] name = "PHAGS-PA LETTER YA" -> 43095
      [] name = "PHAGS-PA LETTER RA" -> 43096
      [] name = "PHAGS-PA LETTER LA" -> 43097
      [] name = "PHAGS-PA LETTER SHA" -> 43098
      [] name = "PHAGS-PA LETTER SA" -> 43099
      [] name = "PHAGS-PA LETTER HA" -> 43100
      [] name = "PHAGS-PA LETTER A" -> 43101
      [] name = "PHAGS-PA LETTER I" -> 43102
      [] name = "PHAGS-PA LETTER U" -> 43103
      [] name = "PHAGS-PA LETTER E" -> 43104
      [] name = "PHAGS-PA LETTER O" -> 43105
      [] name = "PHAGS-PA LETTER QA" -> 43106
      [] name = "PHAGS-PA LETTER XA" -> 43107
      [] name = "PHAGS-PA LETTER FA" -> 43108
      [] name = "PHAGS-PA LETTER GGA" -> 43109
      [] name = "PHAGS-PA LETTER EE" -> 43110
      [] name = "PHAGS-PA SUBJOINED LETTER WA" -> 43111
      [] name = "PHAGS-PA SUBJOINED LETTER YA" -> 43112
      [] name = "PHAGS-PA LETTER TTA" -> 43113
      [] name = "PHAGS-PA LETTER TTHA" -> 43114
      [] name = "PHAGS-PA LETTER DDA" -> 43115
      [] name = "PHAGS-PA LETTER NNA" -> 43116
      [] name = "PHAGS-PA LETTER ALTERNATE YA" -> 43117
      [] name = "PHAGS-PA LETTER VOICELESS SHA" -> 43118
      [] name = "PHAGS-PA LETTER VOICED HA" -> 43119
      [] name = "PHAGS-PA LETTER ASPIRATED FA" -> 43120
      [] name = "PHAGS-PA SUBJOINED LETTER RA" -> 43121
      [] name = "PHAGS-PA SUPERFIXED LETTER RA" -> 43122
      [] name = "PHAGS-PA LETTER CANDRABINDU" -> 43123
      [] name = "PHAGS-PA SINGLE HEAD MARK" -> 43124
      [] name = "PHAGS-PA DOUBLE HEAD MARK" -> 43125
      [] name = "PHAGS-PA MARK SHAD" -> 43126
      [] name = "PHAGS-PA MARK DOUBLE SHAD" -> 43127
      [] name = "SAURASHTRA SIGN ANUSVARA" -> 43136
      [] name = "SAURASHTRA SIGN VISARGA" -> 43137
      [] name = "SAURASHTRA LETTER A" -> 43138
      [] name = "SAURASHTRA LETTER AA" -> 43139
      [] name = "SAURASHTRA LETTER I" -> 43140
      [] name = "SAURASHTRA LETTER II" -> 43141
      [] name = "SAURASHTRA LETTER U" -> 43142
      [] name = "SAURASHTRA LETTER UU" -> 43143
      [] name = "SAURASHTRA LETTER VOCALIC R" -> 43144
      [] name = "SAURASHTRA LETTER VOCALIC RR" -> 43145
      [] name = "SAURASHTRA LETTER VOCALIC L" -> 43146
      [] name = "SAURASHTRA LETTER VOCALIC LL" -> 43147
      [] name = "SAURASHTRA LETTER E" -> 43148
      [] name = "SAURASHTRA LETTER EE" -> 43149
      [] name = "SAURASHTRA LETTER AI" -> 43150
      [] name = "SAURASHTRA LETTER O" -> 43151
      [] name = "SAURASHTRA LETTER OO" -> 43152
      [] name = "SAURASHTRA LETTER AU" -> 43153
      [] name = "SAURASHTRA LETTER KA" -> 43154
      [] name = "SAURASHTRA LETTER KHA" -> 43155
      [] name = "SAURASHTRA LETTER GA" -> 43156
      [] name = "SAURASHTRA LETTER GHA" -> 43157
      [] name = "SAURASHTRA LETTER NGA" -> 43158
      [] name = "SAURASHTRA LETTER CA" -> 43159
      [] name = "SAURASHTRA LETTER CHA" -> 43160
      [] name = "SAURASHTRA LETTER JA" -> 43161
      [] name = "SAURASHTRA LETTER JHA" -> 43162
      [] name = "SAURASHTRA LETTER NYA" -> 43163
      [] name = "SAURASHTRA LETTER TTA" -> 43164
      [] name = "SAURASHTRA LETTER TTHA" -> 43165
      [] name = "SAURASHTRA LETTER DDA" -> 43166
      [] name = "SAURASHTRA LETTER DDHA" -> 43167
      [] name = "SAURASHTRA LETTER NNA" -> 43168
      [] name = "SAURASHTRA LETTER TA" -> 43169
      [] name = "SAURASHTRA LETTER THA" -> 43170
      [] name = "SAURASHTRA LETTER DA" -> 43171
      [] name = "SAURASHTRA LETTER DHA" -> 43172
      [] name = "SAURASHTRA LETTER NA" -> 43173
      [] name = "SAURASHTRA LETTER PA" -> 43174
      [] name = "SAURASHTRA LETTER PHA" -> 43175
      [] name = "SAURASHTRA LETTER BA" -> 43176
      [] name = "SAURASHTRA LETTER BHA" -> 43177
      [] name = "SAURASHTRA LETTER MA" -> 43178
      [] name = "SAURASHTRA LETTER YA" -> 43179
      [] name = "SAURASHTRA LETTER RA" -> 43180
      [] name = "SAURASHTRA LETTER LA" -> 43181
      [] name = "SAURASHTRA LETTER VA" -> 43182
      [] name = "SAURASHTRA LETTER SHA" -> 43183
      [] name = "SAURASHTRA LETTER SSA" -> 43184
      [] name = "SAURASHTRA LETTER SA" -> 43185
      [] name = "SAURASHTRA LETTER HA" -> 43186
      [] name = "SAURASHTRA LETTER LLA" -> 43187
      [] name = "SAURASHTRA CONSONANT SIGN HAARU" -> 43188
      [] name = "SAURASHTRA VOWEL SIGN AA" -> 43189
      [] name = "SAURASHTRA VOWEL SIGN I" -> 43190
      [] name = "SAURASHTRA VOWEL SIGN II" -> 43191
      [] name = "SAURASHTRA VOWEL SIGN U" -> 43192
      [] name = "SAURASHTRA VOWEL SIGN UU" -> 43193
      [] name = "SAURASHTRA VOWEL SIGN VOCALIC R" -> 43194
      [] name = "SAURASHTRA VOWEL SIGN VOCALIC RR" -> 43195
      [] name = "SAURASHTRA VOWEL SIGN VOCALIC L" -> 43196
      [] name = "SAURASHTRA VOWEL SIGN VOCALIC LL" -> 43197
      [] name = "SAURASHTRA VOWEL SIGN E" -> 43198
      [] name = "SAURASHTRA VOWEL SIGN EE" -> 43199
      [] name = "SAURASHTRA VOWEL SIGN AI" -> 43200
      [] name = "SAURASHTRA VOWEL SIGN O" -> 43201
      [] name = "SAURASHTRA VOWEL SIGN OO" -> 43202
      [] name = "SAURASHTRA VOWEL SIGN AU" -> 43203
      [] name = "SAURASHTRA SIGN VIRAMA" -> 43204
      [] name = "SAURASHTRA SIGN CANDRABINDU" -> 43205
      [] name = "SAURASHTRA DANDA" -> 43214
      [] name = "SAURASHTRA DOUBLE DANDA" -> 43215
      [] name = "SAURASHTRA DIGIT ZERO" -> 43216
      [] name = "SAURASHTRA DIGIT ONE" -> 43217
      [] name = "SAURASHTRA DIGIT TWO" -> 43218
      [] name = "SAURASHTRA DIGIT THREE" -> 43219
      [] name = "SAURASHTRA DIGIT FOUR" -> 43220
      [] name = "SAURASHTRA DIGIT FIVE" -> 43221
      [] name = "SAURASHTRA DIGIT SIX" -> 43222
      [] name = "SAURASHTRA DIGIT SEVEN" -> 43223
      [] name = "SAURASHTRA DIGIT EIGHT" -> 43224
      [] name = "SAURASHTRA DIGIT NINE" -> 43225
      [] name = "COMBINING DEVANAGARI DIGIT ZERO" -> 43232
      [] name = "COMBINING DEVANAGARI DIGIT ONE" -> 43233
      [] name = "COMBINING DEVANAGARI DIGIT TWO" -> 43234
      [] name = "COMBINING DEVANAGARI DIGIT THREE" -> 43235
      [] name = "COMBINING DEVANAGARI DIGIT FOUR" -> 43236
      [] name = "COMBINING DEVANAGARI DIGIT FIVE" -> 43237
      [] name = "COMBINING DEVANAGARI DIGIT SIX" -> 43238
      [] name = "COMBINING DEVANAGARI DIGIT SEVEN" -> 43239
      [] name = "COMBINING DEVANAGARI DIGIT EIGHT" -> 43240
      [] name = "COMBINING DEVANAGARI DIGIT NINE" -> 43241
      [] name = "COMBINING DEVANAGARI LETTER A" -> 43242
      [] name = "COMBINING DEVANAGARI LETTER U" -> 43243
      [] name = "COMBINING DEVANAGARI LETTER KA" -> 43244
      [] name = "COMBINING DEVANAGARI LETTER NA" -> 43245
      [] name = "COMBINING DEVANAGARI LETTER PA" -> 43246
      [] name = "COMBINING DEVANAGARI LETTER RA" -> 43247
      [] name = "COMBINING DEVANAGARI LETTER VI" -> 43248
      [] name = "COMBINING DEVANAGARI SIGN AVAGRAHA" -> 43249
      [] name = "DEVANAGARI SIGN SPACING CANDRABINDU" -> 43250
      [] name = "DEVANAGARI SIGN CANDRABINDU VIRAMA" -> 43251
      [] name = "DEVANAGARI SIGN DOUBLE CANDRABINDU VIRAMA" -> 43252
      [] name = "DEVANAGARI SIGN CANDRABINDU TWO" -> 43253
      [] name = "DEVANAGARI SIGN CANDRABINDU THREE" -> 43254
      [] name = "DEVANAGARI SIGN CANDRABINDU AVAGRAHA" -> 43255
      [] name = "DEVANAGARI SIGN PUSHPIKA" -> 43256
      [] name = "DEVANAGARI GAP FILLER" -> 43257
      [] name = "DEVANAGARI CARET" -> 43258
      [] name = "DEVANAGARI HEADSTROKE" -> 43259
      [] name = "DEVANAGARI SIGN SIDDHAM" -> 43260
      [] name = "DEVANAGARI JAIN OM" -> 43261
      [] name = "DEVANAGARI LETTER AY" -> 43262
      [] name = "DEVANAGARI VOWEL SIGN AY" -> 43263
      [] name = "KAYAH LI DIGIT ZERO" -> 43264
      [] name = "KAYAH LI DIGIT ONE" -> 43265
      [] name = "KAYAH LI DIGIT TWO" -> 43266
      [] name = "KAYAH LI DIGIT THREE" -> 43267
      [] name = "KAYAH LI DIGIT FOUR" -> 43268
      [] name = "KAYAH LI DIGIT FIVE" -> 43269
      [] name = "KAYAH LI DIGIT SIX" -> 43270
      [] name = "KAYAH LI DIGIT SEVEN" -> 43271
      [] name = "KAYAH LI DIGIT EIGHT" -> 43272
      [] name = "KAYAH LI DIGIT NINE" -> 43273
      [] name = "KAYAH LI LETTER KA" -> 43274
      [] name = "KAYAH LI LETTER KHA" -> 43275
      [] name = "KAYAH LI LETTER GA" -> 43276
      [] name = "KAYAH LI LETTER NGA" -> 43277
      [] name = "KAYAH LI LETTER SA" -> 43278
      [] name = "KAYAH LI LETTER SHA" -> 43279
      [] name = "KAYAH LI LETTER ZA" -> 43280
      [] name = "KAYAH LI LETTER NYA" -> 43281
      [] name = "KAYAH LI LETTER TA" -> 43282
      [] name = "KAYAH LI LETTER HTA" -> 43283
      [] name = "KAYAH LI LETTER NA" -> 43284
      [] name = "KAYAH LI LETTER PA" -> 43285
      [] name = "KAYAH LI LETTER PHA" -> 43286
      [] name = "KAYAH LI LETTER MA" -> 43287
      [] name = "KAYAH LI LETTER DA" -> 43288
      [] name = "KAYAH LI LETTER BA" -> 43289
      [] name = "KAYAH LI LETTER RA" -> 43290
      [] name = "KAYAH LI LETTER YA" -> 43291
      [] name = "KAYAH LI LETTER LA" -> 43292
      [] name = "KAYAH LI LETTER WA" -> 43293
      [] name = "KAYAH LI LETTER THA" -> 43294
      [] name = "KAYAH LI LETTER HA" -> 43295
      [] name = "KAYAH LI LETTER VA" -> 43296
      [] name = "KAYAH LI LETTER CA" -> 43297
      [] name = "KAYAH LI LETTER A" -> 43298
      [] name = "KAYAH LI LETTER OE" -> 43299
      [] name = "KAYAH LI LETTER I" -> 43300
      [] name = "KAYAH LI LETTER OO" -> 43301
      [] name = "KAYAH LI VOWEL UE" -> 43302
      [] name = "KAYAH LI VOWEL E" -> 43303
      [] name = "KAYAH LI VOWEL U" -> 43304
      [] name = "KAYAH LI VOWEL EE" -> 43305
      [] name = "KAYAH LI VOWEL O" -> 43306
      [] name = "KAYAH LI TONE PLOPHU" -> 43307
      [] name = "KAYAH LI TONE CALYA" -> 43308
      [] name = "KAYAH LI TONE CALYA PLOPHU" -> 43309
      [] name = "KAYAH LI SIGN CWI" -> 43310
      [] name = "KAYAH LI SIGN SHYA" -> 43311
      [] name = "REJANG LETTER KA" -> 43312
      [] name = "REJANG LETTER GA" -> 43313
      [] name = "REJANG LETTER NGA" -> 43314
      [] name = "REJANG LETTER TA" -> 43315
      [] name = "REJANG LETTER DA" -> 43316
      [] name = "REJANG LETTER NA" -> 43317
      [] name = "REJANG LETTER PA" -> 43318
      [] name = "REJANG LETTER BA" -> 43319
      [] name = "REJANG LETTER MA" -> 43320
      [] name = "REJANG LETTER CA" -> 43321
      [] name = "REJANG LETTER JA" -> 43322
      [] name = "REJANG LETTER NYA" -> 43323
      [] name = "REJANG LETTER SA" -> 43324
      [] name = "REJANG LETTER RA" -> 43325
      [] name = "REJANG LETTER LA" -> 43326
      [] name = "REJANG LETTER YA" -> 43327
      [] name = "REJANG LETTER WA" -> 43328
      [] name = "REJANG LETTER HA" -> 43329
      [] name = "REJANG LETTER MBA" -> 43330
      [] name = "REJANG LETTER NGGA" -> 43331
      [] name = "REJANG LETTER NDA" -> 43332
      [] name = "REJANG LETTER NYJA" -> 43333
      [] name = "REJANG LETTER A" -> 43334
      [] name = "REJANG VOWEL SIGN I" -> 43335
      [] name = "REJANG VOWEL SIGN U" -> 43336
      [] name = "REJANG VOWEL SIGN E" -> 43337
      [] name = "REJANG VOWEL SIGN AI" -> 43338
      [] name = "REJANG VOWEL SIGN O" -> 43339
      [] name = "REJANG VOWEL SIGN AU" -> 43340
      [] name = "REJANG VOWEL SIGN EU" -> 43341
      [] name = "REJANG VOWEL SIGN EA" -> 43342
      [] name = "REJANG CONSONANT SIGN NG" -> 43343
      [] name = "REJANG CONSONANT SIGN N" -> 43344
      [] name = "REJANG CONSONANT SIGN R" -> 43345
      [] name = "REJANG CONSONANT SIGN H" -> 43346
      [] name = "REJANG VIRAMA" -> 43347
      [] name = "REJANG SECTION MARK" -> 43359
      [] name = "HANGUL CHOSEONG TIKEUT-MIEUM" -> 43360
      [] name = "HANGUL CHOSEONG TIKEUT-PIEUP" -> 43361
      [] name = "HANGUL CHOSEONG TIKEUT-SIOS" -> 43362
      [] name = "HANGUL CHOSEONG TIKEUT-CIEUC" -> 43363
      [] name = "HANGUL CHOSEONG RIEUL-KIYEOK" -> 43364
      [] name = "HANGUL CHOSEONG RIEUL-SSANGKIYEOK" -> 43365
      [] name = "HANGUL CHOSEONG RIEUL-TIKEUT" -> 43366
      [] name = "HANGUL CHOSEONG RIEUL-SSANGTIKEUT" -> 43367
      [] name = "HANGUL CHOSEONG RIEUL-MIEUM" -> 43368
      [] name = "HANGUL CHOSEONG RIEUL-PIEUP" -> 43369
      [] name = "HANGUL CHOSEONG RIEUL-SSANGPIEUP" -> 43370
      [] name = "HANGUL CHOSEONG RIEUL-KAPYEOUNPIEUP" -> 43371
      [] name = "HANGUL CHOSEONG RIEUL-SIOS" -> 43372
      [] name = "HANGUL CHOSEONG RIEUL-CIEUC" -> 43373
      [] name = "HANGUL CHOSEONG RIEUL-KHIEUKH" -> 43374
      [] name = "HANGUL CHOSEONG MIEUM-KIYEOK" -> 43375
      [] name = "HANGUL CHOSEONG MIEUM-TIKEUT" -> 43376
      [] name = "HANGUL CHOSEONG MIEUM-SIOS" -> 43377
      [] name = "HANGUL CHOSEONG PIEUP-SIOS-THIEUTH" -> 43378
      [] name = "HANGUL CHOSEONG PIEUP-KHIEUKH" -> 43379
      [] name = "HANGUL CHOSEONG PIEUP-HIEUH" -> 43380
      [] name = "HANGUL CHOSEONG SSANGSIOS-PIEUP" -> 43381
      [] name = "HANGUL CHOSEONG IEUNG-RIEUL" -> 43382
      [] name = "HANGUL CHOSEONG IEUNG-HIEUH" -> 43383
      [] name = "HANGUL CHOSEONG SSANGCIEUC-HIEUH" -> 43384
      [] name = "HANGUL CHOSEONG SSANGTHIEUTH" -> 43385
      [] name = "HANGUL CHOSEONG PHIEUPH-HIEUH" -> 43386
      [] name = "HANGUL CHOSEONG HIEUH-SIOS" -> 43387
      [] name = "HANGUL CHOSEONG SSANGYEORINHIEUH" -> 43388
      [] name = "JAVANESE SIGN PANYANGGA" -> 43392
      [] name = "JAVANESE SIGN CECAK" -> 43393
      [] name = "JAVANESE SIGN LAYAR" -> 43394
      [] name = "JAVANESE SIGN WIGNYAN" -> 43395
      [] name = "JAVANESE LETTER A" -> 43396
      [] name = "JAVANESE LETTER I KAWI" -> 43397
      [] name = "JAVANESE LETTER I" -> 43398
      [] name = "JAVANESE LETTER II" -> 43399
      [] name = "JAVANESE LETTER U" -> 43400
      [] name = "JAVANESE LETTER PA CEREK" -> 43401
      [] name = "JAVANESE LETTER NGA LELET" -> 43402
      [] name = "JAVANESE LETTER NGA LELET RASWADI" -> 43403
      [] name = "JAVANESE LETTER E" -> 43404
      [] name = "JAVANESE LETTER AI" -> 43405
      [] name = "JAVANESE LETTER O" -> 43406
      [] name = "JAVANESE LETTER KA" -> 43407
      [] name = "JAVANESE LETTER KA SASAK" -> 43408
      [] name = "JAVANESE LETTER KA MURDA" -> 43409
      [] name = "JAVANESE LETTER GA" -> 43410
      [] name = "JAVANESE LETTER GA MURDA" -> 43411
      [] name = "JAVANESE LETTER NGA" -> 43412
      [] name = "JAVANESE LETTER CA" -> 43413
      [] name = "JAVANESE LETTER CA MURDA" -> 43414
      [] name = "JAVANESE LETTER JA" -> 43415
      [] name = "JAVANESE LETTER NYA MURDA" -> 43416
      [] name = "JAVANESE LETTER JA MAHAPRANA" -> 43417
      [] name = "JAVANESE LETTER NYA" -> 43418
      [] name = "JAVANESE LETTER TTA" -> 43419
      [] name = "JAVANESE LETTER TTA MAHAPRANA" -> 43420
      [] name = "JAVANESE LETTER DDA" -> 43421
      [] name = "JAVANESE LETTER DDA MAHAPRANA" -> 43422
      [] name = "JAVANESE LETTER NA MURDA" -> 43423
      [] name = "JAVANESE LETTER TA" -> 43424
      [] name = "JAVANESE LETTER TA MURDA" -> 43425
      [] name = "JAVANESE LETTER DA" -> 43426
      [] name = "JAVANESE LETTER DA MAHAPRANA" -> 43427
      [] name = "JAVANESE LETTER NA" -> 43428
      [] name = "JAVANESE LETTER PA" -> 43429
      [] name = "JAVANESE LETTER PA MURDA" -> 43430
      [] name = "JAVANESE LETTER BA" -> 43431
      [] name = "JAVANESE LETTER BA MURDA" -> 43432
      [] name = "JAVANESE LETTER MA" -> 43433
      [] name = "JAVANESE LETTER YA" -> 43434
      [] name = "JAVANESE LETTER RA" -> 43435
      [] name = "JAVANESE LETTER RA AGUNG" -> 43436
      [] name = "JAVANESE LETTER LA" -> 43437
      [] name = "JAVANESE LETTER WA" -> 43438
      [] name = "JAVANESE LETTER SA MURDA" -> 43439
      [] name = "JAVANESE LETTER SA MAHAPRANA" -> 43440
      [] name = "JAVANESE LETTER SA" -> 43441
      [] name = "JAVANESE LETTER HA" -> 43442
      [] name = "JAVANESE SIGN CECAK TELU" -> 43443
      [] name = "JAVANESE VOWEL SIGN TARUNG" -> 43444
      [] name = "JAVANESE VOWEL SIGN TOLONG" -> 43445
      [] name = "JAVANESE VOWEL SIGN WULU" -> 43446
      [] name = "JAVANESE VOWEL SIGN WULU MELIK" -> 43447
      [] name = "JAVANESE VOWEL SIGN SUKU" -> 43448
      [] name = "JAVANESE VOWEL SIGN SUKU MENDUT" -> 43449
      [] name = "JAVANESE VOWEL SIGN TALING" -> 43450
      [] name = "JAVANESE VOWEL SIGN DIRGA MURE" -> 43451
      [] name = "JAVANESE VOWEL SIGN PEPET" -> 43452
      [] name = "JAVANESE CONSONANT SIGN KERET" -> 43453
      [] name = "JAVANESE CONSONANT SIGN PENGKAL" -> 43454
      [] name = "JAVANESE CONSONANT SIGN CAKRA" -> 43455
      [] name = "JAVANESE PANGKON" -> 43456
      [] name = "JAVANESE LEFT RERENGGAN" -> 43457
      [] name = "JAVANESE RIGHT RERENGGAN" -> 43458
      [] name = "JAVANESE PADA ANDAP" -> 43459
      [] name = "JAVANESE PADA MADYA" -> 43460
      [] name = "JAVANESE PADA LUHUR" -> 43461
      [] name = "JAVANESE PADA WINDU" -> 43462
      [] name = "JAVANESE PADA PANGKAT" -> 43463
      [] name = "JAVANESE PADA LINGSA" -> 43464
      [] name = "JAVANESE PADA LUNGSI" -> 43465
      [] name = "JAVANESE PADA ADEG" -> 43466
      [] name = "JAVANESE PADA ADEG ADEG" -> 43467
      [] name = "JAVANESE PADA PISELEH" -> 43468
      [] name = "JAVANESE TURNED PADA PISELEH" -> 43469
      [] name = "JAVANESE PANGRANGKEP" -> 43471
      [] name = "JAVANESE DIGIT ZERO" -> 43472
      [] name = "JAVANESE DIGIT ONE" -> 43473
      [] name = "JAVANESE DIGIT TWO" -> 43474
      [] name = "JAVANESE DIGIT THREE" -> 43475
      [] name = "JAVANESE DIGIT FOUR" -> 43476
      [] name = "JAVANESE DIGIT FIVE" -> 43477
      [] name = "JAVANESE DIGIT SIX" -> 43478
      [] name = "JAVANESE DIGIT SEVEN" -> 43479
      [] name = "JAVANESE DIGIT EIGHT" -> 43480
      [] name = "JAVANESE DIGIT NINE" -> 43481
      [] name = "JAVANESE PADA TIRTA TUMETES" -> 43486
      [] name = "JAVANESE PADA ISEN-ISEN" -> 43487
      [] name = "MYANMAR LETTER SHAN GHA" -> 43488
      [] name = "MYANMAR LETTER SHAN CHA" -> 43489
      [] name = "MYANMAR LETTER SHAN JHA" -> 43490
      [] name = "MYANMAR LETTER SHAN NNA" -> 43491
      [] name = "MYANMAR LETTER SHAN BHA" -> 43492
      [] name = "MYANMAR SIGN SHAN SAW" -> 43493
      [] name = "MYANMAR MODIFIER LETTER SHAN REDUPLICATION" -> 43494
      [] name = "MYANMAR LETTER TAI LAING NYA" -> 43495
      [] name = "MYANMAR LETTER TAI LAING FA" -> 43496
      [] name = "MYANMAR LETTER TAI LAING GA" -> 43497
      [] name = "MYANMAR LETTER TAI LAING GHA" -> 43498
      [] name = "MYANMAR LETTER TAI LAING JA" -> 43499
      [] name = "MYANMAR LETTER TAI LAING JHA" -> 43500
      [] name = "MYANMAR LETTER TAI LAING DDA" -> 43501
      [] name = "MYANMAR LETTER TAI LAING DDHA" -> 43502
      [] name = "MYANMAR LETTER TAI LAING NNA" -> 43503
      [] name = "MYANMAR TAI LAING DIGIT ZERO" -> 43504
      [] name = "MYANMAR TAI LAING DIGIT ONE" -> 43505
      [] name = "MYANMAR TAI LAING DIGIT TWO" -> 43506
      [] name = "MYANMAR TAI LAING DIGIT THREE" -> 43507
      [] name = "MYANMAR TAI LAING DIGIT FOUR" -> 43508
      [] name = "MYANMAR TAI LAING DIGIT FIVE" -> 43509
      [] name = "MYANMAR TAI LAING DIGIT SIX" -> 43510
      [] name = "MYANMAR TAI LAING DIGIT SEVEN" -> 43511
      [] name = "MYANMAR TAI LAING DIGIT EIGHT" -> 43512
      [] name = "MYANMAR TAI LAING DIGIT NINE" -> 43513
      [] name = "MYANMAR LETTER TAI LAING LLA" -> 43514
      [] name = "MYANMAR LETTER TAI LAING DA" -> 43515
      [] name = "MYANMAR LETTER TAI LAING DHA" -> 43516
      [] name = "MYANMAR LETTER TAI LAING BA" -> 43517
      [] name = "MYANMAR LETTER TAI LAING BHA" -> 43518
      [] name = "CHAM LETTER A" -> 43520
      [] name = "CHAM LETTER I" -> 43521
      [] name = "CHAM LETTER U" -> 43522
      [] name = "CHAM LETTER E" -> 43523
      [] name = "CHAM LETTER AI" -> 43524
      [] name = "CHAM LETTER O" -> 43525
      [] name = "CHAM LETTER KA" -> 43526
      [] name = "CHAM LETTER KHA" -> 43527
      [] name = "CHAM LETTER GA" -> 43528
      [] name = "CHAM LETTER GHA" -> 43529
      [] name = "CHAM LETTER NGUE" -> 43530
      [] name = "CHAM LETTER NGA" -> 43531
      [] name = "CHAM LETTER CHA" -> 43532
      [] name = "CHAM LETTER CHHA" -> 43533
      [] name = "CHAM LETTER JA" -> 43534
      [] name = "CHAM LETTER JHA" -> 43535
      [] name = "CHAM LETTER NHUE" -> 43536
      [] name = "CHAM LETTER NHA" -> 43537
      [] name = "CHAM LETTER NHJA" -> 43538
      [] name = "CHAM LETTER TA" -> 43539
      [] name = "CHAM LETTER THA" -> 43540
      [] name = "CHAM LETTER DA" -> 43541
      [] name = "CHAM LETTER DHA" -> 43542
      [] name = "CHAM LETTER NUE" -> 43543
      [] name = "CHAM LETTER NA" -> 43544
      [] name = "CHAM LETTER DDA" -> 43545
      [] name = "CHAM LETTER PA" -> 43546
      [] name = "CHAM LETTER PPA" -> 43547
      [] name = "CHAM LETTER PHA" -> 43548
      [] name = "CHAM LETTER BA" -> 43549
      [] name = "CHAM LETTER BHA" -> 43550
      [] name = "CHAM LETTER MUE" -> 43551
      [] name = "CHAM LETTER MA" -> 43552
      [] name = "CHAM LETTER BBA" -> 43553
      [] name = "CHAM LETTER YA" -> 43554
      [] name = "CHAM LETTER RA" -> 43555
      [] name = "CHAM LETTER LA" -> 43556
      [] name = "CHAM LETTER VA" -> 43557
      [] name = "CHAM LETTER SSA" -> 43558
      [] name = "CHAM LETTER SA" -> 43559
      [] name = "CHAM LETTER HA" -> 43560
      [] name = "CHAM VOWEL SIGN AA" -> 43561
      [] name = "CHAM VOWEL SIGN I" -> 43562
      [] name = "CHAM VOWEL SIGN II" -> 43563
      [] name = "CHAM VOWEL SIGN EI" -> 43564
      [] name = "CHAM VOWEL SIGN U" -> 43565
      [] name = "CHAM VOWEL SIGN OE" -> 43566
      [] name = "CHAM VOWEL SIGN O" -> 43567
      [] name = "CHAM VOWEL SIGN AI" -> 43568
      [] name = "CHAM VOWEL SIGN AU" -> 43569
      [] name = "CHAM VOWEL SIGN UE" -> 43570
      [] name = "CHAM CONSONANT SIGN YA" -> 43571
      [] name = "CHAM CONSONANT SIGN RA" -> 43572
      [] name = "CHAM CONSONANT SIGN LA" -> 43573
      [] name = "CHAM CONSONANT SIGN WA" -> 43574
      [] name = "CHAM LETTER FINAL K" -> 43584
      [] name = "CHAM LETTER FINAL G" -> 43585
      [] name = "CHAM LETTER FINAL NG" -> 43586
      [] name = "CHAM CONSONANT SIGN FINAL NG" -> 43587
      [] name = "CHAM LETTER FINAL CH" -> 43588
      [] name = "CHAM LETTER FINAL T" -> 43589
      [] name = "CHAM LETTER FINAL N" -> 43590
      [] name = "CHAM LETTER FINAL P" -> 43591
      [] name = "CHAM LETTER FINAL Y" -> 43592
      [] name = "CHAM LETTER FINAL R" -> 43593
      [] name = "CHAM LETTER FINAL L" -> 43594
      [] name = "CHAM LETTER FINAL SS" -> 43595
      [] name = "CHAM CONSONANT SIGN FINAL M" -> 43596
      [] name = "CHAM CONSONANT SIGN FINAL H" -> 43597
      [] name = "CHAM DIGIT ZERO" -> 43600
      [] name = "CHAM DIGIT ONE" -> 43601
      [] name = "CHAM DIGIT TWO" -> 43602
      [] name = "CHAM DIGIT THREE" -> 43603
      [] name = "CHAM DIGIT FOUR" -> 43604
      [] name = "CHAM DIGIT FIVE" -> 43605
      [] name = "CHAM DIGIT SIX" -> 43606
      [] name = "CHAM DIGIT SEVEN" -> 43607
      [] name = "CHAM DIGIT EIGHT" -> 43608
      [] name = "CHAM DIGIT NINE" -> 43609
      [] name = "CHAM PUNCTUATION SPIRAL" -> 43612
      [] name = "CHAM PUNCTUATION DANDA" -> 43613
      [] name = "CHAM PUNCTUATION DOUBLE DANDA" -> 43614
      [] name = "CHAM PUNCTUATION TRIPLE DANDA" -> 43615
      [] name = "MYANMAR LETTER KHAMTI GA" -> 43616
      [] name = "MYANMAR LETTER KHAMTI CA" -> 43617
      [] name = "MYANMAR LETTER KHAMTI CHA" -> 43618
      [] name = "MYANMAR LETTER KHAMTI JA" -> 43619
      [] name = "MYANMAR LETTER KHAMTI JHA" -> 43620
      [] name = "MYANMAR LETTER KHAMTI NYA" -> 43621
      [] name = "MYANMAR LETTER KHAMTI TTA" -> 43622
      [] name = "MYANMAR LETTER KHAMTI TTHA" -> 43623
      [] name = "MYANMAR LETTER KHAMTI DDA" -> 43624
      [] name = "MYANMAR LETTER KHAMTI DDHA" -> 43625
      [] name = "MYANMAR LETTER KHAMTI DHA" -> 43626
      [] name = "MYANMAR LETTER KHAMTI NA" -> 43627
      [] name = "MYANMAR LETTER KHAMTI SA" -> 43628
      [] name = "MYANMAR LETTER KHAMTI HA" -> 43629
      [] name = "MYANMAR LETTER KHAMTI HHA" -> 43630
      [] name = "MYANMAR LETTER KHAMTI LLA" -> 43630
      [] name = "MYANMAR LETTER KHAMTI FA" -> 43631
      [] name = "MYANMAR MODIFIER LETTER KHAMTI REDUPLICATION" -> 43632
      [] name = "MYANMAR LETTER KHAMTI XA" -> 43633
      [] name = "MYANMAR LETTER KHAMTI ZA" -> 43634
      [] name = "MYANMAR LETTER KHAMTI RA" -> 43635
      [] name = "MYANMAR LOGOGRAM KHAMTI OAY" -> 43636
      [] name = "MYANMAR LOGOGRAM KHAMTI QN" -> 43637
      [] name = "MYANMAR LOGOGRAM KHAMTI HM" -> 43638
      [] name = "MYANMAR SYMBOL AITON EXCLAMATION" -> 43639
      [] name = "MYANMAR SYMBOL AITON ONE" -> 43640
      [] name = "MYANMAR SYMBOL AITON TWO" -> 43641
      [] name = "MYANMAR LETTER AITON RA" -> 43642
      [] name = "MYANMAR SIGN PAO KAREN TONE" -> 43643
      [] name = "MYANMAR SIGN TAI LAING TONE-2" -> 43644
      [] name = "MYANMAR SIGN TAI LAING TONE-5" -> 43645
      [] name = "MYANMAR LETTER SHWE PALAUNG CHA" -> 43646
      [] name = "MYANMAR LETTER SHWE PALAUNG SHA" -> 43647
      [] name = "TAI VIET LETTER LOW KO" -> 43648
      [] name = "TAI VIET LETTER HIGH KO" -> 43649
      [] name = "TAI VIET LETTER LOW KHO" -> 43650
      [] name = "TAI VIET LETTER HIGH KHO" -> 43651
      [] name = "TAI VIET LETTER LOW KHHO" -> 43652
      [] name = "TAI VIET LETTER HIGH KHHO" -> 43653
      [] name = "TAI VIET LETTER LOW GO" -> 43654
      [] name = "TAI VIET LETTER HIGH GO" -> 43655
      [] name = "TAI VIET LETTER LOW NGO" -> 43656
      [] name = "TAI VIET LETTER HIGH NGO" -> 43657
      [] name = "TAI VIET LETTER LOW CO" -> 43658
      [] name = "TAI VIET LETTER HIGH CO" -> 43659
      [] name = "TAI VIET LETTER LOW CHO" -> 43660
      [] name = "TAI VIET LETTER HIGH CHO" -> 43661
      [] name = "TAI VIET LETTER LOW SO" -> 43662
      [] name = "TAI VIET LETTER HIGH SO" -> 43663
      [] name = "TAI VIET LETTER LOW NYO" -> 43664
      [] name = "TAI VIET LETTER HIGH NYO" -> 43665
      [] name = "TAI VIET LETTER LOW DO" -> 43666
      [] name = "TAI VIET LETTER HIGH DO" -> 43667
      [] name = "TAI VIET LETTER LOW TO" -> 43668
      [] name = "TAI VIET LETTER HIGH TO" -> 43669
      [] name = "TAI VIET LETTER LOW THO" -> 43670
      [] name = "TAI VIET LETTER HIGH THO" -> 43671
      [] name = "TAI VIET LETTER LOW NO" -> 43672
      [] name = "TAI VIET LETTER HIGH NO" -> 43673
      [] name = "TAI VIET LETTER LOW BO" -> 43674
      [] name = "TAI VIET LETTER HIGH BO" -> 43675
      [] name = "TAI VIET LETTER LOW PO" -> 43676
      [] name = "TAI VIET LETTER HIGH PO" -> 43677
      [] name = "TAI VIET LETTER LOW PHO" -> 43678
      [] name = "TAI VIET LETTER HIGH PHO" -> 43679
      [] name = "TAI VIET LETTER LOW FO" -> 43680
      [] name = "TAI VIET LETTER HIGH FO" -> 43681
      [] name = "TAI VIET LETTER LOW MO" -> 43682
      [] name = "TAI VIET LETTER HIGH MO" -> 43683
      [] name = "TAI VIET LETTER LOW YO" -> 43684
      [] name = "TAI VIET LETTER HIGH YO" -> 43685
      [] name = "TAI VIET LETTER LOW RO" -> 43686
      [] name = "TAI VIET LETTER HIGH RO" -> 43687
      [] name = "TAI VIET LETTER LOW LO" -> 43688
      [] name = "TAI VIET LETTER HIGH LO" -> 43689
      [] name = "TAI VIET LETTER LOW VO" -> 43690
      [] name = "TAI VIET LETTER HIGH VO" -> 43691
      [] name = "TAI VIET LETTER LOW HO" -> 43692
      [] name = "TAI VIET LETTER HIGH HO" -> 43693
      [] name = "TAI VIET LETTER LOW O" -> 43694
      [] name = "TAI VIET LETTER HIGH O" -> 43695
      [] name = "TAI VIET MAI KANG" -> 43696
      [] name = "TAI VIET VOWEL AA" -> 43697
      [] name = "TAI VIET VOWEL I" -> 43698
      [] name = "TAI VIET VOWEL UE" -> 43699
      [] name = "TAI VIET VOWEL U" -> 43700
      [] name = "TAI VIET VOWEL E" -> 43701
      [] name = "TAI VIET VOWEL O" -> 43702
      [] name = "TAI VIET MAI KHIT" -> 43703
      [] name = "TAI VIET VOWEL IA" -> 43704
      [] name = "TAI VIET VOWEL UEA" -> 43705
      [] name = "TAI VIET VOWEL UA" -> 43706
      [] name = "TAI VIET VOWEL AUE" -> 43707
      [] name = "TAI VIET VOWEL AY" -> 43708
      [] name = "TAI VIET VOWEL AN" -> 43709
      [] name = "TAI VIET VOWEL AM" -> 43710
      [] name = "TAI VIET TONE MAI EK" -> 43711
      [] name = "TAI VIET TONE MAI NUENG" -> 43712
      [] name = "TAI VIET TONE MAI THO" -> 43713
      [] name = "TAI VIET TONE MAI SONG" -> 43714
      [] name = "TAI VIET SYMBOL KON" -> 43739
      [] name = "TAI VIET SYMBOL NUENG" -> 43740
      [] name = "TAI VIET SYMBOL SAM" -> 43741
      [] name = "TAI VIET SYMBOL HO HOI" -> 43742
      [] name = "TAI VIET SYMBOL KOI KOI" -> 43743
      [] name = "MEETEI MAYEK LETTER E" -> 43744
      [] name = "MEETEI MAYEK LETTER O" -> 43745
      [] name = "MEETEI MAYEK LETTER CHA" -> 43746
      [] name = "MEETEI MAYEK LETTER NYA" -> 43747
      [] name = "MEETEI MAYEK LETTER TTA" -> 43748
      [] name = "MEETEI MAYEK LETTER TTHA" -> 43749
      [] name = "MEETEI MAYEK LETTER DDA" -> 43750
      [] name = "MEETEI MAYEK LETTER DDHA" -> 43751
      [] name = "MEETEI MAYEK LETTER NNA" -> 43752
      [] name = "MEETEI MAYEK LETTER SHA" -> 43753
      [] name = "MEETEI MAYEK LETTER SSA" -> 43754
      [] name = "MEETEI MAYEK VOWEL SIGN II" -> 43755
      [] name = "MEETEI MAYEK VOWEL SIGN UU" -> 43756
      [] name = "MEETEI MAYEK VOWEL SIGN AAI" -> 43757
      [] name = "MEETEI MAYEK VOWEL SIGN AU" -> 43758
      [] name = "MEETEI MAYEK VOWEL SIGN AAU" -> 43759
      [] name = "MEETEI MAYEK CHEIKHAN" -> 43760
      [] name = "MEETEI MAYEK AHANG KHUDAM" -> 43761
      [] name = "MEETEI MAYEK ANJI" -> 43762
      [] name = "MEETEI MAYEK SYLLABLE REPETITION MARK" -> 43763
      [] name = "MEETEI MAYEK WORD REPETITION MARK" -> 43764
      [] name = "MEETEI MAYEK VOWEL SIGN VISARGA" -> 43765
      [] name = "MEETEI MAYEK VIRAMA" -> 43766
      [] name = "ETHIOPIC SYLLABLE TTHU" -> 43777
      [] name = "ETHIOPIC SYLLABLE TTHI" -> 43778
      [] name = "ETHIOPIC SYLLABLE TTHAA" -> 43779
      [] name = "ETHIOPIC SYLLABLE TTHEE" -> 43780
      [] name = "ETHIOPIC SYLLABLE TTHE" -> 43781
      [] name = "ETHIOPIC SYLLABLE TTHO" -> 43782
      [] name = "ETHIOPIC SYLLABLE DDHU" -> 43785
      [] name = "ETHIOPIC SYLLABLE DDHI" -> 43786
      [] name = "ETHIOPIC SYLLABLE DDHAA" -> 43787
      [] name = "ETHIOPIC SYLLABLE DDHEE" -> 43788
      [] name = "ETHIOPIC SYLLABLE DDHE" -> 43789
      [] name = "ETHIOPIC SYLLABLE DDHO" -> 43790
      [] name = "ETHIOPIC SYLLABLE DZU" -> 43793
      [] name = "ETHIOPIC SYLLABLE DZI" -> 43794
      [] name = "ETHIOPIC SYLLABLE DZAA" -> 43795
      [] name = "ETHIOPIC SYLLABLE DZEE" -> 43796
      [] name = "ETHIOPIC SYLLABLE DZE" -> 43797
      [] name = "ETHIOPIC SYLLABLE DZO" -> 43798
      [] name = "ETHIOPIC SYLLABLE CCHHA" -> 43808
      [] name = "ETHIOPIC SYLLABLE CCHHU" -> 43809
      [] name = "ETHIOPIC SYLLABLE CCHHI" -> 43810
      [] name = "ETHIOPIC SYLLABLE CCHHAA" -> 43811
      [] name = "ETHIOPIC SYLLABLE CCHHEE" -> 43812
      [] name = "ETHIOPIC SYLLABLE CCHHE" -> 43813
      [] name = "ETHIOPIC SYLLABLE CCHHO" -> 43814
      [] name = "ETHIOPIC SYLLABLE BBA" -> 43816
      [] name = "ETHIOPIC SYLLABLE BBU" -> 43817
      [] name = "ETHIOPIC SYLLABLE BBI" -> 43818
      [] name = "ETHIOPIC SYLLABLE BBAA" -> 43819
      [] name = "ETHIOPIC SYLLABLE BBEE" -> 43820
      [] name = "ETHIOPIC SYLLABLE BBE" -> 43821
      [] name = "ETHIOPIC SYLLABLE BBO" -> 43822
      [] name = "LATIN SMALL LETTER BARRED ALPHA" -> 43824
      [] name = "LATIN SMALL LETTER A REVERSED-SCHWA" -> 43825
      [] name = "LATIN SMALL LETTER BLACKLETTER E" -> 43826
      [] name = "LATIN SMALL LETTER BARRED E" -> 43827
      [] name = "LATIN SMALL LETTER E WITH FLOURISH" -> 43828
      [] name = "LATIN SMALL LETTER LENIS F" -> 43829
      [] name = "LATIN SMALL LETTER SCRIPT G WITH CROSSED-TAIL" -> 43830
      [] name = "LATIN SMALL LETTER L WITH INVERTED LAZY S" -> 43831
      [] name = "LATIN SMALL LETTER L WITH DOUBLE MIDDLE TILDE" -> 43832
      [] name = "LATIN SMALL LETTER L WITH MIDDLE RING" -> 43833
      [] name = "LATIN SMALL LETTER M WITH CROSSED-TAIL" -> 43834
      [] name = "LATIN SMALL LETTER N WITH CROSSED-TAIL" -> 43835
      [] name = "LATIN SMALL LETTER ENG WITH CROSSED-TAIL" -> 43836
      [] name = "LATIN SMALL LETTER BLACKLETTER O" -> 43837
      [] name = "LATIN SMALL LETTER BLACKLETTER O WITH STROKE" -> 43838
      [] name = "LATIN SMALL LETTER OPEN O WITH STROKE" -> 43839
      [] name = "LATIN SMALL LETTER INVERTED OE" -> 43840
      [] name = "LATIN SMALL LETTER TURNED OE WITH STROKE" -> 43841
      [] name = "LATIN SMALL LETTER TURNED OE WITH HORIZONTAL STROKE" -> 43842
      [] name = "LATIN SMALL LETTER TURNED O OPEN-O" -> 43843
      [] name = "LATIN SMALL LETTER TURNED O OPEN-O WITH STROKE" -> 43844
      [] name = "LATIN SMALL LETTER STIRRUP R" -> 43845
      [] name = "LATIN LETTER SMALL CAPITAL R WITH RIGHT LEG" -> 43846
      [] name = "LATIN SMALL LETTER R WITHOUT HANDLE" -> 43847
      [] name = "LATIN SMALL LETTER DOUBLE R" -> 43848
      [] name = "LATIN SMALL LETTER R WITH CROSSED-TAIL" -> 43849
      [] name = "LATIN SMALL LETTER DOUBLE R WITH CROSSED-TAIL" -> 43850
      [] name = "LATIN SMALL LETTER SCRIPT R" -> 43851
      [] name = "LATIN SMALL LETTER SCRIPT R WITH RING" -> 43852
      [] name = "LATIN SMALL LETTER BASELINE ESH" -> 43853
      [] name = "LATIN SMALL LETTER U WITH SHORT RIGHT LEG" -> 43854
      [] name = "LATIN SMALL LETTER U BAR WITH SHORT RIGHT LEG" -> 43855
      [] name = "LATIN SMALL LETTER UI" -> 43856
      [] name = "LATIN SMALL LETTER TURNED UI" -> 43857
      [] name = "LATIN SMALL LETTER U WITH LEFT HOOK" -> 43858
      [] name = "LATIN SMALL LETTER CHI" -> 43859
      [] name = "LATIN SMALL LETTER CHI WITH LOW RIGHT RING" -> 43860
      [] name = "LATIN SMALL LETTER CHI WITH LOW LEFT SERIF" -> 43861
      [] name = "LATIN SMALL LETTER X WITH LOW RIGHT RING" -> 43862
      [] name = "LATIN SMALL LETTER X WITH LONG LEFT LEG" -> 43863
      [] name = "LATIN SMALL LETTER X WITH LONG LEFT LEG AND LOW RIGHT RING" -> 43864
      [] name = "LATIN SMALL LETTER X WITH LONG LEFT LEG WITH SERIF" -> 43865
      [] name = "LATIN SMALL LETTER Y WITH SHORT RIGHT LEG" -> 43866
      [] name = "MODIFIER BREVE WITH INVERTED BREVE" -> 43867
      [] name = "MODIFIER LETTER SMALL HENG" -> 43868
      [] name = "MODIFIER LETTER SMALL L WITH INVERTED LAZY S" -> 43869
      [] name = "MODIFIER LETTER SMALL L WITH MIDDLE TILDE" -> 43870
      [] name = "MODIFIER LETTER SMALL U WITH LEFT HOOK" -> 43871
      [] name = "LATIN SMALL LETTER SAKHA YAT" -> 43872
      [] name = "LATIN SMALL LETTER IOTIFIED E" -> 43873
      [] name = "LATIN SMALL LETTER OPEN OE" -> 43874
      [] name = "LATIN SMALL LETTER UO" -> 43875
      [] name = "LATIN SMALL LETTER INVERTED ALPHA" -> 43876
      [] name = "GREEK LETTER SMALL CAPITAL OMEGA" -> 43877
      [] name = "LATIN SMALL LETTER DZ DIGRAPH WITH RETROFLEX HOOK" -> 43878
      [] name = "LATIN SMALL LETTER TS DIGRAPH WITH RETROFLEX HOOK" -> 43879
      [] name = "LATIN SMALL LETTER TURNED R WITH MIDDLE TILDE" -> 43880
      [] name = "MODIFIER LETTER SMALL TURNED W" -> 43881
      [] name = "MODIFIER LETTER LEFT TACK" -> 43882
      [] name = "MODIFIER LETTER RIGHT TACK" -> 43883
      [] name = "CHEROKEE SMALL LETTER A" -> 43888
      [] name = "CHEROKEE SMALL LETTER E" -> 43889
      [] name = "CHEROKEE SMALL LETTER I" -> 43890
      [] name = "CHEROKEE SMALL LETTER O" -> 43891
      [] name = "CHEROKEE SMALL LETTER U" -> 43892
      [] name = "CHEROKEE SMALL LETTER V" -> 43893
      [] name = "CHEROKEE SMALL LETTER GA" -> 43894
      [] name = "CHEROKEE SMALL LETTER KA" -> 43895
      [] name = "CHEROKEE SMALL LETTER GE" -> 43896
      [] name = "CHEROKEE SMALL LETTER GI" -> 43897
      [] name = "CHEROKEE SMALL LETTER GO" -> 43898
      [] name = "CHEROKEE SMALL LETTER GU" -> 43899
      [] name = "CHEROKEE SMALL LETTER GV" -> 43900
      [] name = "CHEROKEE SMALL LETTER HA" -> 43901
      [] name = "CHEROKEE SMALL LETTER HE" -> 43902
      [] name = "CHEROKEE SMALL LETTER HI" -> 43903
      [] name = "CHEROKEE SMALL LETTER HO" -> 43904
      [] name = "CHEROKEE SMALL LETTER HU" -> 43905
      [] name = "CHEROKEE SMALL LETTER HV" -> 43906
      [] name = "CHEROKEE SMALL LETTER LA" -> 43907
      [] name = "CHEROKEE SMALL LETTER LE" -> 43908
      [] name = "CHEROKEE SMALL LETTER LI" -> 43909
      [] name = "CHEROKEE SMALL LETTER LO" -> 43910
      [] name = "CHEROKEE SMALL LETTER LU" -> 43911
      [] name = "CHEROKEE SMALL LETTER LV" -> 43912
      [] name = "CHEROKEE SMALL LETTER MA" -> 43913
      [] name = "CHEROKEE SMALL LETTER ME" -> 43914
      [] name = "CHEROKEE SMALL LETTER MI" -> 43915
      [] name = "CHEROKEE SMALL LETTER MO" -> 43916
      [] name = "CHEROKEE SMALL LETTER MU" -> 43917
      [] name = "CHEROKEE SMALL LETTER NA" -> 43918
      [] name = "CHEROKEE SMALL LETTER HNA" -> 43919
      [] name = "CHEROKEE SMALL LETTER NAH" -> 43920
      [] name = "CHEROKEE SMALL LETTER NE" -> 43921
      [] name = "CHEROKEE SMALL LETTER NI" -> 43922
      [] name = "CHEROKEE SMALL LETTER NO" -> 43923
      [] name = "CHEROKEE SMALL LETTER NU" -> 43924
      [] name = "CHEROKEE SMALL LETTER NV" -> 43925
      [] name = "CHEROKEE SMALL LETTER QUA" -> 43926
      [] name = "CHEROKEE SMALL LETTER QUE" -> 43927
      [] name = "CHEROKEE SMALL LETTER QUI" -> 43928
      [] name = "CHEROKEE SMALL LETTER QUO" -> 43929
      [] name = "CHEROKEE SMALL LETTER QUU" -> 43930
      [] name = "CHEROKEE SMALL LETTER QUV" -> 43931
      [] name = "CHEROKEE SMALL LETTER SA" -> 43932
      [] name = "CHEROKEE SMALL LETTER S" -> 43933
      [] name = "CHEROKEE SMALL LETTER SE" -> 43934
      [] name = "CHEROKEE SMALL LETTER SI" -> 43935
      [] name = "CHEROKEE SMALL LETTER SO" -> 43936
      [] name = "CHEROKEE SMALL LETTER SU" -> 43937
      [] name = "CHEROKEE SMALL LETTER SV" -> 43938
      [] name = "CHEROKEE SMALL LETTER DA" -> 43939
      [] name = "CHEROKEE SMALL LETTER TA" -> 43940
      [] name = "CHEROKEE SMALL LETTER DE" -> 43941
      [] name = "CHEROKEE SMALL LETTER TE" -> 43942
      [] name = "CHEROKEE SMALL LETTER DI" -> 43943
      [] name = "CHEROKEE SMALL LETTER TI" -> 43944
      [] name = "CHEROKEE SMALL LETTER DO" -> 43945
      [] name = "CHEROKEE SMALL LETTER DU" -> 43946
      [] name = "CHEROKEE SMALL LETTER DV" -> 43947
      [] name = "CHEROKEE SMALL LETTER DLA" -> 43948
      [] name = "CHEROKEE SMALL LETTER TLA" -> 43949
      [] name = "CHEROKEE SMALL LETTER TLE" -> 43950
      [] name = "CHEROKEE SMALL LETTER TLI" -> 43951
      [] name = "CHEROKEE SMALL LETTER TLO" -> 43952
      [] name = "CHEROKEE SMALL LETTER TLU" -> 43953
      [] name = "CHEROKEE SMALL LETTER TLV" -> 43954
      [] name = "CHEROKEE SMALL LETTER TSA" -> 43955
      [] name = "CHEROKEE SMALL LETTER TSE" -> 43956
      [] name = "CHEROKEE SMALL LETTER TSI" -> 43957
      [] name = "CHEROKEE SMALL LETTER TSO" -> 43958
      [] name = "CHEROKEE SMALL LETTER TSU" -> 43959
      [] name = "CHEROKEE SMALL LETTER TSV" -> 43960
      [] name = "CHEROKEE SMALL LETTER WA" -> 43961
      [] name = "CHEROKEE SMALL LETTER WE" -> 43962
      [] name = "CHEROKEE SMALL LETTER WI" -> 43963
      [] name = "CHEROKEE SMALL LETTER WO" -> 43964
      [] name = "CHEROKEE SMALL LETTER WU" -> 43965
      [] name = "CHEROKEE SMALL LETTER WV" -> 43966
      [] name = "CHEROKEE SMALL LETTER YA" -> 43967
      [] name = "MEETEI MAYEK LETTER KOK" -> 43968
      [] name = "MEETEI MAYEK LETTER SAM" -> 43969
      [] name = "MEETEI MAYEK LETTER LAI" -> 43970
      [] name = "MEETEI MAYEK LETTER MIT" -> 43971
      [] name = "MEETEI MAYEK LETTER PA" -> 43972
      [] name = "MEETEI MAYEK LETTER NA" -> 43973
      [] name = "MEETEI MAYEK LETTER CHIL" -> 43974
      [] name = "MEETEI MAYEK LETTER TIL" -> 43975
      [] name = "MEETEI MAYEK LETTER KHOU" -> 43976
      [] name = "MEETEI MAYEK LETTER NGOU" -> 43977
      [] name = "MEETEI MAYEK LETTER THOU" -> 43978
      [] name = "MEETEI MAYEK LETTER WAI" -> 43979
      [] name = "MEETEI MAYEK LETTER YANG" -> 43980
      [] name = "MEETEI MAYEK LETTER HUK" -> 43981
      [] name = "MEETEI MAYEK LETTER UN" -> 43982
      [] name = "MEETEI MAYEK LETTER I" -> 43983
      [] name = "MEETEI MAYEK LETTER PHAM" -> 43984
      [] name = "MEETEI MAYEK LETTER ATIYA" -> 43985
      [] name = "MEETEI MAYEK LETTER GOK" -> 43986
      [] name = "MEETEI MAYEK LETTER JHAM" -> 43987
      [] name = "MEETEI MAYEK LETTER RAI" -> 43988
      [] name = "MEETEI MAYEK LETTER BA" -> 43989
      [] name = "MEETEI MAYEK LETTER JIL" -> 43990
      [] name = "MEETEI MAYEK LETTER DIL" -> 43991
      [] name = "MEETEI MAYEK LETTER GHOU" -> 43992
      [] name = "MEETEI MAYEK LETTER DHOU" -> 43993
      [] name = "MEETEI MAYEK LETTER BHAM" -> 43994
      [] name = "MEETEI MAYEK LETTER KOK LONSUM" -> 43995
      [] name = "MEETEI MAYEK LETTER LAI LONSUM" -> 43996
      [] name = "MEETEI MAYEK LETTER MIT LONSUM" -> 43997
      [] name = "MEETEI MAYEK LETTER PA LONSUM" -> 43998
      [] name = "MEETEI MAYEK LETTER NA LONSUM" -> 43999
      [] name = "MEETEI MAYEK LETTER TIL LONSUM" -> 44000
      [] name = "MEETEI MAYEK LETTER NGOU LONSUM" -> 44001
      [] name = "MEETEI MAYEK LETTER I LONSUM" -> 44002
      [] name = "MEETEI MAYEK VOWEL SIGN ONAP" -> 44003
      [] name = "MEETEI MAYEK VOWEL SIGN INAP" -> 44004
      [] name = "MEETEI MAYEK VOWEL SIGN ANAP" -> 44005
      [] name = "MEETEI MAYEK VOWEL SIGN YENAP" -> 44006
      [] name = "MEETEI MAYEK VOWEL SIGN SOUNAP" -> 44007
      [] name = "MEETEI MAYEK VOWEL SIGN UNAP" -> 44008
      [] name = "MEETEI MAYEK VOWEL SIGN CHEINAP" -> 44009
      [] name = "MEETEI MAYEK VOWEL SIGN NUNG" -> 44010
      [] name = "MEETEI MAYEK CHEIKHEI" -> 44011
      [] name = "MEETEI MAYEK LUM IYEK" -> 44012
      [] name = "MEETEI MAYEK APUN IYEK" -> 44013
      [] name = "MEETEI MAYEK DIGIT ZERO" -> 44016
      [] name = "MEETEI MAYEK DIGIT ONE" -> 44017
      [] name = "MEETEI MAYEK DIGIT TWO" -> 44018
      [] name = "MEETEI MAYEK DIGIT THREE" -> 44019
      [] name = "MEETEI MAYEK DIGIT FOUR" -> 44020
      [] name = "MEETEI MAYEK DIGIT FIVE" -> 44021
      [] name = "MEETEI MAYEK DIGIT SIX" -> 44022
      [] name = "MEETEI MAYEK DIGIT SEVEN" -> 44023
      [] name = "MEETEI MAYEK DIGIT EIGHT" -> 44024
      [] name = "MEETEI MAYEK DIGIT NINE" -> 44025
      [] name = "HANGUL JUNGSEONG O-YEO" -> 55216
      [] name = "HANGUL JUNGSEONG O-O-I" -> 55217
      [] name = "HANGUL JUNGSEONG YO-A" -> 55218
      [] name = "HANGUL JUNGSEONG YO-AE" -> 55219
      [] name = "HANGUL JUNGSEONG YO-EO" -> 55220
      [] name = "HANGUL JUNGSEONG U-YEO" -> 55221
      [] name = "HANGUL JUNGSEONG U-I-I" -> 55222
      [] name = "HANGUL JUNGSEONG YU-AE" -> 55223
      [] name = "HANGUL JUNGSEONG YU-O" -> 55224
      [] name = "HANGUL JUNGSEONG EU-A" -> 55225
      [] name = "HANGUL JUNGSEONG EU-EO" -> 55226
      [] name = "HANGUL JUNGSEONG EU-E" -> 55227
      [] name = "HANGUL JUNGSEONG EU-O" -> 55228
      [] name = "HANGUL JUNGSEONG I-YA-O" -> 55229
      [] name = "HANGUL JUNGSEONG I-YAE" -> 55230
      [] name = "HANGUL JUNGSEONG I-YEO" -> 55231
      [] name = "HANGUL JUNGSEONG I-YE" -> 55232
      [] name = "HANGUL JUNGSEONG I-O-I" -> 55233
      [] name = "HANGUL JUNGSEONG I-YO" -> 55234
      [] name = "HANGUL JUNGSEONG I-YU" -> 55235
      [] name = "HANGUL JUNGSEONG I-I" -> 55236
      [] name = "HANGUL JUNGSEONG ARAEA-A" -> 55237
      [] name = "HANGUL JUNGSEONG ARAEA-E" -> 55238
      [] name = "HANGUL JONGSEONG NIEUN-RIEUL" -> 55243
      [] name = "HANGUL JONGSEONG NIEUN-CHIEUCH" -> 55244
      [] name = "HANGUL JONGSEONG SSANGTIKEUT" -> 55245
      [] name = "HANGUL JONGSEONG SSANGTIKEUT-PIEUP" -> 55246
      [] name = "HANGUL JONGSEONG TIKEUT-PIEUP" -> 55247
      [] name = "HANGUL JONGSEONG TIKEUT-SIOS" -> 55248
      [] name = "HANGUL JONGSEONG TIKEUT-SIOS-KIYEOK" -> 55249
      [] name = "HANGUL JONGSEONG TIKEUT-CIEUC" -> 55250
      [] name = "HANGUL JONGSEONG TIKEUT-CHIEUCH" -> 55251
      [] name = "HANGUL JONGSEONG TIKEUT-THIEUTH" -> 55252
      [] name = "HANGUL JONGSEONG RIEUL-SSANGKIYEOK" -> 55253
      [] name = "HANGUL JONGSEONG RIEUL-KIYEOK-HIEUH" -> 55254
      [] name = "HANGUL JONGSEONG SSANGRIEUL-KHIEUKH" -> 55255
      [] name = "HANGUL JONGSEONG RIEUL-MIEUM-HIEUH" -> 55256
      [] name = "HANGUL JONGSEONG RIEUL-PIEUP-TIKEUT" -> 55257
      [] name = "HANGUL JONGSEONG RIEUL-PIEUP-PHIEUPH" -> 55258
      [] name = "HANGUL JONGSEONG RIEUL-YESIEUNG" -> 55259
      [] name = "HANGUL JONGSEONG RIEUL-YEORINHIEUH-HIEUH" -> 55260
      [] name = "HANGUL JONGSEONG KAPYEOUNRIEUL" -> 55261
      [] name = "HANGUL JONGSEONG MIEUM-NIEUN" -> 55262
      [] name = "HANGUL JONGSEONG MIEUM-SSANGNIEUN" -> 55263
      [] name = "HANGUL JONGSEONG SSANGMIEUM" -> 55264
      [] name = "HANGUL JONGSEONG MIEUM-PIEUP-SIOS" -> 55265
      [] name = "HANGUL JONGSEONG MIEUM-CIEUC" -> 55266
      [] name = "HANGUL JONGSEONG PIEUP-TIKEUT" -> 55267
      [] name = "HANGUL JONGSEONG PIEUP-RIEUL-PHIEUPH" -> 55268
      [] name = "HANGUL JONGSEONG PIEUP-MIEUM" -> 55269
      [] name = "HANGUL JONGSEONG SSANGPIEUP" -> 55270
      [] name = "HANGUL JONGSEONG PIEUP-SIOS-TIKEUT" -> 55271
      [] name = "HANGUL JONGSEONG PIEUP-CIEUC" -> 55272
      [] name = "HANGUL JONGSEONG PIEUP-CHIEUCH" -> 55273
      [] name = "HANGUL JONGSEONG SIOS-MIEUM" -> 55274
      [] name = "HANGUL JONGSEONG SIOS-KAPYEOUNPIEUP" -> 55275
      [] name = "HANGUL JONGSEONG SSANGSIOS-KIYEOK" -> 55276
      [] name = "HANGUL JONGSEONG SSANGSIOS-TIKEUT" -> 55277
      [] name = "HANGUL JONGSEONG SIOS-PANSIOS" -> 55278
      [] name = "HANGUL JONGSEONG SIOS-CIEUC" -> 55279
      [] name = "HANGUL JONGSEONG SIOS-CHIEUCH" -> 55280
      [] name = "HANGUL JONGSEONG SIOS-THIEUTH" -> 55281
      [] name = "HANGUL JONGSEONG SIOS-HIEUH" -> 55282
      [] name = "HANGUL JONGSEONG PANSIOS-PIEUP" -> 55283
      [] name = "HANGUL JONGSEONG PANSIOS-KAPYEOUNPIEUP" -> 55284
      [] name = "HANGUL JONGSEONG YESIEUNG-MIEUM" -> 55285
      [] name = "HANGUL JONGSEONG YESIEUNG-HIEUH" -> 55286
      [] name = "HANGUL JONGSEONG CIEUC-PIEUP" -> 55287
      [] name = "HANGUL JONGSEONG CIEUC-SSANGPIEUP" -> 55288
      [] name = "HANGUL JONGSEONG SSANGCIEUC" -> 55289
      [] name = "HANGUL JONGSEONG PHIEUPH-SIOS" -> 55290
      [] name = "HANGUL JONGSEONG PHIEUPH-THIEUTH" -> 55291
      [] name = "CJK COMPATIBILITY IDEOGRAPH-F900" -> 63744
      [] name = "CJK COMPATIBILITY IDEOGRAPH-F901" -> 63745
      [] name = "CJK COMPATIBILITY IDEOGRAPH-F902" -> 63746
      [] name = "CJK COMPATIBILITY IDEOGRAPH-F903" -> 63747
      [] name = "CJK COMPATIBILITY IDEOGRAPH-F904" -> 63748
      [] name = "CJK COMPATIBILITY IDEOGRAPH-F905" -> 63749
      [] name = "CJK COMPATIBILITY IDEOGRAPH-F906" -> 63750
      [] name = "CJK COMPATIBILITY IDEOGRAPH-F907" -> 63751
      [] name = "CJK COMPATIBILITY IDEOGRAPH-F908" -> 63752
      [] name = "CJK COMPATIBILITY IDEOGRAPH-F909" -> 63753
      [] name = "CJK COMPATIBILITY IDEOGRAPH-F90A" -> 63754
      [] name = "CJK COMPATIBILITY IDEOGRAPH-F90B" -> 63755
      [] name = "CJK COMPATIBILITY IDEOGRAPH-F90C" -> 63756
      [] name = "CJK COMPATIBILITY IDEOGRAPH-F90D" -> 63757
      [] name = "CJK COMPATIBILITY IDEOGRAPH-F90E" -> 63758
      [] name = "CJK COMPATIBILITY IDEOGRAPH-F90F" -> 63759
      [] name = "CJK COMPATIBILITY IDEOGRAPH-F910" -> 63760
      [] name = "CJK COMPATIBILITY IDEOGRAPH-F911" -> 63761
      [] name = "CJK COMPATIBILITY IDEOGRAPH-F912" -> 63762
      [] name = "CJK COMPATIBILITY IDEOGRAPH-F913" -> 63763
      [] name = "CJK COMPATIBILITY IDEOGRAPH-F914" -> 63764
      [] name = "CJK COMPATIBILITY IDEOGRAPH-F915" -> 63765
      [] name = "CJK COMPATIBILITY IDEOGRAPH-F916" -> 63766
      [] name = "CJK COMPATIBILITY IDEOGRAPH-F917" -> 63767
      [] name = "CJK COMPATIBILITY IDEOGRAPH-F918" -> 63768
      [] name = "CJK COMPATIBILITY IDEOGRAPH-F919" -> 63769
      [] name = "CJK COMPATIBILITY IDEOGRAPH-F91A" -> 63770
      [] name = "CJK COMPATIBILITY IDEOGRAPH-F91B" -> 63771
      [] name = "CJK COMPATIBILITY IDEOGRAPH-F91C" -> 63772
      [] name = "CJK COMPATIBILITY IDEOGRAPH-F91D" -> 63773
      [] name = "CJK COMPATIBILITY IDEOGRAPH-F91E" -> 63774
      [] name = "CJK COMPATIBILITY IDEOGRAPH-F91F" -> 63775
      [] name = "CJK COMPATIBILITY IDEOGRAPH-F920" -> 63776
      [] name = "CJK COMPATIBILITY IDEOGRAPH-F921" -> 63777
      [] name = "CJK COMPATIBILITY IDEOGRAPH-F922" -> 63778
      [] name = "CJK COMPATIBILITY IDEOGRAPH-F923" -> 63779
      [] name = "CJK COMPATIBILITY IDEOGRAPH-F924" -> 63780
      [] name = "CJK COMPATIBILITY IDEOGRAPH-F925" -> 63781
      [] name = "CJK COMPATIBILITY IDEOGRAPH-F926" -> 63782
      [] name = "CJK COMPATIBILITY IDEOGRAPH-F927" -> 63783
      [] name = "CJK COMPATIBILITY IDEOGRAPH-F928" -> 63784
      [] name = "CJK COMPATIBILITY IDEOGRAPH-F929" -> 63785
      [] name = "CJK COMPATIBILITY IDEOGRAPH-F92A" -> 63786
      [] name = "CJK COMPATIBILITY IDEOGRAPH-F92B" -> 63787
      [] name = "CJK COMPATIBILITY IDEOGRAPH-F92C" -> 63788
      [] name = "CJK COMPATIBILITY IDEOGRAPH-F92D" -> 63789
      [] name = "CJK COMPATIBILITY IDEOGRAPH-F92E" -> 63790
      [] name = "CJK COMPATIBILITY IDEOGRAPH-F92F" -> 63791
      [] name = "CJK COMPATIBILITY IDEOGRAPH-F930" -> 63792
      [] name = "CJK COMPATIBILITY IDEOGRAPH-F931" -> 63793
      [] name = "CJK COMPATIBILITY IDEOGRAPH-F932" -> 63794
      [] name = "CJK COMPATIBILITY IDEOGRAPH-F933" -> 63795
      [] name = "CJK COMPATIBILITY IDEOGRAPH-F934" -> 63796
      [] name = "CJK COMPATIBILITY IDEOGRAPH-F935" -> 63797
      [] name = "CJK COMPATIBILITY IDEOGRAPH-F936" -> 63798
      [] name = "CJK COMPATIBILITY IDEOGRAPH-F937" -> 63799
      [] name = "CJK COMPATIBILITY IDEOGRAPH-F938" -> 63800
      [] name = "CJK COMPATIBILITY IDEOGRAPH-F939" -> 63801
      [] name = "CJK COMPATIBILITY IDEOGRAPH-F93A" -> 63802
      [] name = "CJK COMPATIBILITY IDEOGRAPH-F93B" -> 63803
      [] name = "CJK COMPATIBILITY IDEOGRAPH-F93C" -> 63804
      [] name = "CJK COMPATIBILITY IDEOGRAPH-F93D" -> 63805
      [] name = "CJK COMPATIBILITY IDEOGRAPH-F93E" -> 63806
      [] name = "CJK COMPATIBILITY IDEOGRAPH-F93F" -> 63807
      [] name = "CJK COMPATIBILITY IDEOGRAPH-F940" -> 63808
      [] name = "CJK COMPATIBILITY IDEOGRAPH-F941" -> 63809
      [] name = "CJK COMPATIBILITY IDEOGRAPH-F942" -> 63810
      [] name = "CJK COMPATIBILITY IDEOGRAPH-F943" -> 63811
      [] name = "CJK COMPATIBILITY IDEOGRAPH-F944" -> 63812
      [] name = "CJK COMPATIBILITY IDEOGRAPH-F945" -> 63813
      [] name = "CJK COMPATIBILITY IDEOGRAPH-F946" -> 63814
      [] name = "CJK COMPATIBILITY IDEOGRAPH-F947" -> 63815
      [] name = "CJK COMPATIBILITY IDEOGRAPH-F948" -> 63816
      [] name = "CJK COMPATIBILITY IDEOGRAPH-F949" -> 63817
      [] name = "CJK COMPATIBILITY IDEOGRAPH-F94A" -> 63818
      [] name = "CJK COMPATIBILITY IDEOGRAPH-F94B" -> 63819
      [] name = "CJK COMPATIBILITY IDEOGRAPH-F94C" -> 63820
      [] name = "CJK COMPATIBILITY IDEOGRAPH-F94D" -> 63821
      [] name = "CJK COMPATIBILITY IDEOGRAPH-F94E" -> 63822
      [] name = "CJK COMPATIBILITY IDEOGRAPH-F94F" -> 63823
      [] name = "CJK COMPATIBILITY IDEOGRAPH-F950" -> 63824
      [] name = "CJK COMPATIBILITY IDEOGRAPH-F951" -> 63825
      [] name = "CJK COMPATIBILITY IDEOGRAPH-F952" -> 63826
      [] name = "CJK COMPATIBILITY IDEOGRAPH-F953" -> 63827
      [] name = "CJK COMPATIBILITY IDEOGRAPH-F954" -> 63828
      [] name = "CJK COMPATIBILITY IDEOGRAPH-F955" -> 63829
      [] name = "CJK COMPATIBILITY IDEOGRAPH-F956" -> 63830
      [] name = "CJK COMPATIBILITY IDEOGRAPH-F957" -> 63831
      [] name = "CJK COMPATIBILITY IDEOGRAPH-F958" -> 63832
      [] name = "CJK COMPATIBILITY IDEOGRAPH-F959" -> 63833
      [] name = "CJK COMPATIBILITY IDEOGRAPH-F95A" -> 63834
      [] name = "CJK COMPATIBILITY IDEOGRAPH-F95B" -> 63835
      [] name = "CJK COMPATIBILITY IDEOGRAPH-F95C" -> 63836
      [] name = "CJK COMPATIBILITY IDEOGRAPH-F95D" -> 63837
      [] name = "CJK COMPATIBILITY IDEOGRAPH-F95E" -> 63838
      [] name = "CJK COMPATIBILITY IDEOGRAPH-F95F" -> 63839
      [] name = "CJK COMPATIBILITY IDEOGRAPH-F960" -> 63840
      [] name = "CJK COMPATIBILITY IDEOGRAPH-F961" -> 63841
      [] name = "CJK COMPATIBILITY IDEOGRAPH-F962" -> 63842
      [] name = "CJK COMPATIBILITY IDEOGRAPH-F963" -> 63843
      [] name = "CJK COMPATIBILITY IDEOGRAPH-F964" -> 63844
      [] name = "CJK COMPATIBILITY IDEOGRAPH-F965" -> 63845
      [] name = "CJK COMPATIBILITY IDEOGRAPH-F966" -> 63846
      [] name = "CJK COMPATIBILITY IDEOGRAPH-F967" -> 63847
      [] name = "CJK COMPATIBILITY IDEOGRAPH-F968" -> 63848
      [] name = "CJK COMPATIBILITY IDEOGRAPH-F969" -> 63849
      [] name = "CJK COMPATIBILITY IDEOGRAPH-F96A" -> 63850
      [] name = "CJK COMPATIBILITY IDEOGRAPH-F96B" -> 63851
      [] name = "CJK COMPATIBILITY IDEOGRAPH-F96C" -> 63852
      [] name = "CJK COMPATIBILITY IDEOGRAPH-F96D" -> 63853
      [] name = "CJK COMPATIBILITY IDEOGRAPH-F96E" -> 63854
      [] name = "CJK COMPATIBILITY IDEOGRAPH-F96F" -> 63855
      [] name = "CJK COMPATIBILITY IDEOGRAPH-F970" -> 63856
      [] name = "CJK COMPATIBILITY IDEOGRAPH-F971" -> 63857
      [] name = "CJK COMPATIBILITY IDEOGRAPH-F972" -> 63858
      [] name = "CJK COMPATIBILITY IDEOGRAPH-F973" -> 63859
      [] name = "CJK COMPATIBILITY IDEOGRAPH-F974" -> 63860
      [] name = "CJK COMPATIBILITY IDEOGRAPH-F975" -> 63861
      [] name = "CJK COMPATIBILITY IDEOGRAPH-F976" -> 63862
      [] name = "CJK COMPATIBILITY IDEOGRAPH-F977" -> 63863
      [] name = "CJK COMPATIBILITY IDEOGRAPH-F978" -> 63864
      [] name = "CJK COMPATIBILITY IDEOGRAPH-F979" -> 63865
      [] name = "CJK COMPATIBILITY IDEOGRAPH-F97A" -> 63866
      [] name = "CJK COMPATIBILITY IDEOGRAPH-F97B" -> 63867
      [] name = "CJK COMPATIBILITY IDEOGRAPH-F97C" -> 63868
      [] name = "CJK COMPATIBILITY IDEOGRAPH-F97D" -> 63869
      [] name = "CJK COMPATIBILITY IDEOGRAPH-F97E" -> 63870
      [] name = "CJK COMPATIBILITY IDEOGRAPH-F97F" -> 63871
      [] name = "CJK COMPATIBILITY IDEOGRAPH-F980" -> 63872
      [] name = "CJK COMPATIBILITY IDEOGRAPH-F981" -> 63873
      [] name = "CJK COMPATIBILITY IDEOGRAPH-F982" -> 63874
      [] name = "CJK COMPATIBILITY IDEOGRAPH-F983" -> 63875
      [] name = "CJK COMPATIBILITY IDEOGRAPH-F984" -> 63876
      [] name = "CJK COMPATIBILITY IDEOGRAPH-F985" -> 63877
      [] name = "CJK COMPATIBILITY IDEOGRAPH-F986" -> 63878
      [] name = "CJK COMPATIBILITY IDEOGRAPH-F987" -> 63879
      [] name = "CJK COMPATIBILITY IDEOGRAPH-F988" -> 63880
      [] name = "CJK COMPATIBILITY IDEOGRAPH-F989" -> 63881
      [] name = "CJK COMPATIBILITY IDEOGRAPH-F98A" -> 63882
      [] name = "CJK COMPATIBILITY IDEOGRAPH-F98B" -> 63883
      [] name = "CJK COMPATIBILITY IDEOGRAPH-F98C" -> 63884
      [] name = "CJK COMPATIBILITY IDEOGRAPH-F98D" -> 63885
      [] name = "CJK COMPATIBILITY IDEOGRAPH-F98E" -> 63886
      [] name = "CJK COMPATIBILITY IDEOGRAPH-F98F" -> 63887
      [] name = "CJK COMPATIBILITY IDEOGRAPH-F990" -> 63888
      [] name = "CJK COMPATIBILITY IDEOGRAPH-F991" -> 63889
      [] name = "CJK COMPATIBILITY IDEOGRAPH-F992" -> 63890
      [] name = "CJK COMPATIBILITY IDEOGRAPH-F993" -> 63891
      [] name = "CJK COMPATIBILITY IDEOGRAPH-F994" -> 63892
      [] name = "CJK COMPATIBILITY IDEOGRAPH-F995" -> 63893
      [] name = "CJK COMPATIBILITY IDEOGRAPH-F996" -> 63894
      [] name = "CJK COMPATIBILITY IDEOGRAPH-F997" -> 63895
      [] name = "CJK COMPATIBILITY IDEOGRAPH-F998" -> 63896
      [] name = "CJK COMPATIBILITY IDEOGRAPH-F999" -> 63897
      [] name = "CJK COMPATIBILITY IDEOGRAPH-F99A" -> 63898
      [] name = "CJK COMPATIBILITY IDEOGRAPH-F99B" -> 63899
      [] name = "CJK COMPATIBILITY IDEOGRAPH-F99C" -> 63900
      [] name = "CJK COMPATIBILITY IDEOGRAPH-F99D" -> 63901
      [] name = "CJK COMPATIBILITY IDEOGRAPH-F99E" -> 63902
      [] name = "CJK COMPATIBILITY IDEOGRAPH-F99F" -> 63903
      [] name = "CJK COMPATIBILITY IDEOGRAPH-F9A0" -> 63904
      [] name = "CJK COMPATIBILITY IDEOGRAPH-F9A1" -> 63905
      [] name = "CJK COMPATIBILITY IDEOGRAPH-F9A2" -> 63906
      [] name = "CJK COMPATIBILITY IDEOGRAPH-F9A3" -> 63907
      [] name = "CJK COMPATIBILITY IDEOGRAPH-F9A4" -> 63908
      [] name = "CJK COMPATIBILITY IDEOGRAPH-F9A5" -> 63909
      [] name = "CJK COMPATIBILITY IDEOGRAPH-F9A6" -> 63910
      [] name = "CJK COMPATIBILITY IDEOGRAPH-F9A7" -> 63911
      [] name = "CJK COMPATIBILITY IDEOGRAPH-F9A8" -> 63912
      [] name = "CJK COMPATIBILITY IDEOGRAPH-F9A9" -> 63913
      [] name = "CJK COMPATIBILITY IDEOGRAPH-F9AA" -> 63914
      [] name = "CJK COMPATIBILITY IDEOGRAPH-F9AB" -> 63915
      [] name = "CJK COMPATIBILITY IDEOGRAPH-F9AC" -> 63916
      [] name = "CJK COMPATIBILITY IDEOGRAPH-F9AD" -> 63917
      [] name = "CJK COMPATIBILITY IDEOGRAPH-F9AE" -> 63918
      [] name = "CJK COMPATIBILITY IDEOGRAPH-F9AF" -> 63919
      [] name = "CJK COMPATIBILITY IDEOGRAPH-F9B0" -> 63920
      [] name = "CJK COMPATIBILITY IDEOGRAPH-F9B1" -> 63921
      [] name = "CJK COMPATIBILITY IDEOGRAPH-F9B2" -> 63922
      [] name = "CJK COMPATIBILITY IDEOGRAPH-F9B3" -> 63923
      [] name = "CJK COMPATIBILITY IDEOGRAPH-F9B4" -> 63924
      [] name = "CJK COMPATIBILITY IDEOGRAPH-F9B5" -> 63925
      [] name = "CJK COMPATIBILITY IDEOGRAPH-F9B6" -> 63926
      [] name = "CJK COMPATIBILITY IDEOGRAPH-F9B7" -> 63927
      [] name = "CJK COMPATIBILITY IDEOGRAPH-F9B8" -> 63928
      [] name = "CJK COMPATIBILITY IDEOGRAPH-F9B9" -> 63929
      [] name = "CJK COMPATIBILITY IDEOGRAPH-F9BA" -> 63930
      [] name = "CJK COMPATIBILITY IDEOGRAPH-F9BB" -> 63931
      [] name = "CJK COMPATIBILITY IDEOGRAPH-F9BC" -> 63932
      [] name = "CJK COMPATIBILITY IDEOGRAPH-F9BD" -> 63933
      [] name = "CJK COMPATIBILITY IDEOGRAPH-F9BE" -> 63934
      [] name = "CJK COMPATIBILITY IDEOGRAPH-F9BF" -> 63935
      [] name = "CJK COMPATIBILITY IDEOGRAPH-F9C0" -> 63936
      [] name = "CJK COMPATIBILITY IDEOGRAPH-F9C1" -> 63937
      [] name = "CJK COMPATIBILITY IDEOGRAPH-F9C2" -> 63938
      [] name = "CJK COMPATIBILITY IDEOGRAPH-F9C3" -> 63939
      [] name = "CJK COMPATIBILITY IDEOGRAPH-F9C4" -> 63940
      [] name = "CJK COMPATIBILITY IDEOGRAPH-F9C5" -> 63941
      [] name = "CJK COMPATIBILITY IDEOGRAPH-F9C6" -> 63942
      [] name = "CJK COMPATIBILITY IDEOGRAPH-F9C7" -> 63943
      [] name = "CJK COMPATIBILITY IDEOGRAPH-F9C8" -> 63944
      [] name = "CJK COMPATIBILITY IDEOGRAPH-F9C9" -> 63945
      [] name = "CJK COMPATIBILITY IDEOGRAPH-F9CA" -> 63946
      [] name = "CJK COMPATIBILITY IDEOGRAPH-F9CB" -> 63947
      [] name = "CJK COMPATIBILITY IDEOGRAPH-F9CC" -> 63948
      [] name = "CJK COMPATIBILITY IDEOGRAPH-F9CD" -> 63949
      [] name = "CJK COMPATIBILITY IDEOGRAPH-F9CE" -> 63950
      [] name = "CJK COMPATIBILITY IDEOGRAPH-F9CF" -> 63951
      [] name = "CJK COMPATIBILITY IDEOGRAPH-F9D0" -> 63952
      [] name = "CJK COMPATIBILITY IDEOGRAPH-F9D1" -> 63953
      [] name = "CJK COMPATIBILITY IDEOGRAPH-F9D2" -> 63954
      [] name = "CJK COMPATIBILITY IDEOGRAPH-F9D3" -> 63955
      [] name = "CJK COMPATIBILITY IDEOGRAPH-F9D4" -> 63956
      [] name = "CJK COMPATIBILITY IDEOGRAPH-F9D5" -> 63957
      [] name = "CJK COMPATIBILITY IDEOGRAPH-F9D6" -> 63958
      [] name = "CJK COMPATIBILITY IDEOGRAPH-F9D7" -> 63959
      [] name = "CJK COMPATIBILITY IDEOGRAPH-F9D8" -> 63960
      [] name = "CJK COMPATIBILITY IDEOGRAPH-F9D9" -> 63961
      [] name = "CJK COMPATIBILITY IDEOGRAPH-F9DA" -> 63962
      [] name = "CJK COMPATIBILITY IDEOGRAPH-F9DB" -> 63963
      [] name = "CJK COMPATIBILITY IDEOGRAPH-F9DC" -> 63964
      [] name = "CJK COMPATIBILITY IDEOGRAPH-F9DD" -> 63965
      [] name = "CJK COMPATIBILITY IDEOGRAPH-F9DE" -> 63966
      [] name = "CJK COMPATIBILITY IDEOGRAPH-F9DF" -> 63967
      [] name = "CJK COMPATIBILITY IDEOGRAPH-F9E0" -> 63968
      [] name = "CJK COMPATIBILITY IDEOGRAPH-F9E1" -> 63969
      [] name = "CJK COMPATIBILITY IDEOGRAPH-F9E2" -> 63970
      [] name = "CJK COMPATIBILITY IDEOGRAPH-F9E3" -> 63971
      [] name = "CJK COMPATIBILITY IDEOGRAPH-F9E4" -> 63972
      [] name = "CJK COMPATIBILITY IDEOGRAPH-F9E5" -> 63973
      [] name = "CJK COMPATIBILITY IDEOGRAPH-F9E6" -> 63974
      [] name = "CJK COMPATIBILITY IDEOGRAPH-F9E7" -> 63975
      [] name = "CJK COMPATIBILITY IDEOGRAPH-F9E8" -> 63976
      [] name = "CJK COMPATIBILITY IDEOGRAPH-F9E9" -> 63977
      [] name = "CJK COMPATIBILITY IDEOGRAPH-F9EA" -> 63978
      [] name = "CJK COMPATIBILITY IDEOGRAPH-F9EB" -> 63979
      [] name = "CJK COMPATIBILITY IDEOGRAPH-F9EC" -> 63980
      [] name = "CJK COMPATIBILITY IDEOGRAPH-F9ED" -> 63981
      [] name = "CJK COMPATIBILITY IDEOGRAPH-F9EE" -> 63982
      [] name = "CJK COMPATIBILITY IDEOGRAPH-F9EF" -> 63983
      [] name = "CJK COMPATIBILITY IDEOGRAPH-F9F0" -> 63984
      [] name = "CJK COMPATIBILITY IDEOGRAPH-F9F1" -> 63985
      [] name = "CJK COMPATIBILITY IDEOGRAPH-F9F2" -> 63986
      [] name = "CJK COMPATIBILITY IDEOGRAPH-F9F3" -> 63987
      [] name = "CJK COMPATIBILITY IDEOGRAPH-F9F4" -> 63988
      [] name = "CJK COMPATIBILITY IDEOGRAPH-F9F5" -> 63989
      [] name = "CJK COMPATIBILITY IDEOGRAPH-F9F6" -> 63990
      [] name = "CJK COMPATIBILITY IDEOGRAPH-F9F7" -> 63991
      [] name = "CJK COMPATIBILITY IDEOGRAPH-F9F8" -> 63992
      [] name = "CJK COMPATIBILITY IDEOGRAPH-F9F9" -> 63993
      [] name = "CJK COMPATIBILITY IDEOGRAPH-F9FA" -> 63994
      [] name = "CJK COMPATIBILITY IDEOGRAPH-F9FB" -> 63995
      [] name = "CJK COMPATIBILITY IDEOGRAPH-F9FC" -> 63996
      [] name = "CJK COMPATIBILITY IDEOGRAPH-F9FD" -> 63997
      [] name = "CJK COMPATIBILITY IDEOGRAPH-F9FE" -> 63998
      [] name = "CJK COMPATIBILITY IDEOGRAPH-F9FF" -> 63999
      [] name = "CJK COMPATIBILITY IDEOGRAPH-FA00" -> 64000
      [] name = "CJK COMPATIBILITY IDEOGRAPH-FA01" -> 64001
      [] name = "CJK COMPATIBILITY IDEOGRAPH-FA02" -> 64002
      [] name = "CJK COMPATIBILITY IDEOGRAPH-FA03" -> 64003
      [] name = "CJK COMPATIBILITY IDEOGRAPH-FA04" -> 64004
      [] name = "CJK COMPATIBILITY IDEOGRAPH-FA05" -> 64005
      [] name = "CJK COMPATIBILITY IDEOGRAPH-FA06" -> 64006
      [] name = "CJK COMPATIBILITY IDEOGRAPH-FA07" -> 64007
      [] name = "CJK COMPATIBILITY IDEOGRAPH-FA08" -> 64008
      [] name = "CJK COMPATIBILITY IDEOGRAPH-FA09" -> 64009
      [] name = "CJK COMPATIBILITY IDEOGRAPH-FA0A" -> 64010
      [] name = "CJK COMPATIBILITY IDEOGRAPH-FA0B" -> 64011
      [] name = "CJK COMPATIBILITY IDEOGRAPH-FA0C" -> 64012
      [] name = "CJK COMPATIBILITY IDEOGRAPH-FA0D" -> 64013
      [] name = "CJK COMPATIBILITY IDEOGRAPH-FA0E" -> 64014
      [] name = "CJK COMPATIBILITY IDEOGRAPH-FA0F" -> 64015
      [] name = "CJK COMPATIBILITY IDEOGRAPH-FA10" -> 64016
      [] name = "CJK COMPATIBILITY IDEOGRAPH-FA11" -> 64017
      [] name = "CJK COMPATIBILITY IDEOGRAPH-FA12" -> 64018
      [] name = "CJK COMPATIBILITY IDEOGRAPH-FA13" -> 64019
      [] name = "CJK COMPATIBILITY IDEOGRAPH-FA14" -> 64020
      [] name = "CJK COMPATIBILITY IDEOGRAPH-FA15" -> 64021
      [] name = "CJK COMPATIBILITY IDEOGRAPH-FA16" -> 64022
      [] name = "CJK COMPATIBILITY IDEOGRAPH-FA17" -> 64023
      [] name = "CJK COMPATIBILITY IDEOGRAPH-FA18" -> 64024
      [] name = "CJK COMPATIBILITY IDEOGRAPH-FA19" -> 64025
      [] name = "CJK COMPATIBILITY IDEOGRAPH-FA1A" -> 64026
      [] name = "CJK COMPATIBILITY IDEOGRAPH-FA1B" -> 64027
      [] name = "CJK COMPATIBILITY IDEOGRAPH-FA1C" -> 64028
      [] name = "CJK COMPATIBILITY IDEOGRAPH-FA1D" -> 64029
      [] name = "CJK COMPATIBILITY IDEOGRAPH-FA1E" -> 64030
      [] name = "CJK COMPATIBILITY IDEOGRAPH-FA1F" -> 64031
      [] name = "CJK COMPATIBILITY IDEOGRAPH-FA20" -> 64032
      [] name = "CJK COMPATIBILITY IDEOGRAPH-FA21" -> 64033
      [] name = "CJK COMPATIBILITY IDEOGRAPH-FA22" -> 64034
      [] name = "CJK COMPATIBILITY IDEOGRAPH-FA23" -> 64035
      [] name = "CJK COMPATIBILITY IDEOGRAPH-FA24" -> 64036
      [] name = "CJK COMPATIBILITY IDEOGRAPH-FA25" -> 64037
      [] name = "CJK COMPATIBILITY IDEOGRAPH-FA26" -> 64038
      [] name = "CJK COMPATIBILITY IDEOGRAPH-FA27" -> 64039
      [] name = "CJK COMPATIBILITY IDEOGRAPH-FA28" -> 64040
      [] name = "CJK COMPATIBILITY IDEOGRAPH-FA29" -> 64041
      [] name = "CJK COMPATIBILITY IDEOGRAPH-FA2A" -> 64042
      [] name = "CJK COMPATIBILITY IDEOGRAPH-FA2B" -> 64043
      [] name = "CJK COMPATIBILITY IDEOGRAPH-FA2C" -> 64044
      [] name = "CJK COMPATIBILITY IDEOGRAPH-FA2D" -> 64045
      [] name = "CJK COMPATIBILITY IDEOGRAPH-FA2E" -> 64046
      [] name = "CJK COMPATIBILITY IDEOGRAPH-FA2F" -> 64047
      [] name = "CJK COMPATIBILITY IDEOGRAPH-FA30" -> 64048
      [] name = "CJK COMPATIBILITY IDEOGRAPH-FA31" -> 64049
      [] name = "CJK COMPATIBILITY IDEOGRAPH-FA32" -> 64050
      [] name = "CJK COMPATIBILITY IDEOGRAPH-FA33" -> 64051
      [] name = "CJK COMPATIBILITY IDEOGRAPH-FA34" -> 64052
      [] name = "CJK COMPATIBILITY IDEOGRAPH-FA35" -> 64053
      [] name = "CJK COMPATIBILITY IDEOGRAPH-FA36" -> 64054
      [] name = "CJK COMPATIBILITY IDEOGRAPH-FA37" -> 64055
      [] name = "CJK COMPATIBILITY IDEOGRAPH-FA38" -> 64056
      [] name = "CJK COMPATIBILITY IDEOGRAPH-FA39" -> 64057
      [] name = "CJK COMPATIBILITY IDEOGRAPH-FA3A" -> 64058
      [] name = "CJK COMPATIBILITY IDEOGRAPH-FA3B" -> 64059
      [] name = "CJK COMPATIBILITY IDEOGRAPH-FA3C" -> 64060
      [] name = "CJK COMPATIBILITY IDEOGRAPH-FA3D" -> 64061
      [] name = "CJK COMPATIBILITY IDEOGRAPH-FA3E" -> 64062
      [] name = "CJK COMPATIBILITY IDEOGRAPH-FA3F" -> 64063
      [] name = "CJK COMPATIBILITY IDEOGRAPH-FA40" -> 64064
      [] name = "CJK COMPATIBILITY IDEOGRAPH-FA41" -> 64065
      [] name = "CJK COMPATIBILITY IDEOGRAPH-FA42" -> 64066
      [] name = "CJK COMPATIBILITY IDEOGRAPH-FA43" -> 64067
      [] name = "CJK COMPATIBILITY IDEOGRAPH-FA44" -> 64068
      [] name = "CJK COMPATIBILITY IDEOGRAPH-FA45" -> 64069
      [] name = "CJK COMPATIBILITY IDEOGRAPH-FA46" -> 64070
      [] name = "CJK COMPATIBILITY IDEOGRAPH-FA47" -> 64071
      [] name = "CJK COMPATIBILITY IDEOGRAPH-FA48" -> 64072
      [] name = "CJK COMPATIBILITY IDEOGRAPH-FA49" -> 64073
      [] name = "CJK COMPATIBILITY IDEOGRAPH-FA4A" -> 64074
      [] name = "CJK COMPATIBILITY IDEOGRAPH-FA4B" -> 64075
      [] name = "CJK COMPATIBILITY IDEOGRAPH-FA4C" -> 64076
      [] name = "CJK COMPATIBILITY IDEOGRAPH-FA4D" -> 64077
      [] name = "CJK COMPATIBILITY IDEOGRAPH-FA4E" -> 64078
      [] name = "CJK COMPATIBILITY IDEOGRAPH-FA4F" -> 64079
      [] name = "CJK COMPATIBILITY IDEOGRAPH-FA50" -> 64080
      [] name = "CJK COMPATIBILITY IDEOGRAPH-FA51" -> 64081
      [] name = "CJK COMPATIBILITY IDEOGRAPH-FA52" -> 64082
      [] name = "CJK COMPATIBILITY IDEOGRAPH-FA53" -> 64083
      [] name = "CJK COMPATIBILITY IDEOGRAPH-FA54" -> 64084
      [] name = "CJK COMPATIBILITY IDEOGRAPH-FA55" -> 64085
      [] name = "CJK COMPATIBILITY IDEOGRAPH-FA56" -> 64086
      [] name = "CJK COMPATIBILITY IDEOGRAPH-FA57" -> 64087
      [] name = "CJK COMPATIBILITY IDEOGRAPH-FA58" -> 64088
      [] name = "CJK COMPATIBILITY IDEOGRAPH-FA59" -> 64089
      [] name = "CJK COMPATIBILITY IDEOGRAPH-FA5A" -> 64090
      [] name = "CJK COMPATIBILITY IDEOGRAPH-FA5B" -> 64091
      [] name = "CJK COMPATIBILITY IDEOGRAPH-FA5C" -> 64092
      [] name = "CJK COMPATIBILITY IDEOGRAPH-FA5D" -> 64093
      [] name = "CJK COMPATIBILITY IDEOGRAPH-FA5E" -> 64094
      [] name = "CJK COMPATIBILITY IDEOGRAPH-FA5F" -> 64095
      [] name = "CJK COMPATIBILITY IDEOGRAPH-FA60" -> 64096
      [] name = "CJK COMPATIBILITY IDEOGRAPH-FA61" -> 64097
      [] name = "CJK COMPATIBILITY IDEOGRAPH-FA62" -> 64098
      [] name = "CJK COMPATIBILITY IDEOGRAPH-FA63" -> 64099
      [] name = "CJK COMPATIBILITY IDEOGRAPH-FA64" -> 64100
      [] name = "CJK COMPATIBILITY IDEOGRAPH-FA65" -> 64101
      [] name = "CJK COMPATIBILITY IDEOGRAPH-FA66" -> 64102
      [] name = "CJK COMPATIBILITY IDEOGRAPH-FA67" -> 64103
      [] name = "CJK COMPATIBILITY IDEOGRAPH-FA68" -> 64104
      [] name = "CJK COMPATIBILITY IDEOGRAPH-FA69" -> 64105
      [] name = "CJK COMPATIBILITY IDEOGRAPH-FA6A" -> 64106
      [] name = "CJK COMPATIBILITY IDEOGRAPH-FA6B" -> 64107
      [] name = "CJK COMPATIBILITY IDEOGRAPH-FA6C" -> 64108
      [] name = "CJK COMPATIBILITY IDEOGRAPH-FA6D" -> 64109
      [] name = "CJK COMPATIBILITY IDEOGRAPH-FA70" -> 64112
      [] name = "CJK COMPATIBILITY IDEOGRAPH-FA71" -> 64113
      [] name = "CJK COMPATIBILITY IDEOGRAPH-FA72" -> 64114
      [] name = "CJK COMPATIBILITY IDEOGRAPH-FA73" -> 64115
      [] name = "CJK COMPATIBILITY IDEOGRAPH-FA74" -> 64116
      [] name = "CJK COMPATIBILITY IDEOGRAPH-FA75" -> 64117
      [] name = "CJK COMPATIBILITY IDEOGRAPH-FA76" -> 64118
      [] name = "CJK COMPATIBILITY IDEOGRAPH-FA77" -> 64119
      [] name = "CJK COMPATIBILITY IDEOGRAPH-FA78" -> 64120
      [] name = "CJK COMPATIBILITY IDEOGRAPH-FA79" -> 64121
      [] name = "CJK COMPATIBILITY IDEOGRAPH-FA7A" -> 64122
      [] name = "CJK COMPATIBILITY IDEOGRAPH-FA7B" -> 64123
      [] name = "CJK COMPATIBILITY IDEOGRAPH-FA7C" -> 64124
      [] name = "CJK COMPATIBILITY IDEOGRAPH-FA7D" -> 64125
      [] name = "CJK COMPATIBILITY IDEOGRAPH-FA7E" -> 64126
      [] name = "CJK COMPATIBILITY IDEOGRAPH-FA7F" -> 64127
      [] name = "CJK COMPATIBILITY IDEOGRAPH-FA80" -> 64128
      [] name = "CJK COMPATIBILITY IDEOGRAPH-FA81" -> 64129
      [] name = "CJK COMPATIBILITY IDEOGRAPH-FA82" -> 64130
      [] name = "CJK COMPATIBILITY IDEOGRAPH-FA83" -> 64131
      [] name = "CJK COMPATIBILITY IDEOGRAPH-FA84" -> 64132
      [] name = "CJK COMPATIBILITY IDEOGRAPH-FA85" -> 64133
      [] name = "CJK COMPATIBILITY IDEOGRAPH-FA86" -> 64134
      [] name = "CJK COMPATIBILITY IDEOGRAPH-FA87" -> 64135
      [] name = "CJK COMPATIBILITY IDEOGRAPH-FA88" -> 64136
      [] name = "CJK COMPATIBILITY IDEOGRAPH-FA89" -> 64137
      [] name = "CJK COMPATIBILITY IDEOGRAPH-FA8A" -> 64138
      [] name = "CJK COMPATIBILITY IDEOGRAPH-FA8B" -> 64139
      [] name = "CJK COMPATIBILITY IDEOGRAPH-FA8C" -> 64140
      [] name = "CJK COMPATIBILITY IDEOGRAPH-FA8D" -> 64141
      [] name = "CJK COMPATIBILITY IDEOGRAPH-FA8E" -> 64142
      [] name = "CJK COMPATIBILITY IDEOGRAPH-FA8F" -> 64143
      [] name = "CJK COMPATIBILITY IDEOGRAPH-FA90" -> 64144
      [] name = "CJK COMPATIBILITY IDEOGRAPH-FA91" -> 64145
      [] name = "CJK COMPATIBILITY IDEOGRAPH-FA92" -> 64146
      [] name = "CJK COMPATIBILITY IDEOGRAPH-FA93" -> 64147
      [] name = "CJK COMPATIBILITY IDEOGRAPH-FA94" -> 64148
      [] name = "CJK COMPATIBILITY IDEOGRAPH-FA95" -> 64149
      [] name = "CJK COMPATIBILITY IDEOGRAPH-FA96" -> 64150
      [] name = "CJK COMPATIBILITY IDEOGRAPH-FA97" -> 64151
      [] name = "CJK COMPATIBILITY IDEOGRAPH-FA98" -> 64152
      [] name = "CJK COMPATIBILITY IDEOGRAPH-FA99" -> 64153
      [] name = "CJK COMPATIBILITY IDEOGRAPH-FA9A" -> 64154
      [] name = "CJK COMPATIBILITY IDEOGRAPH-FA9B" -> 64155
      [] name = "CJK COMPATIBILITY IDEOGRAPH-FA9C" -> 64156
      [] name = "CJK COMPATIBILITY IDEOGRAPH-FA9D" -> 64157
      [] name = "CJK COMPATIBILITY IDEOGRAPH-FA9E" -> 64158
      [] name = "CJK COMPATIBILITY IDEOGRAPH-FA9F" -> 64159
      [] name = "CJK COMPATIBILITY IDEOGRAPH-FAA0" -> 64160
      [] name = "CJK COMPATIBILITY IDEOGRAPH-FAA1" -> 64161
      [] name = "CJK COMPATIBILITY IDEOGRAPH-FAA2" -> 64162
      [] name = "CJK COMPATIBILITY IDEOGRAPH-FAA3" -> 64163
      [] name = "CJK COMPATIBILITY IDEOGRAPH-FAA4" -> 64164
      [] name = "CJK COMPATIBILITY IDEOGRAPH-FAA5" -> 64165
      [] name = "CJK COMPATIBILITY IDEOGRAPH-FAA6" -> 64166
      [] name = "CJK COMPATIBILITY IDEOGRAPH-FAA7" -> 64167
      [] name = "CJK COMPATIBILITY IDEOGRAPH-FAA8" -> 64168
      [] name = "CJK COMPATIBILITY IDEOGRAPH-FAA9" -> 64169
      [] name = "CJK COMPATIBILITY IDEOGRAPH-FAAA" -> 64170
      [] name = "CJK COMPATIBILITY IDEOGRAPH-FAAB" -> 64171
      [] name = "CJK COMPATIBILITY IDEOGRAPH-FAAC" -> 64172
      [] name = "CJK COMPATIBILITY IDEOGRAPH-FAAD" -> 64173
      [] name = "CJK COMPATIBILITY IDEOGRAPH-FAAE" -> 64174
      [] name = "CJK COMPATIBILITY IDEOGRAPH-FAAF" -> 64175
      [] name = "CJK COMPATIBILITY IDEOGRAPH-FAB0" -> 64176
      [] name = "CJK COMPATIBILITY IDEOGRAPH-FAB1" -> 64177
      [] name = "CJK COMPATIBILITY IDEOGRAPH-FAB2" -> 64178
      [] name = "CJK COMPATIBILITY IDEOGRAPH-FAB3" -> 64179
      [] name = "CJK COMPATIBILITY IDEOGRAPH-FAB4" -> 64180
      [] name = "CJK COMPATIBILITY IDEOGRAPH-FAB5" -> 64181
      [] name = "CJK COMPATIBILITY IDEOGRAPH-FAB6" -> 64182
      [] name = "CJK COMPATIBILITY IDEOGRAPH-FAB7" -> 64183
      [] name = "CJK COMPATIBILITY IDEOGRAPH-FAB8" -> 64184
      [] name = "CJK COMPATIBILITY IDEOGRAPH-FAB9" -> 64185
      [] name = "CJK COMPATIBILITY IDEOGRAPH-FABA" -> 64186
      [] name = "CJK COMPATIBILITY IDEOGRAPH-FABB" -> 64187
      [] name = "CJK COMPATIBILITY IDEOGRAPH-FABC" -> 64188
      [] name = "CJK COMPATIBILITY IDEOGRAPH-FABD" -> 64189
      [] name = "CJK COMPATIBILITY IDEOGRAPH-FABE" -> 64190
      [] name = "CJK COMPATIBILITY IDEOGRAPH-FABF" -> 64191
      [] name = "CJK COMPATIBILITY IDEOGRAPH-FAC0" -> 64192
      [] name = "CJK COMPATIBILITY IDEOGRAPH-FAC1" -> 64193
      [] name = "CJK COMPATIBILITY IDEOGRAPH-FAC2" -> 64194
      [] name = "CJK COMPATIBILITY IDEOGRAPH-FAC3" -> 64195
      [] name = "CJK COMPATIBILITY IDEOGRAPH-FAC4" -> 64196
      [] name = "CJK COMPATIBILITY IDEOGRAPH-FAC5" -> 64197
      [] name = "CJK COMPATIBILITY IDEOGRAPH-FAC6" -> 64198
      [] name = "CJK COMPATIBILITY IDEOGRAPH-FAC7" -> 64199
      [] name = "CJK COMPATIBILITY IDEOGRAPH-FAC8" -> 64200
      [] name = "CJK COMPATIBILITY IDEOGRAPH-FAC9" -> 64201
      [] name = "CJK COMPATIBILITY IDEOGRAPH-FACA" -> 64202
      [] name = "CJK COMPATIBILITY IDEOGRAPH-FACB" -> 64203
      [] name = "CJK COMPATIBILITY IDEOGRAPH-FACC" -> 64204
      [] name = "CJK COMPATIBILITY IDEOGRAPH-FACD" -> 64205
      [] name = "CJK COMPATIBILITY IDEOGRAPH-FACE" -> 64206
      [] name = "CJK COMPATIBILITY IDEOGRAPH-FACF" -> 64207
      [] name = "CJK COMPATIBILITY IDEOGRAPH-FAD0" -> 64208
      [] name = "CJK COMPATIBILITY IDEOGRAPH-FAD1" -> 64209
      [] name = "CJK COMPATIBILITY IDEOGRAPH-FAD2" -> 64210
      [] name = "CJK COMPATIBILITY IDEOGRAPH-FAD3" -> 64211
      [] name = "CJK COMPATIBILITY IDEOGRAPH-FAD4" -> 64212
      [] name = "CJK COMPATIBILITY IDEOGRAPH-FAD5" -> 64213
      [] name = "CJK COMPATIBILITY IDEOGRAPH-FAD6" -> 64214
      [] name = "CJK COMPATIBILITY IDEOGRAPH-FAD7" -> 64215
      [] name = "CJK COMPATIBILITY IDEOGRAPH-FAD8" -> 64216
      [] name = "CJK COMPATIBILITY IDEOGRAPH-FAD9" -> 64217
      [] name = "LATIN SMALL LIGATURE FF" -> 64256
      [] name = "LATIN SMALL LIGATURE FI" -> 64257
      [] name = "LATIN SMALL LIGATURE FL" -> 64258
      [] name = "LATIN SMALL LIGATURE FFI" -> 64259
      [] name = "LATIN SMALL LIGATURE FFL" -> 64260
      [] name = "LATIN SMALL LIGATURE LONG S T" -> 64261
      [] name = "LATIN SMALL LIGATURE ST" -> 64262
      [] name = "ARMENIAN SMALL LIGATURE MEN NOW" -> 64275
      [] name = "ARMENIAN SMALL LIGATURE MEN ECH" -> 64276
      [] name = "ARMENIAN SMALL LIGATURE MEN INI" -> 64277
      [] name = "ARMENIAN SMALL LIGATURE VEW NOW" -> 64278
      [] name = "ARMENIAN SMALL LIGATURE MEN XEH" -> 64279
      [] name = "HEBREW LETTER YOD WITH HIRIQ" -> 64285
      [] name = "HEBREW POINT JUDEO-SPANISH VARIKA" -> 64286
      [] name = "HEBREW LIGATURE YIDDISH YOD YOD PATAH" -> 64287
      [] name = "HEBREW LETTER ALTERNATIVE AYIN" -> 64288
      [] name = "HEBREW LETTER WIDE ALEF" -> 64289
      [] name = "HEBREW LETTER WIDE DALET" -> 64290
      [] name = "HEBREW LETTER WIDE HE" -> 64291
      [] name = "HEBREW LETTER WIDE KAF" -> 64292
      [] name = "HEBREW LETTER WIDE LAMED" -> 64293
      [] name = "HEBREW LETTER WIDE FINAL MEM" -> 64294
      [] name = "HEBREW LETTER WIDE RESH" -> 64295
      [] name = "HEBREW LETTER WIDE TAV" -> 64296
      [] name = "HEBREW LETTER ALTERNATIVE PLUS SIGN" -> 64297
      [] name = "HEBREW LETTER SHIN WITH SHIN DOT" -> 64298
      [] name = "HEBREW LETTER SHIN WITH SIN DOT" -> 64299
      [] name = "HEBREW LETTER SHIN WITH DAGESH AND SHIN DOT" -> 64300
      [] name = "HEBREW LETTER SHIN WITH DAGESH AND SIN DOT" -> 64301
      [] name = "HEBREW LETTER ALEF WITH PATAH" -> 64302
      [] name = "HEBREW LETTER ALEF WITH QAMATS" -> 64303
      [] name = "HEBREW LETTER ALEF WITH MAPIQ" -> 64304
      [] name = "HEBREW LETTER BET WITH DAGESH" -> 64305
      [] name = "HEBREW LETTER GIMEL WITH DAGESH" -> 64306
      [] name = "HEBREW LETTER DALET WITH DAGESH" -> 64307
      [] name = "HEBREW LETTER HE WITH MAPIQ" -> 64308
      [] name = "HEBREW LETTER VAV WITH DAGESH" -> 64309
      [] name = "HEBREW LETTER ZAYIN WITH DAGESH" -> 64310
      [] name = "HEBREW LETTER TET WITH DAGESH" -> 64312
      [] name = "HEBREW LETTER YOD WITH DAGESH" -> 64313
      [] name = "HEBREW LETTER FINAL KAF WITH DAGESH" -> 64314
      [] name = "HEBREW LETTER KAF WITH DAGESH" -> 64315
      [] name = "HEBREW LETTER LAMED WITH DAGESH" -> 64316
      [] name = "HEBREW LETTER MEM WITH DAGESH" -> 64318
      [] name = "HEBREW LETTER NUN WITH DAGESH" -> 64320
      [] name = "HEBREW LETTER SAMEKH WITH DAGESH" -> 64321
      [] name = "HEBREW LETTER FINAL PE WITH DAGESH" -> 64323
      [] name = "HEBREW LETTER PE WITH DAGESH" -> 64324
      [] name = "HEBREW LETTER TSADI WITH DAGESH" -> 64326
      [] name = "HEBREW LETTER QOF WITH DAGESH" -> 64327
      [] name = "HEBREW LETTER RESH WITH DAGESH" -> 64328
      [] name = "HEBREW LETTER SHIN WITH DAGESH" -> 64329
      [] name = "HEBREW LETTER TAV WITH DAGESH" -> 64330
      [] name = "HEBREW LETTER VAV WITH HOLAM" -> 64331
      [] name = "HEBREW LETTER BET WITH RAFE" -> 64332
      [] name = "HEBREW LETTER KAF WITH RAFE" -> 64333
      [] name = "HEBREW LETTER PE WITH RAFE" -> 64334
      [] name = "HEBREW LIGATURE ALEF LAMED" -> 64335
      [] name = "ARABIC LETTER ALEF WASLA ISOLATED FORM" -> 64336
      [] name = "ARABIC LETTER ALEF WASLA FINAL FORM" -> 64337
      [] name = "ARABIC LETTER BEEH ISOLATED FORM" -> 64338
      [] name = "ARABIC LETTER BEEH FINAL FORM" -> 64339
      [] name = "ARABIC LETTER BEEH INITIAL FORM" -> 64340
      [] name = "ARABIC LETTER BEEH MEDIAL FORM" -> 64341
      [] name = "ARABIC LETTER PEH ISOLATED FORM" -> 64342
      [] name = "ARABIC LETTER PEH FINAL FORM" -> 64343
      [] name = "ARABIC LETTER PEH INITIAL FORM" -> 64344
      [] name = "ARABIC LETTER PEH MEDIAL FORM" -> 64345
      [] name = "ARABIC LETTER BEHEH ISOLATED FORM" -> 64346
      [] name = "ARABIC LETTER BEHEH FINAL FORM" -> 64347
      [] name = "ARABIC LETTER BEHEH INITIAL FORM" -> 64348
      [] name = "ARABIC LETTER BEHEH MEDIAL FORM" -> 64349
      [] name = "ARABIC LETTER TTEHEH ISOLATED FORM" -> 64350
      [] name = "ARABIC LETTER TTEHEH FINAL FORM" -> 64351
      [] name = "ARABIC LETTER TTEHEH INITIAL FORM" -> 64352
      [] name = "ARABIC LETTER TTEHEH MEDIAL FORM" -> 64353
      [] name = "ARABIC LETTER TEHEH ISOLATED FORM" -> 64354
      [] name = "ARABIC LETTER TEHEH FINAL FORM" -> 64355
      [] name = "ARABIC LETTER TEHEH INITIAL FORM" -> 64356
      [] name = "ARABIC LETTER TEHEH MEDIAL FORM" -> 64357
      [] name = "ARABIC LETTER TTEH ISOLATED FORM" -> 64358
      [] name = "ARABIC LETTER TTEH FINAL FORM" -> 64359
      [] name = "ARABIC LETTER TTEH INITIAL FORM" -> 64360
      [] name = "ARABIC LETTER TTEH MEDIAL FORM" -> 64361
      [] name = "ARABIC LETTER VEH ISOLATED FORM" -> 64362
      [] name = "ARABIC LETTER VEH FINAL FORM" -> 64363
      [] name = "ARABIC LETTER VEH INITIAL FORM" -> 64364
      [] name = "ARABIC LETTER VEH MEDIAL FORM" -> 64365
      [] name = "ARABIC LETTER PEHEH ISOLATED FORM" -> 64366
      [] name = "ARABIC LETTER PEHEH FINAL FORM" -> 64367
      [] name = "ARABIC LETTER PEHEH INITIAL FORM" -> 64368
      [] name = "ARABIC LETTER PEHEH MEDIAL FORM" -> 64369
      [] name = "ARABIC LETTER DYEH ISOLATED FORM" -> 64370
      [] name = "ARABIC LETTER DYEH FINAL FORM" -> 64371
      [] name = "ARABIC LETTER DYEH INITIAL FORM" -> 64372
      [] name = "ARABIC LETTER DYEH MEDIAL FORM" -> 64373
      [] name = "ARABIC LETTER NYEH ISOLATED FORM" -> 64374
      [] name = "ARABIC LETTER NYEH FINAL FORM" -> 64375
      [] name = "ARABIC LETTER NYEH INITIAL FORM" -> 64376
      [] name = "ARABIC LETTER NYEH MEDIAL FORM" -> 64377
      [] name = "ARABIC LETTER TCHEH ISOLATED FORM" -> 64378
      [] name = "ARABIC LETTER TCHEH FINAL FORM" -> 64379
      [] name = "ARABIC LETTER TCHEH INITIAL FORM" -> 64380
      [] name = "ARABIC LETTER TCHEH MEDIAL FORM" -> 64381
      [] name = "ARABIC LETTER TCHEHEH ISOLATED FORM" -> 64382
      [] name = "ARABIC LETTER TCHEHEH FINAL FORM" -> 64383
      [] name = "ARABIC LETTER TCHEHEH INITIAL FORM" -> 64384
      [] name = "ARABIC LETTER TCHEHEH MEDIAL FORM" -> 64385
      [] name = "ARABIC LETTER DDAHAL ISOLATED FORM" -> 64386
      [] name = "ARABIC LETTER DDAHAL FINAL FORM" -> 64387
      [] name = "ARABIC LETTER DAHAL ISOLATED FORM" -> 64388
      [] name = "ARABIC LETTER DAHAL FINAL FORM" -> 64389
      [] name = "ARABIC LETTER DUL ISOLATED FORM" -> 64390
      [] name = "ARABIC LETTER DUL FINAL FORM" -> 64391
      [] name = "ARABIC LETTER DDAL ISOLATED FORM" -> 64392
      [] name = "ARABIC LETTER DDAL FINAL FORM" -> 64393
      [] name = "ARABIC LETTER JEH ISOLATED FORM" -> 64394
      [] name = "ARABIC LETTER JEH FINAL FORM" -> 64395
      [] name = "ARABIC LETTER RREH ISOLATED FORM" -> 64396
      [] name = "ARABIC LETTER RREH FINAL FORM" -> 64397
      [] name = "ARABIC LETTER KEHEH ISOLATED FORM" -> 64398
      [] name = "ARABIC LETTER KEHEH FINAL FORM" -> 64399
      [] name = "ARABIC LETTER KEHEH INITIAL FORM" -> 64400
      [] name = "ARABIC LETTER KEHEH MEDIAL FORM" -> 64401
      [] name = "ARABIC LETTER GAF ISOLATED FORM" -> 64402
      [] name = "ARABIC LETTER GAF FINAL FORM" -> 64403
      [] name = "ARABIC LETTER GAF INITIAL FORM" -> 64404
      [] name = "ARABIC LETTER GAF MEDIAL FORM" -> 64405
      [] name = "ARABIC LETTER GUEH ISOLATED FORM" -> 64406
      [] name = "ARABIC LETTER GUEH FINAL FORM" -> 64407
      [] name = "ARABIC LETTER GUEH INITIAL FORM" -> 64408
      [] name = "ARABIC LETTER GUEH MEDIAL FORM" -> 64409
      [] name = "ARABIC LETTER NGOEH ISOLATED FORM" -> 64410
      [] name = "ARABIC LETTER NGOEH FINAL FORM" -> 64411
      [] name = "ARABIC LETTER NGOEH INITIAL FORM" -> 64412
      [] name = "ARABIC LETTER NGOEH MEDIAL FORM" -> 64413
      [] name = "ARABIC LETTER NOON GHUNNA ISOLATED FORM" -> 64414
      [] name = "ARABIC LETTER NOON GHUNNA FINAL FORM" -> 64415
      [] name = "ARABIC LETTER RNOON ISOLATED FORM" -> 64416
      [] name = "ARABIC LETTER RNOON FINAL FORM" -> 64417
      [] name = "ARABIC LETTER RNOON INITIAL FORM" -> 64418
      [] name = "ARABIC LETTER RNOON MEDIAL FORM" -> 64419
      [] name = "ARABIC LETTER HEH WITH YEH ABOVE ISOLATED FORM" -> 64420
      [] name = "ARABIC LETTER HEH WITH YEH ABOVE FINAL FORM" -> 64421
      [] name = "ARABIC LETTER HEH GOAL ISOLATED FORM" -> 64422
      [] name = "ARABIC LETTER HEH GOAL FINAL FORM" -> 64423
      [] name = "ARABIC LETTER HEH GOAL INITIAL FORM" -> 64424
      [] name = "ARABIC LETTER HEH GOAL MEDIAL FORM" -> 64425
      [] name = "ARABIC LETTER HEH DOACHASHMEE ISOLATED FORM" -> 64426
      [] name = "ARABIC LETTER HEH DOACHASHMEE FINAL FORM" -> 64427
      [] name = "ARABIC LETTER HEH DOACHASHMEE INITIAL FORM" -> 64428
      [] name = "ARABIC LETTER HEH DOACHASHMEE MEDIAL FORM" -> 64429
      [] name = "ARABIC LETTER YEH BARREE ISOLATED FORM" -> 64430
      [] name = "ARABIC LETTER YEH BARREE FINAL FORM" -> 64431
      [] name = "ARABIC LETTER YEH BARREE WITH HAMZA ABOVE ISOLATED FORM" -> 64432
      [] name = "ARABIC LETTER YEH BARREE WITH HAMZA ABOVE FINAL FORM" -> 64433
      [] name = "ARABIC SYMBOL DOT ABOVE" -> 64434
      [] name = "ARABIC SYMBOL DOT BELOW" -> 64435
      [] name = "ARABIC SYMBOL TWO DOTS ABOVE" -> 64436
      [] name = "ARABIC SYMBOL TWO DOTS BELOW" -> 64437
      [] name = "ARABIC SYMBOL THREE DOTS ABOVE" -> 64438
      [] name = "ARABIC SYMBOL THREE DOTS BELOW" -> 64439
      [] name = "ARABIC SYMBOL THREE DOTS POINTING DOWNWARDS ABOVE" -> 64440
      [] name = "ARABIC SYMBOL THREE DOTS POINTING DOWNWARDS BELOW" -> 64441
      [] name = "ARABIC SYMBOL FOUR DOTS ABOVE" -> 64442
      [] name = "ARABIC SYMBOL FOUR DOTS BELOW" -> 64443
      [] name = "ARABIC SYMBOL DOUBLE VERTICAL BAR BELOW" -> 64444
      [] name = "ARABIC SYMBOL TWO DOTS VERTICALLY ABOVE" -> 64445
      [] name = "ARABIC SYMBOL TWO DOTS VERTICALLY BELOW" -> 64446
      [] name = "ARABIC SYMBOL RING" -> 64447
      [] name = "ARABIC SYMBOL SMALL TAH ABOVE" -> 64448
      [] name = "ARABIC SYMBOL SMALL TAH BELOW" -> 64449
      [] name = "ARABIC SYMBOL WASLA ABOVE" -> 64450
      [] name = "ARABIC LETTER NG ISOLATED FORM" -> 64467
      [] name = "ARABIC LETTER NG FINAL FORM" -> 64468
      [] name = "ARABIC LETTER NG INITIAL FORM" -> 64469
      [] name = "ARABIC LETTER NG MEDIAL FORM" -> 64470
      [] name = "ARABIC LETTER U ISOLATED FORM" -> 64471
      [] name = "ARABIC LETTER U FINAL FORM" -> 64472
      [] name = "ARABIC LETTER OE ISOLATED FORM" -> 64473
      [] name = "ARABIC LETTER OE FINAL FORM" -> 64474
      [] name = "ARABIC LETTER YU ISOLATED FORM" -> 64475
      [] name = "ARABIC LETTER YU FINAL FORM" -> 64476
      [] name = "ARABIC LETTER U WITH HAMZA ABOVE ISOLATED FORM" -> 64477
      [] name = "ARABIC LETTER VE ISOLATED FORM" -> 64478
      [] name = "ARABIC LETTER VE FINAL FORM" -> 64479
      [] name = "ARABIC LETTER KIRGHIZ OE ISOLATED FORM" -> 64480
      [] name = "ARABIC LETTER KIRGHIZ OE FINAL FORM" -> 64481
      [] name = "ARABIC LETTER KIRGHIZ YU ISOLATED FORM" -> 64482
      [] name = "ARABIC LETTER KIRGHIZ YU FINAL FORM" -> 64483
      [] name = "ARABIC LETTER E ISOLATED FORM" -> 64484
      [] name = "ARABIC LETTER E FINAL FORM" -> 64485
      [] name = "ARABIC LETTER E INITIAL FORM" -> 64486
      [] name = "ARABIC LETTER E MEDIAL FORM" -> 64487
      [] name = "ARABIC LETTER UIGHUR KAZAKH KIRGHIZ ALEF MAKSURA INITIAL FORM" -> 64488
      [] name = "ARABIC LETTER UIGHUR KAZAKH KIRGHIZ ALEF MAKSURA MEDIAL FORM" -> 64489
      [] name = "ARABIC LIGATURE YEH WITH HAMZA ABOVE WITH ALEF ISOLATED FORM" -> 64490
      [] name = "ARABIC LIGATURE YEH WITH HAMZA ABOVE WITH ALEF FINAL FORM" -> 64491
      [] name = "ARABIC LIGATURE YEH WITH HAMZA ABOVE WITH AE ISOLATED FORM" -> 64492
      [] name = "ARABIC LIGATURE YEH WITH HAMZA ABOVE WITH AE FINAL FORM" -> 64493
      [] name = "ARABIC LIGATURE YEH WITH HAMZA ABOVE WITH WAW ISOLATED FORM" -> 64494
      [] name = "ARABIC LIGATURE YEH WITH HAMZA ABOVE WITH WAW FINAL FORM" -> 64495
      [] name = "ARABIC LIGATURE YEH WITH HAMZA ABOVE WITH U ISOLATED FORM" -> 64496
      [] name = "ARABIC LIGATURE YEH WITH HAMZA ABOVE WITH U FINAL FORM" -> 64497
      [] name = "ARABIC LIGATURE YEH WITH HAMZA ABOVE WITH OE ISOLATED FORM" -> 64498
      [] name = "ARABIC LIGATURE YEH WITH HAMZA ABOVE WITH OE FINAL FORM" -> 64499
      [] name = "ARABIC LIGATURE YEH WITH HAMZA ABOVE WITH YU ISOLATED FORM" -> 64500
      [] name = "ARABIC LIGATURE YEH WITH HAMZA ABOVE WITH YU FINAL FORM" -> 64501
      [] name = "ARABIC LIGATURE YEH WITH HAMZA ABOVE WITH E ISOLATED FORM" -> 64502
      [] name = "ARABIC LIGATURE YEH WITH HAMZA ABOVE WITH E FINAL FORM" -> 64503
      [] name = "ARABIC LIGATURE YEH WITH HAMZA ABOVE WITH E INITIAL FORM" -> 64504
      [] name = "ARABIC LIGATURE UIGHUR KIRGHIZ YEH WITH HAMZA ABOVE WITH ALEF MAKSURA ISOLATED FORM" -> 64505
      [] name = "ARABIC LIGATURE UIGHUR KIRGHIZ YEH WITH HAMZA ABOVE WITH ALEF MAKSURA FINAL FORM" -> 64506
      [] name = "ARABIC LIGATURE UIGHUR KIRGHIZ YEH WITH HAMZA ABOVE WITH ALEF MAKSURA INITIAL FORM" -> 64507
      [] name = "ARABIC LETTER FARSI YEH ISOLATED FORM" -> 64508
      [] name = "ARABIC LETTER FARSI YEH FINAL FORM" -> 64509
      [] name = "ARABIC LETTER FARSI YEH INITIAL FORM" -> 64510
      [] name = "ARABIC LETTER FARSI YEH MEDIAL FORM" -> 64511
      [] name = "ARABIC LIGATURE YEH WITH HAMZA ABOVE WITH JEEM ISOLATED FORM" -> 64512
      [] name = "ARABIC LIGATURE YEH WITH HAMZA ABOVE WITH HAH ISOLATED FORM" -> 64513
      [] name = "ARABIC LIGATURE YEH WITH HAMZA ABOVE WITH MEEM ISOLATED FORM" -> 64514
      [] name = "ARABIC LIGATURE YEH WITH HAMZA ABOVE WITH ALEF MAKSURA ISOLATED FORM" -> 64515
      [] name = "ARABIC LIGATURE YEH WITH HAMZA ABOVE WITH YEH ISOLATED FORM" -> 64516
      [] name = "ARABIC LIGATURE BEH WITH JEEM ISOLATED FORM" -> 64517
      [] name = "ARABIC LIGATURE BEH WITH HAH ISOLATED FORM" -> 64518
      [] name = "ARABIC LIGATURE BEH WITH KHAH ISOLATED FORM" -> 64519
      [] name = "ARABIC LIGATURE BEH WITH MEEM ISOLATED FORM" -> 64520
      [] name = "ARABIC LIGATURE BEH WITH ALEF MAKSURA ISOLATED FORM" -> 64521
      [] name = "ARABIC LIGATURE BEH WITH YEH ISOLATED FORM" -> 64522
      [] name = "ARABIC LIGATURE TEH WITH JEEM ISOLATED FORM" -> 64523
      [] name = "ARABIC LIGATURE TEH WITH HAH ISOLATED FORM" -> 64524
      [] name = "ARABIC LIGATURE TEH WITH KHAH ISOLATED FORM" -> 64525
      [] name = "ARABIC LIGATURE TEH WITH MEEM ISOLATED FORM" -> 64526
      [] name = "ARABIC LIGATURE TEH WITH ALEF MAKSURA ISOLATED FORM" -> 64527
      [] name = "ARABIC LIGATURE TEH WITH YEH ISOLATED FORM" -> 64528
      [] name = "ARABIC LIGATURE THEH WITH JEEM ISOLATED FORM" -> 64529
      [] name = "ARABIC LIGATURE THEH WITH MEEM ISOLATED FORM" -> 64530
      [] name = "ARABIC LIGATURE THEH WITH ALEF MAKSURA ISOLATED FORM" -> 64531
      [] name = "ARABIC LIGATURE THEH WITH YEH ISOLATED FORM" -> 64532
      [] name = "ARABIC LIGATURE JEEM WITH HAH ISOLATED FORM" -> 64533
      [] name = "ARABIC LIGATURE JEEM WITH MEEM ISOLATED FORM" -> 64534
      [] name = "ARABIC LIGATURE HAH WITH JEEM ISOLATED FORM" -> 64535
      [] name = "ARABIC LIGATURE HAH WITH MEEM ISOLATED FORM" -> 64536
      [] name = "ARABIC LIGATURE KHAH WITH JEEM ISOLATED FORM" -> 64537
      [] name = "ARABIC LIGATURE KHAH WITH HAH ISOLATED FORM" -> 64538
      [] name = "ARABIC LIGATURE KHAH WITH MEEM ISOLATED FORM" -> 64539
      [] name = "ARABIC LIGATURE SEEN WITH JEEM ISOLATED FORM" -> 64540
      [] name = "ARABIC LIGATURE SEEN WITH HAH ISOLATED FORM" -> 64541
      [] name = "ARABIC LIGATURE SEEN WITH KHAH ISOLATED FORM" -> 64542
      [] name = "ARABIC LIGATURE SEEN WITH MEEM ISOLATED FORM" -> 64543
      [] name = "ARABIC LIGATURE SAD WITH HAH ISOLATED FORM" -> 64544
      [] name = "ARABIC LIGATURE SAD WITH MEEM ISOLATED FORM" -> 64545
      [] name = "ARABIC LIGATURE DAD WITH JEEM ISOLATED FORM" -> 64546
      [] name = "ARABIC LIGATURE DAD WITH HAH ISOLATED FORM" -> 64547
      [] name = "ARABIC LIGATURE DAD WITH KHAH ISOLATED FORM" -> 64548
      [] name = "ARABIC LIGATURE DAD WITH MEEM ISOLATED FORM" -> 64549
      [] name = "ARABIC LIGATURE TAH WITH HAH ISOLATED FORM" -> 64550
      [] name = "ARABIC LIGATURE TAH WITH MEEM ISOLATED FORM" -> 64551
      [] name = "ARABIC LIGATURE ZAH WITH MEEM ISOLATED FORM" -> 64552
      [] name = "ARABIC LIGATURE AIN WITH JEEM ISOLATED FORM" -> 64553
      [] name = "ARABIC LIGATURE AIN WITH MEEM ISOLATED FORM" -> 64554
      [] name = "ARABIC LIGATURE GHAIN WITH JEEM ISOLATED FORM" -> 64555
      [] name = "ARABIC LIGATURE GHAIN WITH MEEM ISOLATED FORM" -> 64556
      [] name = "ARABIC LIGATURE FEH WITH JEEM ISOLATED FORM" -> 64557
      [] name = "ARABIC LIGATURE FEH WITH HAH ISOLATED FORM" -> 64558
      [] name = "ARABIC LIGATURE FEH WITH KHAH ISOLATED FORM" -> 64559
      [] name = "ARABIC LIGATURE FEH WITH MEEM ISOLATED FORM" -> 64560
      [] name = "ARABIC LIGATURE FEH WITH ALEF MAKSURA ISOLATED FORM" -> 64561
      [] name = "ARABIC LIGATURE FEH WITH YEH ISOLATED FORM" -> 64562
      [] name = "ARABIC LIGATURE QAF WITH HAH ISOLATED FORM" -> 64563
      [] name = "ARABIC LIGATURE QAF WITH MEEM ISOLATED FORM" -> 64564
      [] name = "ARABIC LIGATURE QAF WITH ALEF MAKSURA ISOLATED FORM" -> 64565
      [] name = "ARABIC LIGATURE QAF WITH YEH ISOLATED FORM" -> 64566
      [] name = "ARABIC LIGATURE KAF WITH ALEF ISOLATED FORM" -> 64567
      [] name = "ARABIC LIGATURE KAF WITH JEEM ISOLATED FORM" -> 64568
      [] name = "ARABIC LIGATURE KAF WITH HAH ISOLATED FORM" -> 64569
      [] name = "ARABIC LIGATURE KAF WITH KHAH ISOLATED FORM" -> 64570
      [] name = "ARABIC LIGATURE KAF WITH LAM ISOLATED FORM" -> 64571
      [] name = "ARABIC LIGATURE KAF WITH MEEM ISOLATED FORM" -> 64572
      [] name = "ARABIC LIGATURE KAF WITH ALEF MAKSURA ISOLATED FORM" -> 64573
      [] name = "ARABIC LIGATURE KAF WITH YEH ISOLATED FORM" -> 64574
      [] name = "ARABIC LIGATURE LAM WITH JEEM ISOLATED FORM" -> 64575
      [] name = "ARABIC LIGATURE LAM WITH HAH ISOLATED FORM" -> 64576
      [] name = "ARABIC LIGATURE LAM WITH KHAH ISOLATED FORM" -> 64577
      [] name = "ARABIC LIGATURE LAM WITH MEEM ISOLATED FORM" -> 64578
      [] name = "ARABIC LIGATURE LAM WITH ALEF MAKSURA ISOLATED FORM" -> 64579
      [] name = "ARABIC LIGATURE LAM WITH YEH ISOLATED FORM" -> 64580
      [] name = "ARABIC LIGATURE MEEM WITH JEEM ISOLATED FORM" -> 64581
      [] name = "ARABIC LIGATURE MEEM WITH HAH ISOLATED FORM" -> 64582
      [] name = "ARABIC LIGATURE MEEM WITH KHAH ISOLATED FORM" -> 64583
      [] name = "ARABIC LIGATURE MEEM WITH MEEM ISOLATED FORM" -> 64584
      [] name = "ARABIC LIGATURE MEEM WITH ALEF MAKSURA ISOLATED FORM" -> 64585
      [] name = "ARABIC LIGATURE MEEM WITH YEH ISOLATED FORM" -> 64586
      [] name = "ARABIC LIGATURE NOON WITH JEEM ISOLATED FORM" -> 64587
      [] name = "ARABIC LIGATURE NOON WITH HAH ISOLATED FORM" -> 64588
      [] name = "ARABIC LIGATURE NOON WITH KHAH ISOLATED FORM" -> 64589
      [] name = "ARABIC LIGATURE NOON WITH MEEM ISOLATED FORM" -> 64590
      [] name = "ARABIC LIGATURE NOON WITH ALEF MAKSURA ISOLATED FORM" -> 64591
      [] name = "ARABIC LIGATURE NOON WITH YEH ISOLATED FORM" -> 64592
      [] name = "ARABIC LIGATURE HEH WITH JEEM ISOLATED FORM" -> 64593
      [] name = "ARABIC LIGATURE HEH WITH MEEM ISOLATED FORM" -> 64594
      [] name = "ARABIC LIGATURE HEH WITH ALEF MAKSURA ISOLATED FORM" -> 64595
      [] name = "ARABIC LIGATURE HEH WITH YEH ISOLATED FORM" -> 64596
      [] name = "ARABIC LIGATURE YEH WITH JEEM ISOLATED FORM" -> 64597
      [] name = "ARABIC LIGATURE YEH WITH HAH ISOLATED FORM" -> 64598
      [] name = "ARABIC LIGATURE YEH WITH KHAH ISOLATED FORM" -> 64599
      [] name = "ARABIC LIGATURE YEH WITH MEEM ISOLATED FORM" -> 64600
      [] name = "ARABIC LIGATURE YEH WITH ALEF MAKSURA ISOLATED FORM" -> 64601
      [] name = "ARABIC LIGATURE YEH WITH YEH ISOLATED FORM" -> 64602
      [] name = "ARABIC LIGATURE THAL WITH SUPERSCRIPT ALEF ISOLATED FORM" -> 64603
      [] name = "ARABIC LIGATURE REH WITH SUPERSCRIPT ALEF ISOLATED FORM" -> 64604
      [] name = "ARABIC LIGATURE ALEF MAKSURA WITH SUPERSCRIPT ALEF ISOLATED FORM" -> 64605
      [] name = "ARABIC LIGATURE SHADDA WITH DAMMATAN ISOLATED FORM" -> 64606
      [] name = "ARABIC LIGATURE SHADDA WITH KASRATAN ISOLATED FORM" -> 64607
      [] name = "ARABIC LIGATURE SHADDA WITH FATHA ISOLATED FORM" -> 64608
      [] name = "ARABIC LIGATURE SHADDA WITH DAMMA ISOLATED FORM" -> 64609
      [] name = "ARABIC LIGATURE SHADDA WITH KASRA ISOLATED FORM" -> 64610
      [] name = "ARABIC LIGATURE SHADDA WITH SUPERSCRIPT ALEF ISOLATED FORM" -> 64611
      [] name = "ARABIC LIGATURE YEH WITH HAMZA ABOVE WITH REH FINAL FORM" -> 64612
      [] name = "ARABIC LIGATURE YEH WITH HAMZA ABOVE WITH ZAIN FINAL FORM" -> 64613
      [] name = "ARABIC LIGATURE YEH WITH HAMZA ABOVE WITH MEEM FINAL FORM" -> 64614
      [] name = "ARABIC LIGATURE YEH WITH HAMZA ABOVE WITH NOON FINAL FORM" -> 64615
      [] name = "ARABIC LIGATURE YEH WITH HAMZA ABOVE WITH ALEF MAKSURA FINAL FORM" -> 64616
      [] name = "ARABIC LIGATURE YEH WITH HAMZA ABOVE WITH YEH FINAL FORM" -> 64617
      [] name = "ARABIC LIGATURE BEH WITH REH FINAL FORM" -> 64618
      [] name = "ARABIC LIGATURE BEH WITH ZAIN FINAL FORM" -> 64619
      [] name = "ARABIC LIGATURE BEH WITH MEEM FINAL FORM" -> 64620
      [] name = "ARABIC LIGATURE BEH WITH NOON FINAL FORM" -> 64621
      [] name = "ARABIC LIGATURE BEH WITH ALEF MAKSURA FINAL FORM" -> 64622
      [] name = "ARABIC LIGATURE BEH WITH YEH FINAL FORM" -> 64623
      [] name = "ARABIC LIGATURE TEH WITH REH FINAL FORM" -> 64624
      [] name = "ARABIC LIGATURE TEH WITH ZAIN FINAL FORM" -> 64625
      [] name = "ARABIC LIGATURE TEH WITH MEEM FINAL FORM" -> 64626
      [] name = "ARABIC LIGATURE TEH WITH NOON FINAL FORM" -> 64627
      [] name = "ARABIC LIGATURE TEH WITH ALEF MAKSURA FINAL FORM" -> 64628
      [] name = "ARABIC LIGATURE TEH WITH YEH FINAL FORM" -> 64629
      [] name = "ARABIC LIGATURE THEH WITH REH FINAL FORM" -> 64630
      [] name = "ARABIC LIGATURE THEH WITH ZAIN FINAL FORM" -> 64631
      [] name = "ARABIC LIGATURE THEH WITH MEEM FINAL FORM" -> 64632
      [] name = "ARABIC LIGATURE THEH WITH NOON FINAL FORM" -> 64633
      [] name = "ARABIC LIGATURE THEH WITH ALEF MAKSURA FINAL FORM" -> 64634
      [] name = "ARABIC LIGATURE THEH WITH YEH FINAL FORM" -> 64635
      [] name = "ARABIC LIGATURE FEH WITH ALEF MAKSURA FINAL FORM" -> 64636
      [] name = "ARABIC LIGATURE FEH WITH YEH FINAL FORM" -> 64637
      [] name = "ARABIC LIGATURE QAF WITH ALEF MAKSURA FINAL FORM" -> 64638
      [] name = "ARABIC LIGATURE QAF WITH YEH FINAL FORM" -> 64639
      [] name = "ARABIC LIGATURE KAF WITH ALEF FINAL FORM" -> 64640
      [] name = "ARABIC LIGATURE KAF WITH LAM FINAL FORM" -> 64641
      [] name = "ARABIC LIGATURE KAF WITH MEEM FINAL FORM" -> 64642
      [] name = "ARABIC LIGATURE KAF WITH ALEF MAKSURA FINAL FORM" -> 64643
      [] name = "ARABIC LIGATURE KAF WITH YEH FINAL FORM" -> 64644
      [] name = "ARABIC LIGATURE LAM WITH MEEM FINAL FORM" -> 64645
      [] name = "ARABIC LIGATURE LAM WITH ALEF MAKSURA FINAL FORM" -> 64646
      [] name = "ARABIC LIGATURE LAM WITH YEH FINAL FORM" -> 64647
      [] name = "ARABIC LIGATURE MEEM WITH ALEF FINAL FORM" -> 64648
      [] name = "ARABIC LIGATURE MEEM WITH MEEM FINAL FORM" -> 64649
      [] name = "ARABIC LIGATURE NOON WITH REH FINAL FORM" -> 64650
      [] name = "ARABIC LIGATURE NOON WITH ZAIN FINAL FORM" -> 64651
      [] name = "ARABIC LIGATURE NOON WITH MEEM FINAL FORM" -> 64652
      [] name = "ARABIC LIGATURE NOON WITH NOON FINAL FORM" -> 64653
      [] name = "ARABIC LIGATURE NOON WITH ALEF MAKSURA FINAL FORM" -> 64654
      [] name = "ARABIC LIGATURE NOON WITH YEH FINAL FORM" -> 64655
      [] name = "ARABIC LIGATURE ALEF MAKSURA WITH SUPERSCRIPT ALEF FINAL FORM" -> 64656
      [] name = "ARABIC LIGATURE YEH WITH REH FINAL FORM" -> 64657
      [] name = "ARABIC LIGATURE YEH WITH ZAIN FINAL FORM" -> 64658
      [] name = "ARABIC LIGATURE YEH WITH MEEM FINAL FORM" -> 64659
      [] name = "ARABIC LIGATURE YEH WITH NOON FINAL FORM" -> 64660
      [] name = "ARABIC LIGATURE YEH WITH ALEF MAKSURA FINAL FORM" -> 64661
      [] name = "ARABIC LIGATURE YEH WITH YEH FINAL FORM" -> 64662
      [] name = "ARABIC LIGATURE YEH WITH HAMZA ABOVE WITH JEEM INITIAL FORM" -> 64663
      [] name = "ARABIC LIGATURE YEH WITH HAMZA ABOVE WITH HAH INITIAL FORM" -> 64664
      [] name = "ARABIC LIGATURE YEH WITH HAMZA ABOVE WITH KHAH INITIAL FORM" -> 64665
      [] name = "ARABIC LIGATURE YEH WITH HAMZA ABOVE WITH MEEM INITIAL FORM" -> 64666
      [] name = "ARABIC LIGATURE YEH WITH HAMZA ABOVE WITH HEH INITIAL FORM" -> 64667
      [] name = "ARABIC LIGATURE BEH WITH JEEM INITIAL FORM" -> 64668
      [] name = "ARABIC LIGATURE BEH WITH HAH INITIAL FORM" -> 64669
      [] name = "ARABIC LIGATURE BEH WITH KHAH INITIAL FORM" -> 64670
      [] name = "ARABIC LIGATURE BEH WITH MEEM INITIAL FORM" -> 64671
      [] name = "ARABIC LIGATURE BEH WITH HEH INITIAL FORM" -> 64672
      [] name = "ARABIC LIGATURE TEH WITH JEEM INITIAL FORM" -> 64673
      [] name = "ARABIC LIGATURE TEH WITH HAH INITIAL FORM" -> 64674
      [] name = "ARABIC LIGATURE TEH WITH KHAH INITIAL FORM" -> 64675
      [] name = "ARABIC LIGATURE TEH WITH MEEM INITIAL FORM" -> 64676
      [] name = "ARABIC LIGATURE TEH WITH HEH INITIAL FORM" -> 64677
      [] name = "ARABIC LIGATURE THEH WITH MEEM INITIAL FORM" -> 64678
      [] name = "ARABIC LIGATURE JEEM WITH HAH INITIAL FORM" -> 64679
      [] name = "ARABIC LIGATURE JEEM WITH MEEM INITIAL FORM" -> 64680
      [] name = "ARABIC LIGATURE HAH WITH JEEM INITIAL FORM" -> 64681
      [] name = "ARABIC LIGATURE HAH WITH MEEM INITIAL FORM" -> 64682
      [] name = "ARABIC LIGATURE KHAH WITH JEEM INITIAL FORM" -> 64683
      [] name = "ARABIC LIGATURE KHAH WITH MEEM INITIAL FORM" -> 64684
      [] name = "ARABIC LIGATURE SEEN WITH JEEM INITIAL FORM" -> 64685
      [] name = "ARABIC LIGATURE SEEN WITH HAH INITIAL FORM" -> 64686
      [] name = "ARABIC LIGATURE SEEN WITH KHAH INITIAL FORM" -> 64687
      [] name = "ARABIC LIGATURE SEEN WITH MEEM INITIAL FORM" -> 64688
      [] name = "ARABIC LIGATURE SAD WITH HAH INITIAL FORM" -> 64689
      [] name = "ARABIC LIGATURE SAD WITH KHAH INITIAL FORM" -> 64690
      [] name = "ARABIC LIGATURE SAD WITH MEEM INITIAL FORM" -> 64691
      [] name = "ARABIC LIGATURE DAD WITH JEEM INITIAL FORM" -> 64692
      [] name = "ARABIC LIGATURE DAD WITH HAH INITIAL FORM" -> 64693
      [] name = "ARABIC LIGATURE DAD WITH KHAH INITIAL FORM" -> 64694
      [] name = "ARABIC LIGATURE DAD WITH MEEM INITIAL FORM" -> 64695
      [] name = "ARABIC LIGATURE TAH WITH HAH INITIAL FORM" -> 64696
      [] name = "ARABIC LIGATURE ZAH WITH MEEM INITIAL FORM" -> 64697
      [] name = "ARABIC LIGATURE AIN WITH JEEM INITIAL FORM" -> 64698
      [] name = "ARABIC LIGATURE AIN WITH MEEM INITIAL FORM" -> 64699
      [] name = "ARABIC LIGATURE GHAIN WITH JEEM INITIAL FORM" -> 64700
      [] name = "ARABIC LIGATURE GHAIN WITH MEEM INITIAL FORM" -> 64701
      [] name = "ARABIC LIGATURE FEH WITH JEEM INITIAL FORM" -> 64702
      [] name = "ARABIC LIGATURE FEH WITH HAH INITIAL FORM" -> 64703
      [] name = "ARABIC LIGATURE FEH WITH KHAH INITIAL FORM" -> 64704
      [] name = "ARABIC LIGATURE FEH WITH MEEM INITIAL FORM" -> 64705
      [] name = "ARABIC LIGATURE QAF WITH HAH INITIAL FORM" -> 64706
      [] name = "ARABIC LIGATURE QAF WITH MEEM INITIAL FORM" -> 64707
      [] name = "ARABIC LIGATURE KAF WITH JEEM INITIAL FORM" -> 64708
      [] name = "ARABIC LIGATURE KAF WITH HAH INITIAL FORM" -> 64709
      [] name = "ARABIC LIGATURE KAF WITH KHAH INITIAL FORM" -> 64710
      [] name = "ARABIC LIGATURE KAF WITH LAM INITIAL FORM" -> 64711
      [] name = "ARABIC LIGATURE KAF WITH MEEM INITIAL FORM" -> 64712
      [] name = "ARABIC LIGATURE LAM WITH JEEM INITIAL FORM" -> 64713
      [] name = "ARABIC LIGATURE LAM WITH HAH INITIAL FORM" -> 64714
      [] name = "ARABIC LIGATURE LAM WITH KHAH INITIAL FORM" -> 64715
      [] name = "ARABIC LIGATURE LAM WITH MEEM INITIAL FORM" -> 64716
      [] name = "ARABIC LIGATURE LAM WITH HEH INITIAL FORM" -> 64717
      [] name = "ARABIC LIGATURE MEEM WITH JEEM INITIAL FORM" -> 64718
      [] name = "ARABIC LIGATURE MEEM WITH HAH INITIAL FORM" -> 64719
      [] name = "ARABIC LIGATURE MEEM WITH KHAH INITIAL FORM" -> 64720
      [] name = "ARABIC LIGATURE MEEM WITH MEEM INITIAL FORM" -> 64721
      [] name = "ARABIC LIGATURE NOON WITH JEEM INITIAL FORM" -> 64722
      [] name = "ARABIC LIGATURE NOON WITH HAH INITIAL FORM" -> 64723
      [] name = "ARABIC LIGATURE NOON WITH KHAH INITIAL FORM" -> 64724
      [] name = "ARABIC LIGATURE NOON WITH MEEM INITIAL FORM" -> 64725
      [] name = "ARABIC LIGATURE NOON WITH HEH INITIAL FORM" -> 64726
      [] name = "ARABIC LIGATURE HEH WITH JEEM INITIAL FORM" -> 64727
      [] name = "ARABIC LIGATURE HEH WITH MEEM INITIAL FORM" -> 64728
      [] name = "ARABIC LIGATURE HEH WITH SUPERSCRIPT ALEF INITIAL FORM" -> 64729
      [] name = "ARABIC LIGATURE YEH WITH JEEM INITIAL FORM" -> 64730
      [] name = "ARABIC LIGATURE YEH WITH HAH INITIAL FORM" -> 64731
      [] name = "ARABIC LIGATURE YEH WITH KHAH INITIAL FORM" -> 64732
      [] name = "ARABIC LIGATURE YEH WITH MEEM INITIAL FORM" -> 64733
      [] name = "ARABIC LIGATURE YEH WITH HEH INITIAL FORM" -> 64734
      [] name = "ARABIC LIGATURE YEH WITH HAMZA ABOVE WITH MEEM MEDIAL FORM" -> 64735
      [] name = "ARABIC LIGATURE YEH WITH HAMZA ABOVE WITH HEH MEDIAL FORM" -> 64736
      [] name = "ARABIC LIGATURE BEH WITH MEEM MEDIAL FORM" -> 64737
      [] name = "ARABIC LIGATURE BEH WITH HEH MEDIAL FORM" -> 64738
      [] name = "ARABIC LIGATURE TEH WITH MEEM MEDIAL FORM" -> 64739
      [] name = "ARABIC LIGATURE TEH WITH HEH MEDIAL FORM" -> 64740
      [] name = "ARABIC LIGATURE THEH WITH MEEM MEDIAL FORM" -> 64741
      [] name = "ARABIC LIGATURE THEH WITH HEH MEDIAL FORM" -> 64742
      [] name = "ARABIC LIGATURE SEEN WITH MEEM MEDIAL FORM" -> 64743
      [] name = "ARABIC LIGATURE SEEN WITH HEH MEDIAL FORM" -> 64744
      [] name = "ARABIC LIGATURE SHEEN WITH MEEM MEDIAL FORM" -> 64745
      [] name = "ARABIC LIGATURE SHEEN WITH HEH MEDIAL FORM" -> 64746
      [] name = "ARABIC LIGATURE KAF WITH LAM MEDIAL FORM" -> 64747
      [] name = "ARABIC LIGATURE KAF WITH MEEM MEDIAL FORM" -> 64748
      [] name = "ARABIC LIGATURE LAM WITH MEEM MEDIAL FORM" -> 64749
      [] name = "ARABIC LIGATURE NOON WITH MEEM MEDIAL FORM" -> 64750
      [] name = "ARABIC LIGATURE NOON WITH HEH MEDIAL FORM" -> 64751
      [] name = "ARABIC LIGATURE YEH WITH MEEM MEDIAL FORM" -> 64752
      [] name = "ARABIC LIGATURE YEH WITH HEH MEDIAL FORM" -> 64753
      [] name = "ARABIC LIGATURE SHADDA WITH FATHA MEDIAL FORM" -> 64754
      [] name = "ARABIC LIGATURE SHADDA WITH DAMMA MEDIAL FORM" -> 64755
      [] name = "ARABIC LIGATURE SHADDA WITH KASRA MEDIAL FORM" -> 64756
      [] name = "ARABIC LIGATURE TAH WITH ALEF MAKSURA ISOLATED FORM" -> 64757
      [] name = "ARABIC LIGATURE TAH WITH YEH ISOLATED FORM" -> 64758
      [] name = "ARABIC LIGATURE AIN WITH ALEF MAKSURA ISOLATED FORM" -> 64759
      [] name = "ARABIC LIGATURE AIN WITH YEH ISOLATED FORM" -> 64760
      [] name = "ARABIC LIGATURE GHAIN WITH ALEF MAKSURA ISOLATED FORM" -> 64761
      [] name = "ARABIC LIGATURE GHAIN WITH YEH ISOLATED FORM" -> 64762
      [] name = "ARABIC LIGATURE SEEN WITH ALEF MAKSURA ISOLATED FORM" -> 64763
      [] name = "ARABIC LIGATURE SEEN WITH YEH ISOLATED FORM" -> 64764
      [] name = "ARABIC LIGATURE SHEEN WITH ALEF MAKSURA ISOLATED FORM" -> 64765
      [] name = "ARABIC LIGATURE SHEEN WITH YEH ISOLATED FORM" -> 64766
      [] name = "ARABIC LIGATURE HAH WITH ALEF MAKSURA ISOLATED FORM" -> 64767
      [] name = "ARABIC LIGATURE HAH WITH YEH ISOLATED FORM" -> 64768
      [] name = "ARABIC LIGATURE JEEM WITH ALEF MAKSURA ISOLATED FORM" -> 64769
      [] name = "ARABIC LIGATURE JEEM WITH YEH ISOLATED FORM" -> 64770
      [] name = "ARABIC LIGATURE KHAH WITH ALEF MAKSURA ISOLATED FORM" -> 64771
      [] name = "ARABIC LIGATURE KHAH WITH YEH ISOLATED FORM" -> 64772
      [] name = "ARABIC LIGATURE SAD WITH ALEF MAKSURA ISOLATED FORM" -> 64773
      [] name = "ARABIC LIGATURE SAD WITH YEH ISOLATED FORM" -> 64774
      [] name = "ARABIC LIGATURE DAD WITH ALEF MAKSURA ISOLATED FORM" -> 64775
      [] name = "ARABIC LIGATURE DAD WITH YEH ISOLATED FORM" -> 64776
      [] name = "ARABIC LIGATURE SHEEN WITH JEEM ISOLATED FORM" -> 64777
      [] name = "ARABIC LIGATURE SHEEN WITH HAH ISOLATED FORM" -> 64778
      [] name = "ARABIC LIGATURE SHEEN WITH KHAH ISOLATED FORM" -> 64779
      [] name = "ARABIC LIGATURE SHEEN WITH MEEM ISOLATED FORM" -> 64780
      [] name = "ARABIC LIGATURE SHEEN WITH REH ISOLATED FORM" -> 64781
      [] name = "ARABIC LIGATURE SEEN WITH REH ISOLATED FORM" -> 64782
      [] name = "ARABIC LIGATURE SAD WITH REH ISOLATED FORM" -> 64783
      [] name = "ARABIC LIGATURE DAD WITH REH ISOLATED FORM" -> 64784
      [] name = "ARABIC LIGATURE TAH WITH ALEF MAKSURA FINAL FORM" -> 64785
      [] name = "ARABIC LIGATURE TAH WITH YEH FINAL FORM" -> 64786
      [] name = "ARABIC LIGATURE AIN WITH ALEF MAKSURA FINAL FORM" -> 64787
      [] name = "ARABIC LIGATURE AIN WITH YEH FINAL FORM" -> 64788
      [] name = "ARABIC LIGATURE GHAIN WITH ALEF MAKSURA FINAL FORM" -> 64789
      [] name = "ARABIC LIGATURE GHAIN WITH YEH FINAL FORM" -> 64790
      [] name = "ARABIC LIGATURE SEEN WITH ALEF MAKSURA FINAL FORM" -> 64791
      [] name = "ARABIC LIGATURE SEEN WITH YEH FINAL FORM" -> 64792
      [] name = "ARABIC LIGATURE SHEEN WITH ALEF MAKSURA FINAL FORM" -> 64793
      [] name = "ARABIC LIGATURE SHEEN WITH YEH FINAL FORM" -> 64794
      [] name = "ARABIC LIGATURE HAH WITH ALEF MAKSURA FINAL FORM" -> 64795
      [] name = "ARABIC LIGATURE HAH WITH YEH FINAL FORM" -> 64796
      [] name = "ARABIC LIGATURE JEEM WITH ALEF MAKSURA FINAL FORM" -> 64797
      [] name = "ARABIC LIGATURE JEEM WITH YEH FINAL FORM" -> 64798
      [] name = "ARABIC LIGATURE KHAH WITH ALEF MAKSURA FINAL FORM" -> 64799
      [] name = "ARABIC LIGATURE KHAH WITH YEH FINAL FORM" -> 64800
      [] name = "ARABIC LIGATURE SAD WITH ALEF MAKSURA FINAL FORM" -> 64801
      [] name = "ARABIC LIGATURE SAD WITH YEH FINAL FORM" -> 64802
      [] name = "ARABIC LIGATURE DAD WITH ALEF MAKSURA FINAL FORM" -> 64803
      [] name = "ARABIC LIGATURE DAD WITH YEH FINAL FORM" -> 64804
      [] name = "ARABIC LIGATURE SHEEN WITH JEEM FINAL FORM" -> 64805
      [] name = "ARABIC LIGATURE SHEEN WITH HAH FINAL FORM" -> 64806
      [] name = "ARABIC LIGATURE SHEEN WITH KHAH FINAL FORM" -> 64807
      [] name = "ARABIC LIGATURE SHEEN WITH MEEM FINAL FORM" -> 64808
      [] name = "ARABIC LIGATURE SHEEN WITH REH FINAL FORM" -> 64809
      [] name = "ARABIC LIGATURE SEEN WITH REH FINAL FORM" -> 64810
      [] name = "ARABIC LIGATURE SAD WITH REH FINAL FORM" -> 64811
      [] name = "ARABIC LIGATURE DAD WITH REH FINAL FORM" -> 64812
      [] name = "ARABIC LIGATURE SHEEN WITH JEEM INITIAL FORM" -> 64813
      [] name = "ARABIC LIGATURE SHEEN WITH HAH INITIAL FORM" -> 64814
      [] name = "ARABIC LIGATURE SHEEN WITH KHAH INITIAL FORM" -> 64815
      [] name = "ARABIC LIGATURE SHEEN WITH MEEM INITIAL FORM" -> 64816
      [] name = "ARABIC LIGATURE SEEN WITH HEH INITIAL FORM" -> 64817
      [] name = "ARABIC LIGATURE SHEEN WITH HEH INITIAL FORM" -> 64818
      [] name = "ARABIC LIGATURE TAH WITH MEEM INITIAL FORM" -> 64819
      [] name = "ARABIC LIGATURE SEEN WITH JEEM MEDIAL FORM" -> 64820
      [] name = "ARABIC LIGATURE SEEN WITH HAH MEDIAL FORM" -> 64821
      [] name = "ARABIC LIGATURE SEEN WITH KHAH MEDIAL FORM" -> 64822
      [] name = "ARABIC LIGATURE SHEEN WITH JEEM MEDIAL FORM" -> 64823
      [] name = "ARABIC LIGATURE SHEEN WITH HAH MEDIAL FORM" -> 64824
      [] name = "ARABIC LIGATURE SHEEN WITH KHAH MEDIAL FORM" -> 64825
      [] name = "ARABIC LIGATURE TAH WITH MEEM MEDIAL FORM" -> 64826
      [] name = "ARABIC LIGATURE ZAH WITH MEEM MEDIAL FORM" -> 64827
      [] name = "ARABIC LIGATURE ALEF WITH FATHATAN FINAL FORM" -> 64828
      [] name = "ARABIC LIGATURE ALEF WITH FATHATAN ISOLATED FORM" -> 64829
      [] name = "ORNATE LEFT PARENTHESIS" -> 64830
      [] name = "ORNATE RIGHT PARENTHESIS" -> 64831
      [] name = "ARABIC LIGATURE RAHIMAHU ALLAAH" -> 64832
      [] name = "ARABIC LIGATURE RADI ALLAAHU ANH" -> 64833
      [] name = "ARABIC LIGATURE RADI ALLAAHU ANHAA" -> 64834
      [] name = "ARABIC LIGATURE RADI ALLAAHU ANHUM" -> 64835
      [] name = "ARABIC LIGATURE RADI ALLAAHU ANHUMAA" -> 64836
      [] name = "ARABIC LIGATURE RADI ALLAAHU ANHUNNA" -> 64837
      [] name = "ARABIC LIGATURE SALLALLAAHU ALAYHI WA-AALIH" -> 64838
      [] name = "ARABIC LIGATURE ALAYHI AS-SALAAM" -> 64839
      [] name = "ARABIC LIGATURE ALAYHIM AS-SALAAM" -> 64840
      [] name = "ARABIC LIGATURE ALAYHIMAA AS-SALAAM" -> 64841
      [] name = "ARABIC LIGATURE ALAYHI AS-SALAATU WAS-SALAAM" -> 64842
      [] name = "ARABIC LIGATURE QUDDISA SIRRAH" -> 64843
      [] name = "ARABIC LIGATURE SALLALLAHU ALAYHI WAAALIHEE WA-SALLAM" -> 64844
      [] name = "ARABIC LIGATURE ALAYHAA AS-SALAAM" -> 64845
      [] name = "ARABIC LIGATURE TABAARAKA WA-TAAALAA" -> 64846
      [] name = "ARABIC LIGATURE RAHIMAHUM ALLAAH" -> 64847
      [] name = "ARABIC LIGATURE TEH WITH JEEM WITH MEEM INITIAL FORM" -> 64848
      [] name = "ARABIC LIGATURE TEH WITH HAH WITH JEEM FINAL FORM" -> 64849
      [] name = "ARABIC LIGATURE TEH WITH HAH WITH JEEM INITIAL FORM" -> 64850
      [] name = "ARABIC LIGATURE TEH WITH HAH WITH MEEM INITIAL FORM" -> 64851
      [] name = "ARABIC LIGATURE TEH WITH KHAH WITH MEEM INITIAL FORM" -> 64852
      [] name = "ARABIC LIGATURE TEH WITH MEEM WITH JEEM INITIAL FORM" -> 64853
      [] name = "ARABIC LIGATURE TEH WITH MEEM WITH HAH INITIAL FORM" -> 64854
      [] name = "ARABIC LIGATURE TEH WITH MEEM WITH KHAH INITIAL FORM" -> 64855
      [] name = "ARABIC LIGATURE JEEM WITH MEEM WITH HAH FINAL FORM" -> 64856
      [] name = "ARABIC LIGATURE JEEM WITH MEEM WITH HAH INITIAL FORM" -> 64857
      [] name = "ARABIC LIGATURE HAH WITH MEEM WITH YEH FINAL FORM" -> 64858
      [] name = "ARABIC LIGATURE HAH WITH MEEM WITH ALEF MAKSURA FINAL FORM" -> 64859
      [] name = "ARABIC LIGATURE SEEN WITH HAH WITH JEEM INITIAL FORM" -> 64860
      [] name = "ARABIC LIGATURE SEEN WITH JEEM WITH HAH INITIAL FORM" -> 64861
      [] name = "ARABIC LIGATURE SEEN WITH JEEM WITH ALEF MAKSURA FINAL FORM" -> 64862
      [] name = "ARABIC LIGATURE SEEN WITH MEEM WITH HAH FINAL FORM" -> 64863
      [] name = "ARABIC LIGATURE SEEN WITH MEEM WITH HAH INITIAL FORM" -> 64864
      [] name = "ARABIC LIGATURE SEEN WITH MEEM WITH JEEM INITIAL FORM" -> 64865
      [] name = "ARABIC LIGATURE SEEN WITH MEEM WITH MEEM FINAL FORM" -> 64866
      [] name = "ARABIC LIGATURE SEEN WITH MEEM WITH MEEM INITIAL FORM" -> 64867
      [] name = "ARABIC LIGATURE SAD WITH HAH WITH HAH FINAL FORM" -> 64868
      [] name = "ARABIC LIGATURE SAD WITH HAH WITH HAH INITIAL FORM" -> 64869
      [] name = "ARABIC LIGATURE SAD WITH MEEM WITH MEEM FINAL FORM" -> 64870
      [] name = "ARABIC LIGATURE SHEEN WITH HAH WITH MEEM FINAL FORM" -> 64871
      [] name = "ARABIC LIGATURE SHEEN WITH HAH WITH MEEM INITIAL FORM" -> 64872
      [] name = "ARABIC LIGATURE SHEEN WITH JEEM WITH YEH FINAL FORM" -> 64873
      [] name = "ARABIC LIGATURE SHEEN WITH MEEM WITH KHAH FINAL FORM" -> 64874
      [] name = "ARABIC LIGATURE SHEEN WITH MEEM WITH KHAH INITIAL FORM" -> 64875
      [] name = "ARABIC LIGATURE SHEEN WITH MEEM WITH MEEM FINAL FORM" -> 64876
      [] name = "ARABIC LIGATURE SHEEN WITH MEEM WITH MEEM INITIAL FORM" -> 64877
      [] name = "ARABIC LIGATURE DAD WITH HAH WITH ALEF MAKSURA FINAL FORM" -> 64878
      [] name = "ARABIC LIGATURE DAD WITH KHAH WITH MEEM FINAL FORM" -> 64879
      [] name = "ARABIC LIGATURE DAD WITH KHAH WITH MEEM INITIAL FORM" -> 64880
      [] name = "ARABIC LIGATURE TAH WITH MEEM WITH HAH FINAL FORM" -> 64881
      [] name = "ARABIC LIGATURE TAH WITH MEEM WITH HAH INITIAL FORM" -> 64882
      [] name = "ARABIC LIGATURE TAH WITH MEEM WITH MEEM INITIAL FORM" -> 64883
      [] name = "ARABIC LIGATURE TAH WITH MEEM WITH YEH FINAL FORM" -> 64884
      [] name = "ARABIC LIGATURE AIN WITH JEEM WITH MEEM FINAL FORM" -> 64885
      [] name = "ARABIC LIGATURE AIN WITH MEEM WITH MEEM FINAL FORM" -> 64886
      [] name = "ARABIC LIGATURE AIN WITH MEEM WITH MEEM INITIAL FORM" -> 64887
      [] name = "ARABIC LIGATURE AIN WITH MEEM WITH ALEF MAKSURA FINAL FORM" -> 64888
      [] name = "ARABIC LIGATURE GHAIN WITH MEEM WITH MEEM FINAL FORM" -> 64889
      [] name = "ARABIC LIGATURE GHAIN WITH MEEM WITH YEH FINAL FORM" -> 64890
      [] name = "ARABIC LIGATURE GHAIN WITH MEEM WITH ALEF MAKSURA FINAL FORM" -> 64891
      [] name = "ARABIC LIGATURE FEH WITH KHAH WITH MEEM FINAL FORM" -> 64892
      [] name = "ARABIC LIGATURE FEH WITH KHAH WITH MEEM INITIAL FORM" -> 64893
      [] name = "ARABIC LIGATURE QAF WITH MEEM WITH HAH FINAL FORM" -> 64894
      [] name = "ARABIC LIGATURE QAF WITH MEEM WITH MEEM FINAL FORM" -> 64895
      [] name = "ARABIC LIGATURE LAM WITH HAH WITH MEEM FINAL FORM" -> 64896
      [] name = "ARABIC LIGATURE LAM WITH HAH WITH YEH FINAL FORM" -> 64897
      [] name = "ARABIC LIGATURE LAM WITH HAH WITH ALEF MAKSURA FINAL FORM" -> 64898
      [] name = "ARABIC LIGATURE LAM WITH JEEM WITH JEEM INITIAL FORM" -> 64899
      [] name = "ARABIC LIGATURE LAM WITH JEEM WITH JEEM FINAL FORM" -> 64900
      [] name = "ARABIC LIGATURE LAM WITH KHAH WITH MEEM FINAL FORM" -> 64901
      [] name = "ARABIC LIGATURE LAM WITH KHAH WITH MEEM INITIAL FORM" -> 64902
      [] name = "ARABIC LIGATURE LAM WITH MEEM WITH HAH FINAL FORM" -> 64903
      [] name = "ARABIC LIGATURE LAM WITH MEEM WITH HAH INITIAL FORM" -> 64904
      [] name = "ARABIC LIGATURE MEEM WITH HAH WITH JEEM INITIAL FORM" -> 64905
      [] name = "ARABIC LIGATURE MEEM WITH HAH WITH MEEM INITIAL FORM" -> 64906
      [] name = "ARABIC LIGATURE MEEM WITH HAH WITH YEH FINAL FORM" -> 64907
      [] name = "ARABIC LIGATURE MEEM WITH JEEM WITH HAH INITIAL FORM" -> 64908
      [] name = "ARABIC LIGATURE MEEM WITH JEEM WITH MEEM INITIAL FORM" -> 64909
      [] name = "ARABIC LIGATURE MEEM WITH KHAH WITH JEEM INITIAL FORM" -> 64910
      [] name = "ARABIC LIGATURE MEEM WITH KHAH WITH MEEM INITIAL FORM" -> 64911
      [] name = "ARABIC LIGATURE MEEM WITH JEEM WITH KHAH INITIAL FORM" -> 64914
      [] name = "ARABIC LIGATURE HEH WITH MEEM WITH JEEM INITIAL FORM" -> 64915
      [] name = "ARABIC LIGATURE HEH WITH MEEM WITH MEEM INITIAL FORM" -> 64916
      [] name = "ARABIC LIGATURE NOON WITH HAH WITH MEEM INITIAL FORM" -> 64917
      [] name = "ARABIC LIGATURE NOON WITH HAH WITH ALEF MAKSURA FINAL FORM" -> 64918
      [] name = "ARABIC LIGATURE NOON WITH JEEM WITH MEEM FINAL FORM" -> 64919
      [] name = "ARABIC LIGATURE NOON WITH JEEM WITH MEEM INITIAL FORM" -> 64920
      [] name = "ARABIC LIGATURE NOON WITH JEEM WITH ALEF MAKSURA FINAL FORM" -> 64921
      [] name = "ARABIC LIGATURE NOON WITH MEEM WITH YEH FINAL FORM" -> 64922
      [] name = "ARABIC LIGATURE NOON WITH MEEM WITH ALEF MAKSURA FINAL FORM" -> 64923
      [] name = "ARABIC LIGATURE YEH WITH MEEM WITH MEEM FINAL FORM" -> 64924
      [] name = "ARABIC LIGATURE YEH WITH MEEM WITH MEEM INITIAL FORM" -> 64925
      [] name = "ARABIC LIGATURE BEH WITH KHAH WITH YEH FINAL FORM" -> 64926
      [] name = "ARABIC LIGATURE TEH WITH JEEM WITH YEH FINAL FORM" -> 64927
      [] name = "ARABIC LIGATURE TEH WITH JEEM WITH ALEF MAKSURA FINAL FORM" -> 64928
      [] name = "ARABIC LIGATURE TEH WITH KHAH WITH YEH FINAL FORM" -> 64929
      [] name = "ARABIC LIGATURE TEH WITH KHAH WITH ALEF MAKSURA FINAL FORM" -> 64930
      [] name = "ARABIC LIGATURE TEH WITH MEEM WITH YEH FINAL FORM" -> 64931
      [] name = "ARABIC LIGATURE TEH WITH MEEM WITH ALEF MAKSURA FINAL FORM" -> 64932
      [] name = "ARABIC LIGATURE JEEM WITH MEEM WITH YEH FINAL FORM" -> 64933
      [] name = "ARABIC LIGATURE JEEM WITH HAH WITH ALEF MAKSURA FINAL FORM" -> 64934
      [] name = "ARABIC LIGATURE JEEM WITH MEEM WITH ALEF MAKSURA FINAL FORM" -> 64935
      [] name = "ARABIC LIGATURE SEEN WITH KHAH WITH ALEF MAKSURA FINAL FORM" -> 64936
      [] name = "ARABIC LIGATURE SAD WITH HAH WITH YEH FINAL FORM" -> 64937
      [] name = "ARABIC LIGATURE SHEEN WITH HAH WITH YEH FINAL FORM" -> 64938
      [] name = "ARABIC LIGATURE DAD WITH HAH WITH YEH FINAL FORM" -> 64939
      [] name = "ARABIC LIGATURE LAM WITH JEEM WITH YEH FINAL FORM" -> 64940
      [] name = "ARABIC LIGATURE LAM WITH MEEM WITH YEH FINAL FORM" -> 64941
      [] name = "ARABIC LIGATURE YEH WITH HAH WITH YEH FINAL FORM" -> 64942
      [] name = "ARABIC LIGATURE YEH WITH JEEM WITH YEH FINAL FORM" -> 64943
      [] name = "ARABIC LIGATURE YEH WITH MEEM WITH YEH FINAL FORM" -> 64944
      [] name = "ARABIC LIGATURE MEEM WITH MEEM WITH YEH FINAL FORM" -> 64945
      [] name = "ARABIC LIGATURE QAF WITH MEEM WITH YEH FINAL FORM" -> 64946
      [] name = "ARABIC LIGATURE NOON WITH HAH WITH YEH FINAL FORM" -> 64947
      [] name = "ARABIC LIGATURE QAF WITH MEEM WITH HAH INITIAL FORM" -> 64948
      [] name = "ARABIC LIGATURE LAM WITH HAH WITH MEEM INITIAL FORM" -> 64949
      [] name = "ARABIC LIGATURE AIN WITH MEEM WITH YEH FINAL FORM" -> 64950
      [] name = "ARABIC LIGATURE KAF WITH MEEM WITH YEH FINAL FORM" -> 64951
      [] name = "ARABIC LIGATURE NOON WITH JEEM WITH HAH INITIAL FORM" -> 64952
      [] name = "ARABIC LIGATURE MEEM WITH KHAH WITH YEH FINAL FORM" -> 64953
      [] name = "ARABIC LIGATURE LAM WITH JEEM WITH MEEM INITIAL FORM" -> 64954
      [] name = "ARABIC LIGATURE KAF WITH MEEM WITH MEEM FINAL FORM" -> 64955
      [] name = "ARABIC LIGATURE LAM WITH JEEM WITH MEEM FINAL FORM" -> 64956
      [] name = "ARABIC LIGATURE NOON WITH JEEM WITH HAH FINAL FORM" -> 64957
      [] name = "ARABIC LIGATURE JEEM WITH HAH WITH YEH FINAL FORM" -> 64958
      [] name = "ARABIC LIGATURE HAH WITH JEEM WITH YEH FINAL FORM" -> 64959
      [] name = "ARABIC LIGATURE MEEM WITH JEEM WITH YEH FINAL FORM" -> 64960
      [] name = "ARABIC LIGATURE FEH WITH MEEM WITH YEH FINAL FORM" -> 64961
      [] name = "ARABIC LIGATURE BEH WITH HAH WITH YEH FINAL FORM" -> 64962
      [] name = "ARABIC LIGATURE KAF WITH MEEM WITH MEEM INITIAL FORM" -> 64963
      [] name = "ARABIC LIGATURE AIN WITH JEEM WITH MEEM INITIAL FORM" -> 64964
      [] name = "ARABIC LIGATURE SAD WITH MEEM WITH MEEM INITIAL FORM" -> 64965
      [] name = "ARABIC LIGATURE SEEN WITH KHAH WITH YEH FINAL FORM" -> 64966
      [] name = "ARABIC LIGATURE NOON WITH JEEM WITH YEH FINAL FORM" -> 64967
      [] name = "ARABIC LIGATURE SALAAMUHU ALAYNAA" -> 64975
      [] name = "ARABIC LIGATURE SALLA USED AS KORANIC STOP SIGN ISOLATED FORM" -> 65008
      [] name = "ARABIC LIGATURE QALA USED AS KORANIC STOP SIGN ISOLATED FORM" -> 65009
      [] name = "ARABIC LIGATURE ALLAH ISOLATED FORM" -> 65010
      [] name = "ARABIC LIGATURE AKBAR ISOLATED FORM" -> 65011
      [] name = "ARABIC LIGATURE MOHAMMAD ISOLATED FORM" -> 65012
      [] name = "ARABIC LIGATURE SALAM ISOLATED FORM" -> 65013
      [] name = "ARABIC LIGATURE RASOUL ISOLATED FORM" -> 65014
      [] name = "ARABIC LIGATURE ALAYHE ISOLATED FORM" -> 65015
      [] name = "ARABIC LIGATURE WASALLAM ISOLATED FORM" -> 65016
      [] name = "ARABIC LIGATURE SALLA ISOLATED FORM" -> 65017
      [] name = "ARABIC LIGATURE SALLALLAHOU ALAYHE WASALLAM" -> 65018
      [] name = "ARABIC LIGATURE JALLAJALALOUHOU" -> 65019
      [] name = "RIAL SIGN" -> 65020
      [] name = "ARABIC LIGATURE BISMILLAH AR-RAHMAN AR-RAHEEM" -> 65021
      [] name = "ARABIC LIGATURE SUBHAANAHU WA TAAALAA" -> 65022
      [] name = "ARABIC LIGATURE AZZA WA JALL" -> 65023
      [] name = "VARIATION SELECTOR-1" -> 65024
      [] name = "VS1" -> 65024
      [] name = "VARIATION SELECTOR-2" -> 65025
      [] name = "VS2" -> 65025
      [] name = "VARIATION SELECTOR-3" -> 65026
      [] name = "VS3" -> 65026
      [] name = "VARIATION SELECTOR-4" -> 65027
      [] name = "VS4" -> 65027
      [] name = "VARIATION SELECTOR-5" -> 65028
      [] name = "VS5" -> 65028
      [] name = "VARIATION SELECTOR-6" -> 65029
      [] name = "VS6" -> 65029
      [] name = "VARIATION SELECTOR-7" -> 65030
      [] name = "VS7" -> 65030
      [] name = "VARIATION SELECTOR-8" -> 65031
      [] name = "VS8" -> 65031
      [] name = "VARIATION SELECTOR-9" -> 65032
      [] name = "VS9" -> 65032
      [] name = "VARIATION SELECTOR-10" -> 65033
      [] name = "VS10" -> 65033
      [] name = "VARIATION SELECTOR-11" -> 65034
      [] name = "VS11" -> 65034
      [] name = "VARIATION SELECTOR-12" -> 65035
      [] name = "VS12" -> 65035
      [] name = "VARIATION SELECTOR-13" -> 65036
      [] name = "VS13" -> 65036
      [] name = "VARIATION SELECTOR-14" -> 65037
      [] name = "VS14" -> 65037
      [] name = "VARIATION SELECTOR-15" -> 65038
      [] name = "VS15" -> 65038
      [] name = "VARIATION SELECTOR-16" -> 65039
      [] name = "VS16" -> 65039
      [] name = "PRESENTATION FORM FOR VERTICAL COMMA" -> 65040
      [] name = "PRESENTATION FORM FOR VERTICAL IDEOGRAPHIC COMMA" -> 65041
      [] name = "PRESENTATION FORM FOR VERTICAL IDEOGRAPHIC FULL STOP" -> 65042
      [] name = "PRESENTATION FORM FOR VERTICAL COLON" -> 65043
      [] name = "PRESENTATION FORM FOR VERTICAL SEMICOLON" -> 65044
      [] name = "PRESENTATION FORM FOR VERTICAL EXCLAMATION MARK" -> 65045
      [] name = "PRESENTATION FORM FOR VERTICAL QUESTION MARK" -> 65046
      [] name = "PRESENTATION FORM FOR VERTICAL LEFT WHITE LENTICULAR BRACKET" -> 65047
      [] name = "PRESENTATION FORM FOR VERTICAL RIGHT WHITE LENTICULAR BRACKET" -> 65048
      [] name = "PRESENTATION FORM FOR VERTICAL RIGHT WHITE LENTICULAR BRAKCET" -> 65048
      [] name = "PRESENTATION FORM FOR VERTICAL HORIZONTAL ELLIPSIS" -> 65049
      [] name = "COMBINING LIGATURE LEFT HALF" -> 65056
      [] name = "COMBINING LIGATURE RIGHT HALF" -> 65057
      [] name = "COMBINING DOUBLE TILDE LEFT HALF" -> 65058
      [] name = "COMBINING DOUBLE TILDE RIGHT HALF" -> 65059
      [] name = "COMBINING MACRON LEFT HALF" -> 65060
      [] name = "COMBINING MACRON RIGHT HALF" -> 65061
      [] name = "COMBINING CONJOINING MACRON" -> 65062
      [] name = "COMBINING LIGATURE LEFT HALF BELOW" -> 65063
      [] name = "COMBINING LIGATURE RIGHT HALF BELOW" -> 65064
      [] name = "COMBINING TILDE LEFT HALF BELOW" -> 65065
      [] name = "COMBINING TILDE RIGHT HALF BELOW" -> 65066
      [] name = "COMBINING MACRON LEFT HALF BELOW" -> 65067
      [] name = "COMBINING MACRON RIGHT HALF BELOW" -> 65068
      [] name = "COMBINING CONJOINING MACRON BELOW" -> 65069
      [] name = "COMBINING CYRILLIC TITLO LEFT HALF" -> 65070
      [] name = "COMBINING CYRILLIC TITLO RIGHT HALF" -> 65071
      [] name = "PRESENTATION FORM FOR VERTICAL TWO DOT LEADER" -> 65072
      [] name = "PRESENTATION FORM FOR VERTICAL EM DASH" -> 65073
      [] name = "PRESENTATION FORM FOR VERTICAL EN DASH" -> 65074
      [] name = "PRESENTATION FORM FOR VERTICAL LOW LINE" -> 65075
      [] name = "PRESENTATION FORM FOR VERTICAL WAVY LOW LINE" -> 65076
      [] name = "PRESENTATION FORM FOR VERTICAL LEFT PARENTHESIS" -> 65077
      [] name = "PRESENTATION FORM FOR VERTICAL RIGHT PARENTHESIS" -> 65078
      [] name = "PRESENTATION FORM FOR VERTICAL LEFT CURLY BRACKET" -> 65079
      [] name = "PRESENTATION FORM FOR VERTICAL RIGHT CURLY BRACKET" -> 65080
      [] name = "PRESENTATION FORM FOR VERTICAL LEFT TORTOISE SHELL BRACKET" -> 65081
      [] name = "PRESENTATION FORM FOR VERTICAL RIGHT TORTOISE SHELL BRACKET" -> 65082
      [] name = "PRESENTATION FORM FOR VERTICAL LEFT BLACK LENTICULAR BRACKET" -> 65083
      [] name = "PRESENTATION FORM FOR VERTICAL RIGHT BLACK LENTICULAR BRACKET" -> 65084
      [] name = "PRESENTATION FORM FOR VERTICAL LEFT DOUBLE ANGLE BRACKET" -> 65085
      [] name = "PRESENTATION FORM FOR VERTICAL RIGHT DOUBLE ANGLE BRACKET" -> 65086
      [] name = "PRESENTATION FORM FOR VERTICAL LEFT ANGLE BRACKET" -> 65087
      [] name = "PRESENTATION FORM FOR VERTICAL RIGHT ANGLE BRACKET" -> 65088
      [] name = "PRESENTATION FORM FOR VERTICAL LEFT CORNER BRACKET" -> 65089
      [] name = "PRESENTATION FORM FOR VERTICAL RIGHT CORNER BRACKET" -> 65090
      [] name = "PRESENTATION FORM FOR VERTICAL LEFT WHITE CORNER BRACKET" -> 65091
      [] name = "PRESENTATION FORM FOR VERTICAL RIGHT WHITE CORNER BRACKET" -> 65092
      [] name = "SESAME DOT" -> 65093
      [] name = "WHITE SESAME DOT" -> 65094
      [] name = "PRESENTATION FORM FOR VERTICAL LEFT SQUARE BRACKET" -> 65095
      [] name = "PRESENTATION FORM FOR VERTICAL RIGHT SQUARE BRACKET" -> 65096
      [] name = "DASHED OVERLINE" -> 65097
      [] name = "CENTRELINE OVERLINE" -> 65098
      [] name = "WAVY OVERLINE" -> 65099
      [] name = "DOUBLE WAVY OVERLINE" -> 65100
      [] name = "DASHED LOW LINE" -> 65101
      [] name = "CENTRELINE LOW LINE" -> 65102
      [] name = "WAVY LOW LINE" -> 65103
      [] name = "SMALL COMMA" -> 65104
      [] name = "SMALL IDEOGRAPHIC COMMA" -> 65105
      [] name = "SMALL FULL STOP" -> 65106
      [] name = "SMALL SEMICOLON" -> 65108
      [] name = "SMALL COLON" -> 65109
      [] name = "SMALL QUESTION MARK" -> 65110
      [] name = "SMALL EXCLAMATION MARK" -> 65111
      [] name = "SMALL EM DASH" -> 65112
      [] name = "SMALL LEFT PARENTHESIS" -> 65113
      [] name = "SMALL RIGHT PARENTHESIS" -> 65114
      [] name = "SMALL LEFT CURLY BRACKET" -> 65115
      [] name = "SMALL RIGHT CURLY BRACKET" -> 65116
      [] name = "SMALL LEFT TORTOISE SHELL BRACKET" -> 65117
      [] name = "SMALL RIGHT TORTOISE SHELL BRACKET" -> 65118
      [] name = "SMALL NUMBER SIGN" -> 65119
      [] name = "SMALL AMPERSAND" -> 65120
      [] name = "SMALL ASTERISK" -> 65121
      [] name = "SMALL PLUS SIGN" -> 65122
      [] name = "SMALL HYPHEN-MINUS" -> 65123
      [] name = "SMALL LESS-THAN SIGN" -> 65124
      [] name = "SMALL GREATER-THAN SIGN" -> 65125
      [] name = "SMALL EQUALS SIGN" -> 65126
      [] name = "SMALL REVERSE SOLIDUS" -> 65128
      [] name = "SMALL DOLLAR SIGN" -> 65129
      [] name = "SMALL PERCENT SIGN" -> 65130
      [] name = "SMALL COMMERCIAL AT" -> 65131
      [] name = "ARABIC FATHATAN ISOLATED FORM" -> 65136
      [] name = "ARABIC TATWEEL WITH FATHATAN ABOVE" -> 65137
      [] name = "ARABIC DAMMATAN ISOLATED FORM" -> 65138
      [] name = "ARABIC TAIL FRAGMENT" -> 65139
      [] name = "ARABIC KASRATAN ISOLATED FORM" -> 65140
      [] name = "ARABIC FATHA ISOLATED FORM" -> 65142
      [] name = "ARABIC FATHA MEDIAL FORM" -> 65143
      [] name = "ARABIC DAMMA ISOLATED FORM" -> 65144
      [] name = "ARABIC DAMMA MEDIAL FORM" -> 65145
      [] name = "ARABIC KASRA ISOLATED FORM" -> 65146
      [] name = "ARABIC KASRA MEDIAL FORM" -> 65147
      [] name = "ARABIC SHADDA ISOLATED FORM" -> 65148
      [] name = "ARABIC SHADDA MEDIAL FORM" -> 65149
      [] name = "ARABIC SUKUN ISOLATED FORM" -> 65150
      [] name = "ARABIC SUKUN MEDIAL FORM" -> 65151
      [] name = "ARABIC LETTER HAMZA ISOLATED FORM" -> 65152
      [] name = "ARABIC LETTER ALEF WITH MADDA ABOVE ISOLATED FORM" -> 65153
      [] name = "ARABIC LETTER ALEF WITH MADDA ABOVE FINAL FORM" -> 65154
      [] name = "ARABIC LETTER ALEF WITH HAMZA ABOVE ISOLATED FORM" -> 65155
      [] name = "ARABIC LETTER ALEF WITH HAMZA ABOVE FINAL FORM" -> 65156
      [] name = "ARABIC LETTER WAW WITH HAMZA ABOVE ISOLATED FORM" -> 65157
      [] name = "ARABIC LETTER WAW WITH HAMZA ABOVE FINAL FORM" -> 65158
      [] name = "ARABIC LETTER ALEF WITH HAMZA BELOW ISOLATED FORM" -> 65159
      [] name = "ARABIC LETTER ALEF WITH HAMZA BELOW FINAL FORM" -> 65160
      [] name = "ARABIC LETTER YEH WITH HAMZA ABOVE ISOLATED FORM" -> 65161
      [] name = "ARABIC LETTER YEH WITH HAMZA ABOVE FINAL FORM" -> 65162
      [] name = "ARABIC LETTER YEH WITH HAMZA ABOVE INITIAL FORM" -> 65163
      [] name = "ARABIC LETTER YEH WITH HAMZA ABOVE MEDIAL FORM" -> 65164
      [] name = "ARABIC LETTER ALEF ISOLATED FORM" -> 65165
      [] name = "ARABIC LETTER ALEF FINAL FORM" -> 65166
      [] name = "ARABIC LETTER BEH ISOLATED FORM" -> 65167
      [] name = "ARABIC LETTER BEH FINAL FORM" -> 65168
      [] name = "ARABIC LETTER BEH INITIAL FORM" -> 65169
      [] name = "ARABIC LETTER BEH MEDIAL FORM" -> 65170
      [] name = "ARABIC LETTER TEH MARBUTA ISOLATED FORM" -> 65171
      [] name = "ARABIC LETTER TEH MARBUTA FINAL FORM" -> 65172
      [] name = "ARABIC LETTER TEH ISOLATED FORM" -> 65173
      [] name = "ARABIC LETTER TEH FINAL FORM" -> 65174
      [] name = "ARABIC LETTER TEH INITIAL FORM" -> 65175
      [] name = "ARABIC LETTER TEH MEDIAL FORM" -> 65176
      [] name = "ARABIC LETTER THEH ISOLATED FORM" -> 65177
      [] name = "ARABIC LETTER THEH FINAL FORM" -> 65178
      [] name = "ARABIC LETTER THEH INITIAL FORM" -> 65179
      [] name = "ARABIC LETTER THEH MEDIAL FORM" -> 65180
      [] name = "ARABIC LETTER JEEM ISOLATED FORM" -> 65181
      [] name = "ARABIC LETTER JEEM FINAL FORM" -> 65182
      [] name = "ARABIC LETTER JEEM INITIAL FORM" -> 65183
      [] name = "ARABIC LETTER JEEM MEDIAL FORM" -> 65184
      [] name = "ARABIC LETTER HAH ISOLATED FORM" -> 65185
      [] name = "ARABIC LETTER HAH FINAL FORM" -> 65186
      [] name = "ARABIC LETTER HAH INITIAL FORM" -> 65187
      [] name = "ARABIC LETTER HAH MEDIAL FORM" -> 65188
      [] name = "ARABIC LETTER KHAH ISOLATED FORM" -> 65189
      [] name = "ARABIC LETTER KHAH FINAL FORM" -> 65190
      [] name = "ARABIC LETTER KHAH INITIAL FORM" -> 65191
      [] name = "ARABIC LETTER KHAH MEDIAL FORM" -> 65192
      [] name = "ARABIC LETTER DAL ISOLATED FORM" -> 65193
      [] name = "ARABIC LETTER DAL FINAL FORM" -> 65194
      [] name = "ARABIC LETTER THAL ISOLATED FORM" -> 65195
      [] name = "ARABIC LETTER THAL FINAL FORM" -> 65196
      [] name = "ARABIC LETTER REH ISOLATED FORM" -> 65197
      [] name = "ARABIC LETTER REH FINAL FORM" -> 65198
      [] name = "ARABIC LETTER ZAIN ISOLATED FORM" -> 65199
      [] name = "ARABIC LETTER ZAIN FINAL FORM" -> 65200
      [] name = "ARABIC LETTER SEEN ISOLATED FORM" -> 65201
      [] name = "ARABIC LETTER SEEN FINAL FORM" -> 65202
      [] name = "ARABIC LETTER SEEN INITIAL FORM" -> 65203
      [] name = "ARABIC LETTER SEEN MEDIAL FORM" -> 65204
      [] name = "ARABIC LETTER SHEEN ISOLATED FORM" -> 65205
      [] name = "ARABIC LETTER SHEEN FINAL FORM" -> 65206
      [] name = "ARABIC LETTER SHEEN INITIAL FORM" -> 65207
      [] name = "ARABIC LETTER SHEEN MEDIAL FORM" -> 65208
      [] name = "ARABIC LETTER SAD ISOLATED FORM" -> 65209
      [] name = "ARABIC LETTER SAD FINAL FORM" -> 65210
      [] name = "ARABIC LETTER SAD INITIAL FORM" -> 65211
      [] name = "ARABIC LETTER SAD MEDIAL FORM" -> 65212
      [] name = "ARABIC LETTER DAD ISOLATED FORM" -> 65213
      [] name = "ARABIC LETTER DAD FINAL FORM" -> 65214
      [] name = "ARABIC LETTER DAD INITIAL FORM" -> 65215
      [] name = "ARABIC LETTER DAD MEDIAL FORM" -> 65216
      [] name = "ARABIC LETTER TAH ISOLATED FORM" -> 65217
      [] name = "ARABIC LETTER TAH FINAL FORM" -> 65218
      [] name = "ARABIC LETTER TAH INITIAL FORM" -> 65219
      [] name = "ARABIC LETTER TAH MEDIAL FORM" -> 65220
      [] name = "ARABIC LETTER ZAH ISOLATED FORM" -> 65221
      [] name = "ARABIC LETTER ZAH FINAL FORM" -> 65222
      [] name = "ARABIC LETTER ZAH INITIAL FORM" -> 65223
      [] name = "ARABIC LETTER ZAH MEDIAL FORM" -> 65224
      [] name = "ARABIC LETTER AIN ISOLATED FORM" -> 65225
      [] name = "ARABIC LETTER AIN FINAL FORM" -> 65226
      [] name = "ARABIC LETTER AIN INITIAL FORM" -> 65227
      [] name = "ARABIC LETTER AIN MEDIAL FORM" -> 65228
      [] name = "ARABIC LETTER GHAIN ISOLATED FORM" -> 65229
      [] name = "ARABIC LETTER GHAIN FINAL FORM" -> 65230
      [] name = "ARABIC LETTER GHAIN INITIAL FORM" -> 65231
      [] name = "ARABIC LETTER GHAIN MEDIAL FORM" -> 65232
      [] name = "ARABIC LETTER FEH ISOLATED FORM" -> 65233
      [] name = "ARABIC LETTER FEH FINAL FORM" -> 65234
      [] name = "ARABIC LETTER FEH INITIAL FORM" -> 65235
      [] name = "ARABIC LETTER FEH MEDIAL FORM" -> 65236
      [] name = "ARABIC LETTER QAF ISOLATED FORM" -> 65237
      [] name = "ARABIC LETTER QAF FINAL FORM" -> 65238
      [] name = "ARABIC LETTER QAF INITIAL FORM" -> 65239
      [] name = "ARABIC LETTER QAF MEDIAL FORM" -> 65240
      [] name = "ARABIC LETTER KAF ISOLATED FORM" -> 65241
      [] name = "ARABIC LETTER KAF FINAL FORM" -> 65242
      [] name = "ARABIC LETTER KAF INITIAL FORM" -> 65243
      [] name = "ARABIC LETTER KAF MEDIAL FORM" -> 65244
      [] name = "ARABIC LETTER LAM ISOLATED FORM" -> 65245
      [] name = "ARABIC LETTER LAM FINAL FORM" -> 65246
      [] name = "ARABIC LETTER LAM INITIAL FORM" -> 65247
      [] name = "ARABIC LETTER LAM MEDIAL FORM" -> 65248
      [] name = "ARABIC LETTER MEEM ISOLATED FORM" -> 65249
      [] name = "ARABIC LETTER MEEM FINAL FORM" -> 65250
      [] name = "ARABIC LETTER MEEM INITIAL FORM" -> 65251
      [] name = "ARABIC LETTER MEEM MEDIAL FORM" -> 65252
      [] name = "ARABIC LETTER NOON ISOLATED FORM" -> 65253
      [] name = "ARABIC LETTER NOON FINAL FORM" -> 65254
      [] name = "ARABIC LETTER NOON INITIAL FORM" -> 65255
      [] name = "ARABIC LETTER NOON MEDIAL FORM" -> 65256
      [] name = "ARABIC LETTER HEH ISOLATED FORM" -> 65257
      [] name = "ARABIC LETTER HEH FINAL FORM" -> 65258
      [] name = "ARABIC LETTER HEH INITIAL FORM" -> 65259
      [] name = "ARABIC LETTER HEH MEDIAL FORM" -> 65260
      [] name = "ARABIC LETTER WAW ISOLATED FORM" -> 65261
      [] name = "ARABIC LETTER WAW FINAL FORM" -> 65262
      [] name = "ARABIC LETTER ALEF MAKSURA ISOLATED FORM" -> 65263
      [] name = "ARABIC LETTER ALEF MAKSURA FINAL FORM" -> 65264
      [] name = "ARABIC LETTER YEH ISOLATED FORM" -> 65265
      [] name = "ARABIC LETTER YEH FINAL FORM" -> 65266
      [] name = "ARABIC LETTER YEH INITIAL FORM" -> 65267
      [] name = "ARABIC LETTER YEH MEDIAL FORM" -> 65268
      [] name = "ARABIC LIGATURE LAM WITH ALEF WITH MADDA ABOVE ISOLATED FORM" -> 65269
      [] name = "ARABIC LIGATURE LAM WITH ALEF WITH MADDA ABOVE FINAL FORM" -> 65270
      [] name = "ARABIC LIGATURE LAM WITH ALEF WITH HAMZA ABOVE ISOLATED FORM" -> 65271
      [] name = "ARABIC LIGATURE LAM WITH ALEF WITH HAMZA ABOVE FINAL FORM" -> 65272
      [] name = "ARABIC LIGATURE LAM WITH ALEF WITH HAMZA BELOW ISOLATED FORM" -> 65273
      [] name = "ARABIC LIGATURE LAM WITH ALEF WITH HAMZA BELOW FINAL FORM" -> 65274
      [] name = "ARABIC LIGATURE LAM WITH ALEF ISOLATED FORM" -> 65275
      [] name = "ARABIC LIGATURE LAM WITH ALEF FINAL FORM" -> 65276
      [] name = "BOM" -> 65279
      [] name = "BYTE ORDER MARK" -> 65279
      [] name = "ZERO WIDTH NO-BREAK SPACE" -> 65279
      [] name = "ZWNBSP" -> 65279
      [] name = "FULLWIDTH EXCLAMATION MARK" -> 65281
      [] name = "FULLWIDTH QUOTATION MARK" -> 65282
      [] name = "FULLWIDTH NUMBER SIGN" -> 65283
      [] name = "FULLWIDTH DOLLAR SIGN" -> 65284
      [] name = "FULLWIDTH PERCENT SIGN" -> 65285
      [] name = "FULLWIDTH AMPERSAND" -> 65286
      [] name = "FULLWIDTH APOSTROPHE" -> 65287
      [] name = "FULLWIDTH LEFT PARENTHESIS" -> 65288
      [] name = "FULLWIDTH RIGHT PARENTHESIS" -> 65289
      [] name = "FULLWIDTH ASTERISK" -> 65290
      [] name = "FULLWIDTH PLUS SIGN" -> 65291
      [] name = "FULLWIDTH COMMA" -> 65292
      [] name = "FULLWIDTH HYPHEN-MINUS" -> 65293
      [] name = "FULLWIDTH FULL STOP" -> 65294
      [] name = "FULLWIDTH SOLIDUS" -> 65295
      [] name = "FULLWIDTH DIGIT ZERO" -> 65296
      [] name = "FULLWIDTH DIGIT ONE" -> 65297
      [] name = "FULLWIDTH DIGIT TWO" -> 65298
      [] name = "FULLWIDTH DIGIT THREE" -> 65299
      [] name = "FULLWIDTH DIGIT FOUR" -> 65300
      [] name = "FULLWIDTH DIGIT FIVE" -> 65301
      [] name = "FULLWIDTH DIGIT SIX" -> 65302
      [] name = "FULLWIDTH DIGIT SEVEN" -> 65303
      [] name = "FULLWIDTH DIGIT EIGHT" -> 65304
      [] name = "FULLWIDTH DIGIT NINE" -> 65305
      [] name = "FULLWIDTH COLON" -> 65306
      [] name = "FULLWIDTH SEMICOLON" -> 65307
      [] name = "FULLWIDTH LESS-THAN SIGN" -> 65308
      [] name = "FULLWIDTH EQUALS SIGN" -> 65309
      [] name = "FULLWIDTH GREATER-THAN SIGN" -> 65310
      [] name = "FULLWIDTH QUESTION MARK" -> 65311
      [] name = "FULLWIDTH COMMERCIAL AT" -> 65312
      [] name = "FULLWIDTH LATIN CAPITAL LETTER A" -> 65313
      [] name = "FULLWIDTH LATIN CAPITAL LETTER B" -> 65314
      [] name = "FULLWIDTH LATIN CAPITAL LETTER C" -> 65315
      [] name = "FULLWIDTH LATIN CAPITAL LETTER D" -> 65316
      [] name = "FULLWIDTH LATIN CAPITAL LETTER E" -> 65317
      [] name = "FULLWIDTH LATIN CAPITAL LETTER F" -> 65318
      [] name = "FULLWIDTH LATIN CAPITAL LETTER G" -> 65319
      [] name = "FULLWIDTH LATIN CAPITAL LETTER H" -> 65320
      [] name = "FULLWIDTH LATIN CAPITAL LETTER I" -> 65321
      [] name = "FULLWIDTH LATIN CAPITAL LETTER J" -> 65322
      [] name = "FULLWIDTH LATIN CAPITAL LETTER K" -> 65323
      [] name = "FULLWIDTH LATIN CAPITAL LETTER L" -> 65324
      [] name = "FULLWIDTH LATIN CAPITAL LETTER M" -> 65325
      [] name = "FULLWIDTH LATIN CAPITAL LETTER N" -> 65326
      [] name = "FULLWIDTH LATIN CAPITAL LETTER O" -> 65327
      [] name = "FULLWIDTH LATIN CAPITAL LETTER P" -> 65328
      [] name = "FULLWIDTH LATIN CAPITAL LETTER Q" -> 65329
      [] name = "FULLWIDTH LATIN CAPITAL LETTER R" -> 65330
      [] name = "FULLWIDTH LATIN CAPITAL LETTER S" -> 65331
      [] name = "FULLWIDTH LATIN CAPITAL LETTER T" -> 65332
      [] name = "FULLWIDTH LATIN CAPITAL LETTER U" -> 65333
      [] name = "FULLWIDTH LATIN CAPITAL LETTER V" -> 65334
      [] name = "FULLWIDTH LATIN CAPITAL LETTER W" -> 65335
      [] name = "FULLWIDTH LATIN CAPITAL LETTER X" -> 65336
      [] name = "FULLWIDTH LATIN CAPITAL LETTER Y" -> 65337
      [] name = "FULLWIDTH LATIN CAPITAL LETTER Z" -> 65338
      [] name = "FULLWIDTH LEFT SQUARE BRACKET" -> 65339
      [] name = "FULLWIDTH REVERSE SOLIDUS" -> 65340
      [] name = "FULLWIDTH RIGHT SQUARE BRACKET" -> 65341
      [] name = "FULLWIDTH CIRCUMFLEX ACCENT" -> 65342
      [] name = "FULLWIDTH LOW LINE" -> 65343
      [] name = "FULLWIDTH GRAVE ACCENT" -> 65344
      [] name = "FULLWIDTH LATIN SMALL LETTER A" -> 65345
      [] name = "FULLWIDTH LATIN SMALL LETTER B" -> 65346
      [] name = "FULLWIDTH LATIN SMALL LETTER C" -> 65347
      [] name = "FULLWIDTH LATIN SMALL LETTER D" -> 65348
      [] name = "FULLWIDTH LATIN SMALL LETTER E" -> 65349
      [] name = "FULLWIDTH LATIN SMALL LETTER F" -> 65350
      [] name = "FULLWIDTH LATIN SMALL LETTER G" -> 65351
      [] name = "FULLWIDTH LATIN SMALL LETTER H" -> 65352
      [] name = "FULLWIDTH LATIN SMALL LETTER I" -> 65353
      [] name = "FULLWIDTH LATIN SMALL LETTER J" -> 65354
      [] name = "FULLWIDTH LATIN SMALL LETTER K" -> 65355
      [] name = "FULLWIDTH LATIN SMALL LETTER L" -> 65356
      [] name = "FULLWIDTH LATIN SMALL LETTER M" -> 65357
      [] name = "FULLWIDTH LATIN SMALL LETTER N" -> 65358
      [] name = "FULLWIDTH LATIN SMALL LETTER O" -> 65359
      [] name = "FULLWIDTH LATIN SMALL LETTER P" -> 65360
      [] name = "FULLWIDTH LATIN SMALL LETTER Q" -> 65361
      [] name = "FULLWIDTH LATIN SMALL LETTER R" -> 65362
      [] name = "FULLWIDTH LATIN SMALL LETTER S" -> 65363
      [] name = "FULLWIDTH LATIN SMALL LETTER T" -> 65364
      [] name = "FULLWIDTH LATIN SMALL LETTER U" -> 65365
      [] name = "FULLWIDTH LATIN SMALL LETTER V" -> 65366
      [] name = "FULLWIDTH LATIN SMALL LETTER W" -> 65367
      [] name = "FULLWIDTH LATIN SMALL LETTER X" -> 65368
      [] name = "FULLWIDTH LATIN SMALL LETTER Y" -> 65369
      [] name = "FULLWIDTH LATIN SMALL LETTER Z" -> 65370
      [] name = "FULLWIDTH LEFT CURLY BRACKET" -> 65371
      [] name = "FULLWIDTH VERTICAL LINE" -> 65372
      [] name = "FULLWIDTH RIGHT CURLY BRACKET" -> 65373
      [] name = "FULLWIDTH TILDE" -> 65374
      [] name = "FULLWIDTH LEFT WHITE PARENTHESIS" -> 65375
      [] name = "FULLWIDTH RIGHT WHITE PARENTHESIS" -> 65376
      [] name = "HALFWIDTH IDEOGRAPHIC FULL STOP" -> 65377
      [] name = "HALFWIDTH LEFT CORNER BRACKET" -> 65378
      [] name = "HALFWIDTH RIGHT CORNER BRACKET" -> 65379
      [] name = "HALFWIDTH IDEOGRAPHIC COMMA" -> 65380
      [] name = "HALFWIDTH KATAKANA MIDDLE DOT" -> 65381
      [] name = "HALFWIDTH KATAKANA LETTER WO" -> 65382
      [] name = "HALFWIDTH KATAKANA LETTER SMALL A" -> 65383
      [] name = "HALFWIDTH KATAKANA LETTER SMALL I" -> 65384
      [] name = "HALFWIDTH KATAKANA LETTER SMALL U" -> 65385
      [] name = "HALFWIDTH KATAKANA LETTER SMALL E" -> 65386
      [] name = "HALFWIDTH KATAKANA LETTER SMALL O" -> 65387
      [] name = "HALFWIDTH KATAKANA LETTER SMALL YA" -> 65388
      [] name = "HALFWIDTH KATAKANA LETTER SMALL YU" -> 65389
      [] name = "HALFWIDTH KATAKANA LETTER SMALL YO" -> 65390
      [] name = "HALFWIDTH KATAKANA LETTER SMALL TU" -> 65391
      [] name = "HALFWIDTH KATAKANA-HIRAGANA PROLONGED SOUND MARK" -> 65392
      [] name = "HALFWIDTH KATAKANA LETTER A" -> 65393
      [] name = "HALFWIDTH KATAKANA LETTER I" -> 65394
      [] name = "HALFWIDTH KATAKANA LETTER U" -> 65395
      [] name = "HALFWIDTH KATAKANA LETTER E" -> 65396
      [] name = "HALFWIDTH KATAKANA LETTER O" -> 65397
      [] name = "HALFWIDTH KATAKANA LETTER KA" -> 65398
      [] name = "HALFWIDTH KATAKANA LETTER KI" -> 65399
      [] name = "HALFWIDTH KATAKANA LETTER KU" -> 65400
      [] name = "HALFWIDTH KATAKANA LETTER KE" -> 65401
      [] name = "HALFWIDTH KATAKANA LETTER KO" -> 65402
      [] name = "HALFWIDTH KATAKANA LETTER SA" -> 65403
      [] name = "HALFWIDTH KATAKANA LETTER SI" -> 65404
      [] name = "HALFWIDTH KATAKANA LETTER SU" -> 65405
      [] name = "HALFWIDTH KATAKANA LETTER SE" -> 65406
      [] name = "HALFWIDTH KATAKANA LETTER SO" -> 65407
      [] name = "HALFWIDTH KATAKANA LETTER TA" -> 65408
      [] name = "HALFWIDTH KATAKANA LETTER TI" -> 65409
      [] name = "HALFWIDTH KATAKANA LETTER TU" -> 65410
      [] name = "HALFWIDTH KATAKANA LETTER TE" -> 65411
      [] name = "HALFWIDTH KATAKANA LETTER TO" -> 65412
      [] name = "HALFWIDTH KATAKANA LETTER NA" -> 65413
      [] name = "HALFWIDTH KATAKANA LETTER NI" -> 65414
      [] name = "HALFWIDTH KATAKANA LETTER NU" -> 65415
      [] name = "HALFWIDTH KATAKANA LETTER NE" -> 65416
      [] name = "HALFWIDTH KATAKANA LETTER NO" -> 65417
      [] name = "HALFWIDTH KATAKANA LETTER HA" -> 65418
      [] name = "HALFWIDTH KATAKANA LETTER HI" -> 65419
      [] name = "HALFWIDTH KATAKANA LETTER HU" -> 65420
      [] name = "HALFWIDTH KATAKANA LETTER HE" -> 65421
      [] name = "HALFWIDTH KATAKANA LETTER HO" -> 65422
      [] name = "HALFWIDTH KATAKANA LETTER MA" -> 65423
      [] name = "HALFWIDTH KATAKANA LETTER MI" -> 65424
      [] name = "HALFWIDTH KATAKANA LETTER MU" -> 65425
      [] name = "HALFWIDTH KATAKANA LETTER ME" -> 65426
      [] name = "HALFWIDTH KATAKANA LETTER MO" -> 65427
      [] name = "HALFWIDTH KATAKANA LETTER YA" -> 65428
      [] name = "HALFWIDTH KATAKANA LETTER YU" -> 65429
      [] name = "HALFWIDTH KATAKANA LETTER YO" -> 65430
      [] name = "HALFWIDTH KATAKANA LETTER RA" -> 65431
      [] name = "HALFWIDTH KATAKANA LETTER RI" -> 65432
      [] name = "HALFWIDTH KATAKANA LETTER RU" -> 65433
      [] name = "HALFWIDTH KATAKANA LETTER RE" -> 65434
      [] name = "HALFWIDTH KATAKANA LETTER RO" -> 65435
      [] name = "HALFWIDTH KATAKANA LETTER WA" -> 65436
      [] name = "HALFWIDTH KATAKANA LETTER N" -> 65437
      [] name = "HALFWIDTH KATAKANA VOICED SOUND MARK" -> 65438
      [] name = "HALFWIDTH KATAKANA SEMI-VOICED SOUND MARK" -> 65439
      [] name = "HALFWIDTH HANGUL FILLER" -> 65440
      [] name = "HALFWIDTH HANGUL LETTER KIYEOK" -> 65441
      [] name = "HALFWIDTH HANGUL LETTER SSANGKIYEOK" -> 65442
      [] name = "HALFWIDTH HANGUL LETTER KIYEOK-SIOS" -> 65443
      [] name = "HALFWIDTH HANGUL LETTER NIEUN" -> 65444
      [] name = "HALFWIDTH HANGUL LETTER NIEUN-CIEUC" -> 65445
      [] name = "HALFWIDTH HANGUL LETTER NIEUN-HIEUH" -> 65446
      [] name = "HALFWIDTH HANGUL LETTER TIKEUT" -> 65447
      [] name = "HALFWIDTH HANGUL LETTER SSANGTIKEUT" -> 65448
      [] name = "HALFWIDTH HANGUL LETTER RIEUL" -> 65449
      [] name = "HALFWIDTH HANGUL LETTER RIEUL-KIYEOK" -> 65450
      [] name = "HALFWIDTH HANGUL LETTER RIEUL-MIEUM" -> 65451
      [] name = "HALFWIDTH HANGUL LETTER RIEUL-PIEUP" -> 65452
      [] name = "HALFWIDTH HANGUL LETTER RIEUL-SIOS" -> 65453
      [] name = "HALFWIDTH HANGUL LETTER RIEUL-THIEUTH" -> 65454
      [] name = "HALFWIDTH HANGUL LETTER RIEUL-PHIEUPH" -> 65455
      [] name = "HALFWIDTH HANGUL LETTER RIEUL-HIEUH" -> 65456
      [] name = "HALFWIDTH HANGUL LETTER MIEUM" -> 65457
      [] name = "HALFWIDTH HANGUL LETTER PIEUP" -> 65458
      [] name = "HALFWIDTH HANGUL LETTER SSANGPIEUP" -> 65459
      [] name = "HALFWIDTH HANGUL LETTER PIEUP-SIOS" -> 65460
      [] name = "HALFWIDTH HANGUL LETTER SIOS" -> 65461
      [] name = "HALFWIDTH HANGUL LETTER SSANGSIOS" -> 65462
      [] name = "HALFWIDTH HANGUL LETTER IEUNG" -> 65463
      [] name = "HALFWIDTH HANGUL LETTER CIEUC" -> 65464
      [] name = "HALFWIDTH HANGUL LETTER SSANGCIEUC" -> 65465
      [] name = "HALFWIDTH HANGUL LETTER CHIEUCH" -> 65466
      [] name = "HALFWIDTH HANGUL LETTER KHIEUKH" -> 65467
      [] name = "HALFWIDTH HANGUL LETTER THIEUTH" -> 65468
      [] name = "HALFWIDTH HANGUL LETTER PHIEUPH" -> 65469
      [] name = "HALFWIDTH HANGUL LETTER HIEUH" -> 65470
      [] name = "HALFWIDTH HANGUL LETTER A" -> 65474
      [] name = "HALFWIDTH HANGUL LETTER AE" -> 65475
      [] name = "HALFWIDTH HANGUL LETTER YA" -> 65476
      [] name = "HALFWIDTH HANGUL LETTER YAE" -> 65477
      [] name = "HALFWIDTH HANGUL LETTER EO" -> 65478
      [] name = "HALFWIDTH HANGUL LETTER E" -> 65479
      [] name = "HALFWIDTH HANGUL LETTER YEO" -> 65482
      [] name = "HALFWIDTH HANGUL LETTER YE" -> 65483
      [] name = "HALFWIDTH HANGUL LETTER O" -> 65484
      [] name = "HALFWIDTH HANGUL LETTER WA" -> 65485
      [] name = "HALFWIDTH HANGUL LETTER WAE" -> 65486
      [] name = "HALFWIDTH HANGUL LETTER OE" -> 65487
      [] name = "HALFWIDTH HANGUL LETTER YO" -> 65490
      [] name = "HALFWIDTH HANGUL LETTER U" -> 65491
      [] name = "HALFWIDTH HANGUL LETTER WEO" -> 65492
      [] name = "HALFWIDTH HANGUL LETTER WE" -> 65493
      [] name = "HALFWIDTH HANGUL LETTER WI" -> 65494
      [] name = "HALFWIDTH HANGUL LETTER YU" -> 65495
      [] name = "HALFWIDTH HANGUL LETTER EU" -> 65498
      [] name = "HALFWIDTH HANGUL LETTER YI" -> 65499
      [] name = "HALFWIDTH HANGUL LETTER I" -> 65500
      [] name = "FULLWIDTH CENT SIGN" -> 65504
      [] name = "FULLWIDTH POUND SIGN" -> 65505
      [] name = "FULLWIDTH NOT SIGN" -> 65506
      [] name = "FULLWIDTH MACRON" -> 65507
      [] name = "FULLWIDTH BROKEN BAR" -> 65508
      [] name = "FULLWIDTH YEN SIGN" -> 65509
      [] name = "FULLWIDTH WON SIGN" -> 65510
      [] name = "HALFWIDTH FORMS LIGHT VERTICAL" -> 65512
      [] name = "HALFWIDTH LEFTWARDS ARROW" -> 65513
      [] name = "HALFWIDTH UPWARDS ARROW" -> 65514
      [] name = "HALFWIDTH RIGHTWARDS ARROW" -> 65515
      [] name = "HALFWIDTH DOWNWARDS ARROW" -> 65516
      [] name = "HALFWIDTH BLACK SQUARE" -> 65517
      [] name = "HALFWIDTH WHITE CIRCLE" -> 65518
      [] name = "INTERLINEAR ANNOTATION ANCHOR" -> 65529
      [] name = "INTERLINEAR ANNOTATION SEPARATOR" -> 65530
      [] name = "INTERLINEAR ANNOTATION TERMINATOR" -> 65531
      [] name = "OBJECT REPLACEMENT CHARACTER" -> 65532
      [] name = "REPLACEMENT CHARACTER" -> 65533
      [] name = "LINEAR B SYLLABLE B008 A" -> 65536
      [] name = "LINEAR B SYLLABLE B038 E" -> 65537
      [] name = "LINEAR B SYLLABLE B028 I" -> 65538
      [] name = "LINEAR B SYLLABLE B061 O" -> 65539
      [] name = "LINEAR B SYLLABLE B010 U" -> 65540
      [] name = "LINEAR B SYLLABLE B001 DA" -> 65541
      [] name = "LINEAR B SYLLABLE B045 DE" -> 65542
      [] name = "LINEAR B SYLLABLE B007 DI" -> 65543
      [] name = "LINEAR B SYLLABLE B014 DO" -> 65544
      [] name = "LINEAR B SYLLABLE B051 DU" -> 65545
      [] name = "LINEAR B SYLLABLE B057 JA" -> 65546
      [] name = "LINEAR B SYLLABLE B046 JE" -> 65547
      [] name = "LINEAR B SYLLABLE B036 JO" -> 65549
      [] name = "LINEAR B SYLLABLE B065 JU" -> 65550
      [] name = "LINEAR B SYLLABLE B077 KA" -> 65551
      [] name = "LINEAR B SYLLABLE B044 KE" -> 65552
      [] name = "LINEAR B SYLLABLE B067 KI" -> 65553
      [] name = "LINEAR B SYLLABLE B070 KO" -> 65554
      [] name = "LINEAR B SYLLABLE B081 KU" -> 65555
      [] name = "LINEAR B SYLLABLE B080 MA" -> 65556
      [] name = "LINEAR B SYLLABLE B013 ME" -> 65557
      [] name = "LINEAR B SYLLABLE B073 MI" -> 65558
      [] name = "LINEAR B SYLLABLE B015 MO" -> 65559
      [] name = "LINEAR B SYLLABLE B023 MU" -> 65560
      [] name = "LINEAR B SYLLABLE B006 NA" -> 65561
      [] name = "LINEAR B SYLLABLE B024 NE" -> 65562
      [] name = "LINEAR B SYLLABLE B030 NI" -> 65563
      [] name = "LINEAR B SYLLABLE B052 NO" -> 65564
      [] name = "LINEAR B SYLLABLE B055 NU" -> 65565
      [] name = "LINEAR B SYLLABLE B003 PA" -> 65566
      [] name = "LINEAR B SYLLABLE B072 PE" -> 65567
      [] name = "LINEAR B SYLLABLE B039 PI" -> 65568
      [] name = "LINEAR B SYLLABLE B011 PO" -> 65569
      [] name = "LINEAR B SYLLABLE B050 PU" -> 65570
      [] name = "LINEAR B SYLLABLE B016 QA" -> 65571
      [] name = "LINEAR B SYLLABLE B078 QE" -> 65572
      [] name = "LINEAR B SYLLABLE B021 QI" -> 65573
      [] name = "LINEAR B SYLLABLE B032 QO" -> 65574
      [] name = "LINEAR B SYLLABLE B060 RA" -> 65576
      [] name = "LINEAR B SYLLABLE B027 RE" -> 65577
      [] name = "LINEAR B SYLLABLE B053 RI" -> 65578
      [] name = "LINEAR B SYLLABLE B002 RO" -> 65579
      [] name = "LINEAR B SYLLABLE B026 RU" -> 65580
      [] name = "LINEAR B SYLLABLE B031 SA" -> 65581
      [] name = "LINEAR B SYLLABLE B009 SE" -> 65582
      [] name = "LINEAR B SYLLABLE B041 SI" -> 65583
      [] name = "LINEAR B SYLLABLE B012 SO" -> 65584
      [] name = "LINEAR B SYLLABLE B058 SU" -> 65585
      [] name = "LINEAR B SYLLABLE B059 TA" -> 65586
      [] name = "LINEAR B SYLLABLE B004 TE" -> 65587
      [] name = "LINEAR B SYLLABLE B037 TI" -> 65588
      [] name = "LINEAR B SYLLABLE B005 TO" -> 65589
      [] name = "LINEAR B SYLLABLE B069 TU" -> 65590
      [] name = "LINEAR B SYLLABLE B054 WA" -> 65591
      [] name = "LINEAR B SYLLABLE B075 WE" -> 65592
      [] name = "LINEAR B SYLLABLE B040 WI" -> 65593
      [] name = "LINEAR B SYLLABLE B042 WO" -> 65594
      [] name = "LINEAR B SYLLABLE B017 ZA" -> 65596
      [] name = "LINEAR B SYLLABLE B074 ZE" -> 65597
      [] name = "LINEAR B SYLLABLE B020 ZO" -> 65599
      [] name = "LINEAR B SYLLABLE B025 A2" -> 65600
      [] name = "LINEAR B SYLLABLE B043 A3" -> 65601
      [] name = "LINEAR B SYLLABLE B085 AU" -> 65602
      [] name = "LINEAR B SYLLABLE B071 DWE" -> 65603
      [] name = "LINEAR B SYLLABLE B090 DWO" -> 65604
      [] name = "LINEAR B SYLLABLE B048 NWA" -> 65605
      [] name = "LINEAR B SYLLABLE B029 PU2" -> 65606
      [] name = "LINEAR B SYLLABLE B062 PTE" -> 65607
      [] name = "LINEAR B SYLLABLE B076 RA2" -> 65608
      [] name = "LINEAR B SYLLABLE B033 RA3" -> 65609
      [] name = "LINEAR B SYLLABLE B068 RO2" -> 65610
      [] name = "LINEAR B SYLLABLE B066 TA2" -> 65611
      [] name = "LINEAR B SYLLABLE B087 TWE" -> 65612
      [] name = "LINEAR B SYLLABLE B091 TWO" -> 65613
      [] name = "LINEAR B SYMBOL B018" -> 65616
      [] name = "LINEAR B SYMBOL B019" -> 65617
      [] name = "LINEAR B SYMBOL B022" -> 65618
      [] name = "LINEAR B SYMBOL B034" -> 65619
      [] name = "LINEAR B SYMBOL B047" -> 65620
      [] name = "LINEAR B SYMBOL B049" -> 65621
      [] name = "LINEAR B SYMBOL B056" -> 65622
      [] name = "LINEAR B SYMBOL B063" -> 65623
      [] name = "LINEAR B SYMBOL B064" -> 65624
      [] name = "LINEAR B SYMBOL B079" -> 65625
      [] name = "LINEAR B SYMBOL B082" -> 65626
      [] name = "LINEAR B SYMBOL B083" -> 65627
      [] name = "LINEAR B SYMBOL B086" -> 65628
      [] name = "LINEAR B SYMBOL B089" -> 65629
      [] name = "LINEAR B IDEOGRAM B100 MAN" -> 65664
      [] name = "LINEAR B IDEOGRAM B102 WOMAN" -> 65665
      [] name = "LINEAR B IDEOGRAM B104 DEER" -> 65666
      [] name = "LINEAR B IDEOGRAM B105 EQUID" -> 65667
      [] name = "LINEAR B IDEOGRAM B105F MARE" -> 65668
      [] name = "LINEAR B IDEOGRAM B105M STALLION" -> 65669
      [] name = "LINEAR B IDEOGRAM B106F EWE" -> 65670
      [] name = "LINEAR B IDEOGRAM B106M RAM" -> 65671
      [] name = "LINEAR B IDEOGRAM B107F SHE-GOAT" -> 65672
      [] name = "LINEAR B IDEOGRAM B107M HE-GOAT" -> 65673
      [] name = "LINEAR B IDEOGRAM B108F SOW" -> 65674
      [] name = "LINEAR B IDEOGRAM B108M BOAR" -> 65675
      [] name = "LINEAR B IDEOGRAM B109F COW" -> 65676
      [] name = "LINEAR B IDEOGRAM B109M BULL" -> 65677
      [] name = "LINEAR B IDEOGRAM B120 WHEAT" -> 65678
      [] name = "LINEAR B IDEOGRAM B121 BARLEY" -> 65679
      [] name = "LINEAR B IDEOGRAM B122 OLIVE" -> 65680
      [] name = "LINEAR B IDEOGRAM B123 SPICE" -> 65681
      [] name = "LINEAR B IDEOGRAM B125 CYPERUS" -> 65682
      [] name = "LINEAR B MONOGRAM B127 KAPO" -> 65683
      [] name = "LINEAR B MONOGRAM B128 KANAKO" -> 65684
      [] name = "LINEAR B IDEOGRAM B130 OIL" -> 65685
      [] name = "LINEAR B IDEOGRAM B131 WINE" -> 65686
      [] name = "LINEAR B IDEOGRAM B132" -> 65687
      [] name = "LINEAR B MONOGRAM B133 AREPA" -> 65688
      [] name = "LINEAR B MONOGRAM B135 MERI" -> 65689
      [] name = "LINEAR B IDEOGRAM B140 BRONZE" -> 65690
      [] name = "LINEAR B IDEOGRAM B141 GOLD" -> 65691
      [] name = "LINEAR B IDEOGRAM B142" -> 65692
      [] name = "LINEAR B IDEOGRAM B145 WOOL" -> 65693
      [] name = "LINEAR B IDEOGRAM B146" -> 65694
      [] name = "LINEAR B IDEOGRAM B150" -> 65695
      [] name = "LINEAR B IDEOGRAM B151 HORN" -> 65696
      [] name = "LINEAR B IDEOGRAM B152" -> 65697
      [] name = "LINEAR B IDEOGRAM B153" -> 65698
      [] name = "LINEAR B IDEOGRAM B154" -> 65699
      [] name = "LINEAR B MONOGRAM B156 TURO2" -> 65700
      [] name = "LINEAR B IDEOGRAM B157" -> 65701
      [] name = "LINEAR B IDEOGRAM B158" -> 65702
      [] name = "LINEAR B IDEOGRAM B159 CLOTH" -> 65703
      [] name = "LINEAR B IDEOGRAM B160" -> 65704
      [] name = "LINEAR B IDEOGRAM B161" -> 65705
      [] name = "LINEAR B IDEOGRAM B162 GARMENT" -> 65706
      [] name = "LINEAR B IDEOGRAM B163 ARMOUR" -> 65707
      [] name = "LINEAR B IDEOGRAM B164" -> 65708
      [] name = "LINEAR B IDEOGRAM B165" -> 65709
      [] name = "LINEAR B IDEOGRAM B166" -> 65710
      [] name = "LINEAR B IDEOGRAM B167" -> 65711
      [] name = "LINEAR B IDEOGRAM B168" -> 65712
      [] name = "LINEAR B IDEOGRAM B169" -> 65713
      [] name = "LINEAR B IDEOGRAM B170" -> 65714
      [] name = "LINEAR B IDEOGRAM B171" -> 65715
      [] name = "LINEAR B IDEOGRAM B172" -> 65716
      [] name = "LINEAR B IDEOGRAM B173 MONTH" -> 65717
      [] name = "LINEAR B IDEOGRAM B174" -> 65718
      [] name = "LINEAR B IDEOGRAM B176 TREE" -> 65719
      [] name = "LINEAR B IDEOGRAM B177" -> 65720
      [] name = "LINEAR B IDEOGRAM B178" -> 65721
      [] name = "LINEAR B IDEOGRAM B179" -> 65722
      [] name = "LINEAR B IDEOGRAM B180" -> 65723
      [] name = "LINEAR B IDEOGRAM B181" -> 65724
      [] name = "LINEAR B IDEOGRAM B182" -> 65725
      [] name = "LINEAR B IDEOGRAM B183" -> 65726
      [] name = "LINEAR B IDEOGRAM B184" -> 65727
      [] name = "LINEAR B IDEOGRAM B185" -> 65728
      [] name = "LINEAR B IDEOGRAM B189" -> 65729
      [] name = "LINEAR B IDEOGRAM B190" -> 65730
      [] name = "LINEAR B IDEOGRAM B191 HELMET" -> 65731
      [] name = "LINEAR B IDEOGRAM B220 FOOTSTOOL" -> 65732
      [] name = "LINEAR B IDEOGRAM B225 BATHTUB" -> 65733
      [] name = "LINEAR B IDEOGRAM B230 SPEAR" -> 65734
      [] name = "LINEAR B IDEOGRAM B231 ARROW" -> 65735
      [] name = "LINEAR B IDEOGRAM B232" -> 65736
      [] name = "LINEAR B IDEOGRAM B233 SWORD" -> 65737
      [] name = "LINEAR B IDEOGRAM B234" -> 65738
      [] name = "LINEAR B IDEOGRAM B236" -> 65739
      [] name = "LINEAR B IDEOGRAM B240 WHEELED CHARIOT" -> 65740
      [] name = "LINEAR B IDEOGRAM B241 CHARIOT" -> 65741
      [] name = "LINEAR B IDEOGRAM B242 CHARIOT FRAME" -> 65742
      [] name = "LINEAR B IDEOGRAM B243 WHEEL" -> 65743
      [] name = "LINEAR B IDEOGRAM B245" -> 65744
      [] name = "LINEAR B IDEOGRAM B246" -> 65745
      [] name = "LINEAR B MONOGRAM B247 DIPTE" -> 65746
      [] name = "LINEAR B IDEOGRAM B248" -> 65747
      [] name = "LINEAR B IDEOGRAM B249" -> 65748
      [] name = "LINEAR B IDEOGRAM B251" -> 65749
      [] name = "LINEAR B IDEOGRAM B252" -> 65750
      [] name = "LINEAR B IDEOGRAM B253" -> 65751
      [] name = "LINEAR B IDEOGRAM B254 DART" -> 65752
      [] name = "LINEAR B IDEOGRAM B255" -> 65753
      [] name = "LINEAR B IDEOGRAM B256" -> 65754
      [] name = "LINEAR B IDEOGRAM B257" -> 65755
      [] name = "LINEAR B IDEOGRAM B258" -> 65756
      [] name = "LINEAR B IDEOGRAM B259" -> 65757
      [] name = "LINEAR B IDEOGRAM VESSEL B155" -> 65758
      [] name = "LINEAR B IDEOGRAM VESSEL B200" -> 65759
      [] name = "LINEAR B IDEOGRAM VESSEL B201" -> 65760
      [] name = "LINEAR B IDEOGRAM VESSEL B202" -> 65761
      [] name = "LINEAR B IDEOGRAM VESSEL B203" -> 65762
      [] name = "LINEAR B IDEOGRAM VESSEL B204" -> 65763
      [] name = "LINEAR B IDEOGRAM VESSEL B205" -> 65764
      [] name = "LINEAR B IDEOGRAM VESSEL B206" -> 65765
      [] name = "LINEAR B IDEOGRAM VESSEL B207" -> 65766
      [] name = "LINEAR B IDEOGRAM VESSEL B208" -> 65767
      [] name = "LINEAR B IDEOGRAM VESSEL B209" -> 65768
      [] name = "LINEAR B IDEOGRAM VESSEL B210" -> 65769
      [] name = "LINEAR B IDEOGRAM VESSEL B211" -> 65770
      [] name = "LINEAR B IDEOGRAM VESSEL B212" -> 65771
      [] name = "LINEAR B IDEOGRAM VESSEL B213" -> 65772
      [] name = "LINEAR B IDEOGRAM VESSEL B214" -> 65773
      [] name = "LINEAR B IDEOGRAM VESSEL B215" -> 65774
      [] name = "LINEAR B IDEOGRAM VESSEL B216" -> 65775
      [] name = "LINEAR B IDEOGRAM VESSEL B217" -> 65776
      [] name = "LINEAR B IDEOGRAM VESSEL B218" -> 65777
      [] name = "LINEAR B IDEOGRAM VESSEL B219" -> 65778
      [] name = "LINEAR B IDEOGRAM VESSEL B221" -> 65779
      [] name = "LINEAR B IDEOGRAM VESSEL B222" -> 65780
      [] name = "LINEAR B IDEOGRAM VESSEL B226" -> 65781
      [] name = "LINEAR B IDEOGRAM VESSEL B227" -> 65782
      [] name = "LINEAR B IDEOGRAM VESSEL B228" -> 65783
      [] name = "LINEAR B IDEOGRAM VESSEL B229" -> 65784
      [] name = "LINEAR B IDEOGRAM VESSEL B250" -> 65785
      [] name = "LINEAR B IDEOGRAM VESSEL B305" -> 65786
      [] name = "AEGEAN WORD SEPARATOR LINE" -> 65792
      [] name = "AEGEAN WORD SEPARATOR DOT" -> 65793
      [] name = "AEGEAN CHECK MARK" -> 65794
      [] name = "AEGEAN NUMBER ONE" -> 65799
      [] name = "AEGEAN NUMBER TWO" -> 65800
      [] name = "AEGEAN NUMBER THREE" -> 65801
      [] name = "AEGEAN NUMBER FOUR" -> 65802
      [] name = "AEGEAN NUMBER FIVE" -> 65803
      [] name = "AEGEAN NUMBER SIX" -> 65804
      [] name = "AEGEAN NUMBER SEVEN" -> 65805
      [] name = "AEGEAN NUMBER EIGHT" -> 65806
      [] name = "AEGEAN NUMBER NINE" -> 65807
      [] name = "AEGEAN NUMBER TEN" -> 65808
      [] name = "AEGEAN NUMBER TWENTY" -> 65809
      [] name = "AEGEAN NUMBER THIRTY" -> 65810
      [] name = "AEGEAN NUMBER FORTY" -> 65811
      [] name = "AEGEAN NUMBER FIFTY" -> 65812
      [] name = "AEGEAN NUMBER SIXTY" -> 65813
      [] name = "AEGEAN NUMBER SEVENTY" -> 65814
      [] name = "AEGEAN NUMBER EIGHTY" -> 65815
      [] name = "AEGEAN NUMBER NINETY" -> 65816
      [] name = "AEGEAN NUMBER ONE HUNDRED" -> 65817
      [] name = "AEGEAN NUMBER TWO HUNDRED" -> 65818
      [] name = "AEGEAN NUMBER THREE HUNDRED" -> 65819
      [] name = "AEGEAN NUMBER FOUR HUNDRED" -> 65820
      [] name = "AEGEAN NUMBER FIVE HUNDRED" -> 65821
      [] name = "AEGEAN NUMBER SIX HUNDRED" -> 65822
      [] name = "AEGEAN NUMBER SEVEN HUNDRED" -> 65823
      [] name = "AEGEAN NUMBER EIGHT HUNDRED" -> 65824
      [] name = "AEGEAN NUMBER NINE HUNDRED" -> 65825
      [] name = "AEGEAN NUMBER ONE THOUSAND" -> 65826
      [] name = "AEGEAN NUMBER TWO THOUSAND" -> 65827
      [] name = "AEGEAN NUMBER THREE THOUSAND" -> 65828
      [] name = "AEGEAN NUMBER FOUR THOUSAND" -> 65829
      [] name = "AEGEAN NUMBER FIVE THOUSAND" -> 65830
      [] name = "AEGEAN NUMBER SIX THOUSAND" -> 65831
      [] name = "AEGEAN NUMBER SEVEN THOUSAND" -> 65832
      [] name = "AEGEAN NUMBER EIGHT THOUSAND" -> 65833
      [] name = "AEGEAN NUMBER NINE THOUSAND" -> 65834
      [] name = "AEGEAN NUMBER TEN THOUSAND" -> 65835
      [] name = "AEGEAN NUMBER TWENTY THOUSAND" -> 65836
      [] name = "AEGEAN NUMBER THIRTY THOUSAND" -> 65837
      [] name = "AEGEAN NUMBER FORTY THOUSAND" -> 65838
      [] name = "AEGEAN NUMBER FIFTY THOUSAND" -> 65839
      [] name = "AEGEAN NUMBER SIXTY THOUSAND" -> 65840
      [] name = "AEGEAN NUMBER SEVENTY THOUSAND" -> 65841
      [] name = "AEGEAN NUMBER EIGHTY THOUSAND" -> 65842
      [] name = "AEGEAN NUMBER NINETY THOUSAND" -> 65843
      [] name = "AEGEAN WEIGHT BASE UNIT" -> 65847
      [] name = "AEGEAN WEIGHT FIRST SUBUNIT" -> 65848
      [] name = "AEGEAN WEIGHT SECOND SUBUNIT" -> 65849
      [] name = "AEGEAN WEIGHT THIRD SUBUNIT" -> 65850
      [] name = "AEGEAN WEIGHT FOURTH SUBUNIT" -> 65851
      [] name = "AEGEAN DRY MEASURE FIRST SUBUNIT" -> 65852
      [] name = "AEGEAN LIQUID MEASURE FIRST SUBUNIT" -> 65853
      [] name = "AEGEAN MEASURE SECOND SUBUNIT" -> 65854
      [] name = "AEGEAN MEASURE THIRD SUBUNIT" -> 65855
      [] name = "GREEK ACROPHONIC ATTIC ONE QUARTER" -> 65856
      [] name = "GREEK ACROPHONIC ATTIC ONE HALF" -> 65857
      [] name = "GREEK ACROPHONIC ATTIC ONE DRACHMA" -> 65858
      [] name = "GREEK ACROPHONIC ATTIC FIVE" -> 65859
      [] name = "GREEK ACROPHONIC ATTIC FIFTY" -> 65860
      [] name = "GREEK ACROPHONIC ATTIC FIVE HUNDRED" -> 65861
      [] name = "GREEK ACROPHONIC ATTIC FIVE THOUSAND" -> 65862
      [] name = "GREEK ACROPHONIC ATTIC FIFTY THOUSAND" -> 65863
      [] name = "GREEK ACROPHONIC ATTIC FIVE TALENTS" -> 65864
      [] name = "GREEK ACROPHONIC ATTIC TEN TALENTS" -> 65865
      [] name = "GREEK ACROPHONIC ATTIC FIFTY TALENTS" -> 65866
      [] name = "GREEK ACROPHONIC ATTIC ONE HUNDRED TALENTS" -> 65867
      [] name = "GREEK ACROPHONIC ATTIC FIVE HUNDRED TALENTS" -> 65868
      [] name = "GREEK ACROPHONIC ATTIC ONE THOUSAND TALENTS" -> 65869
      [] name = "GREEK ACROPHONIC ATTIC FIVE THOUSAND TALENTS" -> 65870
      [] name = "GREEK ACROPHONIC ATTIC FIVE STATERS" -> 65871
      [] name = "GREEK ACROPHONIC ATTIC TEN STATERS" -> 65872
      [] name = "GREEK ACROPHONIC ATTIC FIFTY STATERS" -> 65873
      [] name = "GREEK ACROPHONIC ATTIC ONE HUNDRED STATERS" -> 65874
      [] name = "GREEK ACROPHONIC ATTIC FIVE HUNDRED STATERS" -> 65875
      [] name = "GREEK ACROPHONIC ATTIC ONE THOUSAND STATERS" -> 65876
      [] name = "GREEK ACROPHONIC ATTIC TEN THOUSAND STATERS" -> 65877
      [] name = "GREEK ACROPHONIC ATTIC FIFTY THOUSAND STATERS" -> 65878
      [] name = "GREEK ACROPHONIC ATTIC TEN MNAS" -> 65879
      [] name = "GREEK ACROPHONIC HERAEUM ONE PLETHRON" -> 65880
      [] name = "GREEK ACROPHONIC THESPIAN ONE" -> 65881
      [] name = "GREEK ACROPHONIC HERMIONIAN ONE" -> 65882
      [] name = "GREEK ACROPHONIC EPIDAUREAN TWO" -> 65883
      [] name = "GREEK ACROPHONIC THESPIAN TWO" -> 65884
      [] name = "GREEK ACROPHONIC CYRENAIC TWO DRACHMAS" -> 65885
      [] name = "GREEK ACROPHONIC EPIDAUREAN TWO DRACHMAS" -> 65886
      [] name = "GREEK ACROPHONIC TROEZENIAN FIVE" -> 65887
      [] name = "GREEK ACROPHONIC TROEZENIAN TEN" -> 65888
      [] name = "GREEK ACROPHONIC TROEZENIAN TEN ALTERNATE FORM" -> 65889
      [] name = "GREEK ACROPHONIC HERMIONIAN TEN" -> 65890
      [] name = "GREEK ACROPHONIC MESSENIAN TEN" -> 65891
      [] name = "GREEK ACROPHONIC THESPIAN TEN" -> 65892
      [] name = "GREEK ACROPHONIC THESPIAN THIRTY" -> 65893
      [] name = "GREEK ACROPHONIC TROEZENIAN FIFTY" -> 65894
      [] name = "GREEK ACROPHONIC TROEZENIAN FIFTY ALTERNATE FORM" -> 65895
      [] name = "GREEK ACROPHONIC HERMIONIAN FIFTY" -> 65896
      [] name = "GREEK ACROPHONIC THESPIAN FIFTY" -> 65897
      [] name = "GREEK ACROPHONIC THESPIAN ONE HUNDRED" -> 65898
      [] name = "GREEK ACROPHONIC THESPIAN THREE HUNDRED" -> 65899
      [] name = "GREEK ACROPHONIC EPIDAUREAN FIVE HUNDRED" -> 65900
      [] name = "GREEK ACROPHONIC TROEZENIAN FIVE HUNDRED" -> 65901
      [] name = "GREEK ACROPHONIC THESPIAN FIVE HUNDRED" -> 65902
      [] name = "GREEK ACROPHONIC CARYSTIAN FIVE HUNDRED" -> 65903
      [] name = "GREEK ACROPHONIC NAXIAN FIVE HUNDRED" -> 65904
      [] name = "GREEK ACROPHONIC THESPIAN ONE THOUSAND" -> 65905
      [] name = "GREEK ACROPHONIC THESPIAN FIVE THOUSAND" -> 65906
      [] name = "GREEK ACROPHONIC DELPHIC FIVE MNAS" -> 65907
      [] name = "GREEK ACROPHONIC STRATIAN FIFTY MNAS" -> 65908
      [] name = "GREEK ONE HALF SIGN" -> 65909
      [] name = "GREEK ONE HALF SIGN ALTERNATE FORM" -> 65910
      [] name = "GREEK TWO THIRDS SIGN" -> 65911
      [] name = "GREEK THREE QUARTERS SIGN" -> 65912
      [] name = "GREEK YEAR SIGN" -> 65913
      [] name = "GREEK TALENT SIGN" -> 65914
      [] name = "GREEK DRACHMA SIGN" -> 65915
      [] name = "GREEK OBOL SIGN" -> 65916
      [] name = "GREEK TWO OBOLS SIGN" -> 65917
      [] name = "GREEK THREE OBOLS SIGN" -> 65918
      [] name = "GREEK FOUR OBOLS SIGN" -> 65919
      [] name = "GREEK FIVE OBOLS SIGN" -> 65920
      [] name = "GREEK METRETES SIGN" -> 65921
      [] name = "GREEK KYATHOS BASE SIGN" -> 65922
      [] name = "GREEK LITRA SIGN" -> 65923
      [] name = "GREEK OUNKIA SIGN" -> 65924
      [] name = "GREEK XESTES SIGN" -> 65925
      [] name = "GREEK ARTABE SIGN" -> 65926
      [] name = "GREEK AROURA SIGN" -> 65927
      [] name = "GREEK GRAMMA SIGN" -> 65928
      [] name = "GREEK TRYBLION BASE SIGN" -> 65929
      [] name = "GREEK ZERO SIGN" -> 65930
      [] name = "GREEK ONE QUARTER SIGN" -> 65931
      [] name = "GREEK SINUSOID SIGN" -> 65932
      [] name = "GREEK INDICTION SIGN" -> 65933
      [] name = "NOMISMA SIGN" -> 65934
      [] name = "ROMAN SEXTANS SIGN" -> 65936
      [] name = "ROMAN UNCIA SIGN" -> 65937
      [] name = "ROMAN SEMUNCIA SIGN" -> 65938
      [] name = "ROMAN SEXTULA SIGN" -> 65939
      [] name = "ROMAN DIMIDIA SEXTULA SIGN" -> 65940
      [] name = "ROMAN SILIQUA SIGN" -> 65941
      [] name = "ROMAN DENARIUS SIGN" -> 65942
      [] name = "ROMAN QUINARIUS SIGN" -> 65943
      [] name = "ROMAN SESTERTIUS SIGN" -> 65944
      [] name = "ROMAN DUPONDIUS SIGN" -> 65945
      [] name = "ROMAN AS SIGN" -> 65946
      [] name = "ROMAN CENTURIAL SIGN" -> 65947
      [] name = "ASCIA SYMBOL" -> 65948
      [] name = "GREEK SYMBOL TAU RHO" -> 65952
      [] name = "PHAISTOS DISC SIGN PEDESTRIAN" -> 66000
      [] name = "PHAISTOS DISC SIGN PLUMED HEAD" -> 66001
      [] name = "PHAISTOS DISC SIGN TATTOOED HEAD" -> 66002
      [] name = "PHAISTOS DISC SIGN CAPTIVE" -> 66003
      [] name = "PHAISTOS DISC SIGN CHILD" -> 66004
      [] name = "PHAISTOS DISC SIGN WOMAN" -> 66005
      [] name = "PHAISTOS DISC SIGN HELMET" -> 66006
      [] name = "PHAISTOS DISC SIGN GAUNTLET" -> 66007
      [] name = "PHAISTOS DISC SIGN TIARA" -> 66008
      [] name = "PHAISTOS DISC SIGN ARROW" -> 66009
      [] name = "PHAISTOS DISC SIGN BOW" -> 66010
      [] name = "PHAISTOS DISC SIGN SHIELD" -> 66011
      [] name = "PHAISTOS DISC SIGN CLUB" -> 66012
      [] name = "PHAISTOS DISC SIGN MANACLES" -> 66013
      [] name = "PHAISTOS DISC SIGN MATTOCK" -> 66014
      [] name = "PHAISTOS DISC SIGN SAW" -> 66015
      [] name = "PHAISTOS DISC SIGN LID" -> 66016
      [] name = "PHAISTOS DISC SIGN BOOMERANG" -> 66017
      [] name = "PHAISTOS DISC SIGN CARPENTRY PLANE" -> 66018
      [] name = "PHAISTOS DISC SIGN DOLIUM" -> 66019
      [] name = "PHAISTOS DISC SIGN COMB" -> 66020
      [] name = "PHAISTOS DISC SIGN SLING" -> 66021
      [] name = "PHAISTOS DISC SIGN COLUMN" -> 66022
      [] name = "PHAISTOS DISC SIGN BEEHIVE" -> 66023
      [] name = "PHAISTOS DISC SIGN SHIP" -> 66024
      [] name = "PHAISTOS DISC SIGN HORN" -> 66025
      [] name = "PHAISTOS DISC SIGN HIDE" -> 66026
      [] name = "PHAISTOS DISC SIGN BULLS LEG" -> 66027
      [] name = "PHAISTOS DISC SIGN CAT" -> 66028
      [] name = "PHAISTOS DISC SIGN RAM" -> 66029
      [] name = "PHAISTOS DISC SIGN EAGLE" -> 66030
      [] name = "PHAISTOS DISC SIGN DOVE" -> 66031
      [] name = "PHAISTOS DISC SIGN TUNNY" -> 66032
      [] name = "PHAISTOS DISC SIGN BEE" -> 66033
      [] name = "PHAISTOS DISC SIGN PLANE TREE" -> 66034
      [] name = "PHAISTOS DISC SIGN VINE" -> 66035
      [] name = "PHAISTOS DISC SIGN PAPYRUS" -> 66036
      [] name = "PHAISTOS DISC SIGN ROSETTE" -> 66037
      [] name = "PHAISTOS DISC SIGN LILY" -> 66038
      [] name = "PHAISTOS DISC SIGN OX BACK" -> 66039
      [] name = "PHAISTOS DISC SIGN FLUTE" -> 66040
      [] name = "PHAISTOS DISC SIGN GRATER" -> 66041
      [] name = "PHAISTOS DISC SIGN STRAINER" -> 66042
      [] name = "PHAISTOS DISC SIGN SMALL AXE" -> 66043
      [] name = "PHAISTOS DISC SIGN WAVY BAND" -> 66044
      [] name = "PHAISTOS DISC SIGN COMBINING OBLIQUE STROKE" -> 66045
      [] name = "LYCIAN LETTER A" -> 66176
      [] name = "LYCIAN LETTER E" -> 66177
      [] name = "LYCIAN LETTER B" -> 66178
      [] name = "LYCIAN LETTER BH" -> 66179
      [] name = "LYCIAN LETTER G" -> 66180
      [] name = "LYCIAN LETTER D" -> 66181
      [] name = "LYCIAN LETTER I" -> 66182
      [] name = "LYCIAN LETTER W" -> 66183
      [] name = "LYCIAN LETTER Z" -> 66184
      [] name = "LYCIAN LETTER TH" -> 66185
      [] name = "LYCIAN LETTER J" -> 66186
      [] name = "LYCIAN LETTER K" -> 66187
      [] name = "LYCIAN LETTER Q" -> 66188
      [] name = "LYCIAN LETTER L" -> 66189
      [] name = "LYCIAN LETTER M" -> 66190
      [] name = "LYCIAN LETTER N" -> 66191
      [] name = "LYCIAN LETTER MM" -> 66192
      [] name = "LYCIAN LETTER NN" -> 66193
      [] name = "LYCIAN LETTER U" -> 66194
      [] name = "LYCIAN LETTER P" -> 66195
      [] name = "LYCIAN LETTER KK" -> 66196
      [] name = "LYCIAN LETTER R" -> 66197
      [] name = "LYCIAN LETTER S" -> 66198
      [] name = "LYCIAN LETTER T" -> 66199
      [] name = "LYCIAN LETTER TT" -> 66200
      [] name = "LYCIAN LETTER AN" -> 66201
      [] name = "LYCIAN LETTER EN" -> 66202
      [] name = "LYCIAN LETTER H" -> 66203
      [] name = "LYCIAN LETTER X" -> 66204
      [] name = "CARIAN LETTER A" -> 66208
      [] name = "CARIAN LETTER P2" -> 66209
      [] name = "CARIAN LETTER D" -> 66210
      [] name = "CARIAN LETTER L" -> 66211
      [] name = "CARIAN LETTER UUU" -> 66212
      [] name = "CARIAN LETTER R" -> 66213
      [] name = "CARIAN LETTER LD" -> 66214
      [] name = "CARIAN LETTER A2" -> 66215
      [] name = "CARIAN LETTER Q" -> 66216
      [] name = "CARIAN LETTER B" -> 66217
      [] name = "CARIAN LETTER M" -> 66218
      [] name = "CARIAN LETTER O" -> 66219
      [] name = "CARIAN LETTER D2" -> 66220
      [] name = "CARIAN LETTER T" -> 66221
      [] name = "CARIAN LETTER SH" -> 66222
      [] name = "CARIAN LETTER SH2" -> 66223
      [] name = "CARIAN LETTER S" -> 66224
      [] name = "CARIAN LETTER C-18" -> 66225
      [] name = "CARIAN LETTER U" -> 66226
      [] name = "CARIAN LETTER NN" -> 66227
      [] name = "CARIAN LETTER X" -> 66228
      [] name = "CARIAN LETTER N" -> 66229
      [] name = "CARIAN LETTER TT2" -> 66230
      [] name = "CARIAN LETTER P" -> 66231
      [] name = "CARIAN LETTER SS" -> 66232
      [] name = "CARIAN LETTER I" -> 66233
      [] name = "CARIAN LETTER E" -> 66234
      [] name = "CARIAN LETTER UUUU" -> 66235
      [] name = "CARIAN LETTER K" -> 66236
      [] name = "CARIAN LETTER K2" -> 66237
      [] name = "CARIAN LETTER ND" -> 66238
      [] name = "CARIAN LETTER UU" -> 66239
      [] name = "CARIAN LETTER G" -> 66240
      [] name = "CARIAN LETTER G2" -> 66241
      [] name = "CARIAN LETTER ST" -> 66242
      [] name = "CARIAN LETTER ST2" -> 66243
      [] name = "CARIAN LETTER NG" -> 66244
      [] name = "CARIAN LETTER II" -> 66245
      [] name = "CARIAN LETTER C-39" -> 66246
      [] name = "CARIAN LETTER TT" -> 66247
      [] name = "CARIAN LETTER UUU2" -> 66248
      [] name = "CARIAN LETTER RR" -> 66249
      [] name = "CARIAN LETTER MB" -> 66250
      [] name = "CARIAN LETTER MB2" -> 66251
      [] name = "CARIAN LETTER MB3" -> 66252
      [] name = "CARIAN LETTER MB4" -> 66253
      [] name = "CARIAN LETTER LD2" -> 66254
      [] name = "CARIAN LETTER E2" -> 66255
      [] name = "CARIAN LETTER UUU3" -> 66256
      [] name = "COPTIC EPACT THOUSANDS MARK" -> 66272
      [] name = "COPTIC EPACT DIGIT ONE" -> 66273
      [] name = "COPTIC EPACT DIGIT TWO" -> 66274
      [] name = "COPTIC EPACT DIGIT THREE" -> 66275
      [] name = "COPTIC EPACT DIGIT FOUR" -> 66276
      [] name = "COPTIC EPACT DIGIT FIVE" -> 66277
      [] name = "COPTIC EPACT DIGIT SIX" -> 66278
      [] name = "COPTIC EPACT DIGIT SEVEN" -> 66279
      [] name = "COPTIC EPACT DIGIT EIGHT" -> 66280
      [] name = "COPTIC EPACT DIGIT NINE" -> 66281
      [] name = "COPTIC EPACT NUMBER TEN" -> 66282
      [] name = "COPTIC EPACT NUMBER TWENTY" -> 66283
      [] name = "COPTIC EPACT NUMBER THIRTY" -> 66284
      [] name = "COPTIC EPACT NUMBER FORTY" -> 66285
      [] name = "COPTIC EPACT NUMBER FIFTY" -> 66286
      [] name = "COPTIC EPACT NUMBER SIXTY" -> 66287
      [] name = "COPTIC EPACT NUMBER SEVENTY" -> 66288
      [] name = "COPTIC EPACT NUMBER EIGHTY" -> 66289
      [] name = "COPTIC EPACT NUMBER NINETY" -> 66290
      [] name = "COPTIC EPACT NUMBER ONE HUNDRED" -> 66291
      [] name = "COPTIC EPACT NUMBER TWO HUNDRED" -> 66292
      [] name = "COPTIC EPACT NUMBER THREE HUNDRED" -> 66293
      [] name = "COPTIC EPACT NUMBER FOUR HUNDRED" -> 66294
      [] name = "COPTIC EPACT NUMBER FIVE HUNDRED" -> 66295
      [] name = "COPTIC EPACT NUMBER SIX HUNDRED" -> 66296
      [] name = "COPTIC EPACT NUMBER SEVEN HUNDRED" -> 66297
      [] name = "COPTIC EPACT NUMBER EIGHT HUNDRED" -> 66298
      [] name = "COPTIC EPACT NUMBER NINE HUNDRED" -> 66299
      [] name = "OLD ITALIC LETTER A" -> 66304
      [] name = "OLD ITALIC LETTER BE" -> 66305
      [] name = "OLD ITALIC LETTER KE" -> 66306
      [] name = "OLD ITALIC LETTER DE" -> 66307
      [] name = "OLD ITALIC LETTER E" -> 66308
      [] name = "OLD ITALIC LETTER VE" -> 66309
      [] name = "OLD ITALIC LETTER ZE" -> 66310
      [] name = "OLD ITALIC LETTER HE" -> 66311
      [] name = "OLD ITALIC LETTER THE" -> 66312
      [] name = "OLD ITALIC LETTER I" -> 66313
      [] name = "OLD ITALIC LETTER KA" -> 66314
      [] name = "OLD ITALIC LETTER EL" -> 66315
      [] name = "OLD ITALIC LETTER EM" -> 66316
      [] name = "OLD ITALIC LETTER EN" -> 66317
      [] name = "OLD ITALIC LETTER ESH" -> 66318
      [] name = "OLD ITALIC LETTER O" -> 66319
      [] name = "OLD ITALIC LETTER PE" -> 66320
      [] name = "OLD ITALIC LETTER SHE" -> 66321
      [] name = "OLD ITALIC LETTER KU" -> 66322
      [] name = "OLD ITALIC LETTER ER" -> 66323
      [] name = "OLD ITALIC LETTER ES" -> 66324
      [] name = "OLD ITALIC LETTER TE" -> 66325
      [] name = "OLD ITALIC LETTER U" -> 66326
      [] name = "OLD ITALIC LETTER EKS" -> 66327
      [] name = "OLD ITALIC LETTER PHE" -> 66328
      [] name = "OLD ITALIC LETTER KHE" -> 66329
      [] name = "OLD ITALIC LETTER EF" -> 66330
      [] name = "OLD ITALIC LETTER ERS" -> 66331
      [] name = "OLD ITALIC LETTER CHE" -> 66332
      [] name = "OLD ITALIC LETTER II" -> 66333
      [] name = "OLD ITALIC LETTER UU" -> 66334
      [] name = "OLD ITALIC LETTER ESS" -> 66335
      [] name = "OLD ITALIC NUMERAL ONE" -> 66336
      [] name = "OLD ITALIC NUMERAL FIVE" -> 66337
      [] name = "OLD ITALIC NUMERAL TEN" -> 66338
      [] name = "OLD ITALIC NUMERAL FIFTY" -> 66339
      [] name = "OLD ITALIC LETTER YE" -> 66349
      [] name = "OLD ITALIC LETTER NORTHERN TSE" -> 66350
      [] name = "OLD ITALIC LETTER SOUTHERN TSE" -> 66351
      [] name = "GOTHIC LETTER AHSA" -> 66352
      [] name = "GOTHIC LETTER BAIRKAN" -> 66353
      [] name = "GOTHIC LETTER GIBA" -> 66354
      [] name = "GOTHIC LETTER DAGS" -> 66355
      [] name = "GOTHIC LETTER AIHVUS" -> 66356
      [] name = "GOTHIC LETTER QAIRTHRA" -> 66357
      [] name = "GOTHIC LETTER IUJA" -> 66358
      [] name = "GOTHIC LETTER HAGL" -> 66359
      [] name = "GOTHIC LETTER THIUTH" -> 66360
      [] name = "GOTHIC LETTER EIS" -> 66361
      [] name = "GOTHIC LETTER KUSMA" -> 66362
      [] name = "GOTHIC LETTER LAGUS" -> 66363
      [] name = "GOTHIC LETTER MANNA" -> 66364
      [] name = "GOTHIC LETTER NAUTHS" -> 66365
      [] name = "GOTHIC LETTER JER" -> 66366
      [] name = "GOTHIC LETTER URUS" -> 66367
      [] name = "GOTHIC LETTER PAIRTHRA" -> 66368
      [] name = "GOTHIC LETTER NINETY" -> 66369
      [] name = "GOTHIC LETTER RAIDA" -> 66370
      [] name = "GOTHIC LETTER SAUIL" -> 66371
      [] name = "GOTHIC LETTER TEIWS" -> 66372
      [] name = "GOTHIC LETTER WINJA" -> 66373
      [] name = "GOTHIC LETTER FAIHU" -> 66374
      [] name = "GOTHIC LETTER IGGWS" -> 66375
      [] name = "GOTHIC LETTER HWAIR" -> 66376
      [] name = "GOTHIC LETTER OTHAL" -> 66377
      [] name = "GOTHIC LETTER NINE HUNDRED" -> 66378
      [] name = "OLD PERMIC LETTER AN" -> 66384
      [] name = "OLD PERMIC LETTER BUR" -> 66385
      [] name = "OLD PERMIC LETTER GAI" -> 66386
      [] name = "OLD PERMIC LETTER DOI" -> 66387
      [] name = "OLD PERMIC LETTER E" -> 66388
      [] name = "OLD PERMIC LETTER ZHOI" -> 66389
      [] name = "OLD PERMIC LETTER DZHOI" -> 66390
      [] name = "OLD PERMIC LETTER ZATA" -> 66391
      [] name = "OLD PERMIC LETTER DZITA" -> 66392
      [] name = "OLD PERMIC LETTER I" -> 66393
      [] name = "OLD PERMIC LETTER KOKE" -> 66394
      [] name = "OLD PERMIC LETTER LEI" -> 66395
      [] name = "OLD PERMIC LETTER MENOE" -> 66396
      [] name = "OLD PERMIC LETTER NENOE" -> 66397
      [] name = "OLD PERMIC LETTER VOOI" -> 66398
      [] name = "OLD PERMIC LETTER PEEI" -> 66399
      [] name = "OLD PERMIC LETTER REI" -> 66400
      [] name = "OLD PERMIC LETTER SII" -> 66401
      [] name = "OLD PERMIC LETTER TAI" -> 66402
      [] name = "OLD PERMIC LETTER U" -> 66403
      [] name = "OLD PERMIC LETTER CHERY" -> 66404
      [] name = "OLD PERMIC LETTER SHOOI" -> 66405
      [] name = "OLD PERMIC LETTER SHCHOOI" -> 66406
      [] name = "OLD PERMIC LETTER YRY" -> 66407
      [] name = "OLD PERMIC LETTER YERU" -> 66408
      [] name = "OLD PERMIC LETTER O" -> 66409
      [] name = "OLD PERMIC LETTER OO" -> 66410
      [] name = "OLD PERMIC LETTER EF" -> 66411
      [] name = "OLD PERMIC LETTER HA" -> 66412
      [] name = "OLD PERMIC LETTER TSIU" -> 66413
      [] name = "OLD PERMIC LETTER VER" -> 66414
      [] name = "OLD PERMIC LETTER YER" -> 66415
      [] name = "OLD PERMIC LETTER YERI" -> 66416
      [] name = "OLD PERMIC LETTER YAT" -> 66417
      [] name = "OLD PERMIC LETTER IE" -> 66418
      [] name = "OLD PERMIC LETTER YU" -> 66419
      [] name = "OLD PERMIC LETTER YA" -> 66420
      [] name = "OLD PERMIC LETTER IA" -> 66421
      [] name = "COMBINING OLD PERMIC LETTER AN" -> 66422
      [] name = "COMBINING OLD PERMIC LETTER DOI" -> 66423
      [] name = "COMBINING OLD PERMIC LETTER ZATA" -> 66424
      [] name = "COMBINING OLD PERMIC LETTER NENOE" -> 66425
      [] name = "COMBINING OLD PERMIC LETTER SII" -> 66426
      [] name = "UGARITIC LETTER ALPA" -> 66432
      [] name = "UGARITIC LETTER BETA" -> 66433
      [] name = "UGARITIC LETTER GAMLA" -> 66434
      [] name = "UGARITIC LETTER KHA" -> 66435
      [] name = "UGARITIC LETTER DELTA" -> 66436
      [] name = "UGARITIC LETTER HO" -> 66437
      [] name = "UGARITIC LETTER WO" -> 66438
      [] name = "UGARITIC LETTER ZETA" -> 66439
      [] name = "UGARITIC LETTER HOTA" -> 66440
      [] name = "UGARITIC LETTER TET" -> 66441
      [] name = "UGARITIC LETTER YOD" -> 66442
      [] name = "UGARITIC LETTER KAF" -> 66443
      [] name = "UGARITIC LETTER SHIN" -> 66444
      [] name = "UGARITIC LETTER LAMDA" -> 66445
      [] name = "UGARITIC LETTER MEM" -> 66446
      [] name = "UGARITIC LETTER DHAL" -> 66447
      [] name = "UGARITIC LETTER NUN" -> 66448
      [] name = "UGARITIC LETTER ZU" -> 66449
      [] name = "UGARITIC LETTER SAMKA" -> 66450
      [] name = "UGARITIC LETTER AIN" -> 66451
      [] name = "UGARITIC LETTER PU" -> 66452
      [] name = "UGARITIC LETTER SADE" -> 66453
      [] name = "UGARITIC LETTER QOPA" -> 66454
      [] name = "UGARITIC LETTER RASHA" -> 66455
      [] name = "UGARITIC LETTER THANNA" -> 66456
      [] name = "UGARITIC LETTER GHAIN" -> 66457
      [] name = "UGARITIC LETTER TO" -> 66458
      [] name = "UGARITIC LETTER I" -> 66459
      [] name = "UGARITIC LETTER U" -> 66460
      [] name = "UGARITIC LETTER SSU" -> 66461
      [] name = "UGARITIC WORD DIVIDER" -> 66463
      [] name = "OLD PERSIAN SIGN A" -> 66464
      [] name = "OLD PERSIAN SIGN I" -> 66465
      [] name = "OLD PERSIAN SIGN U" -> 66466
      [] name = "OLD PERSIAN SIGN KA" -> 66467
      [] name = "OLD PERSIAN SIGN KU" -> 66468
      [] name = "OLD PERSIAN SIGN GA" -> 66469
      [] name = "OLD PERSIAN SIGN GU" -> 66470
      [] name = "OLD PERSIAN SIGN XA" -> 66471
      [] name = "OLD PERSIAN SIGN CA" -> 66472
      [] name = "OLD PERSIAN SIGN JA" -> 66473
      [] name = "OLD PERSIAN SIGN JI" -> 66474
      [] name = "OLD PERSIAN SIGN TA" -> 66475
      [] name = "OLD PERSIAN SIGN TU" -> 66476
      [] name = "OLD PERSIAN SIGN DA" -> 66477
      [] name = "OLD PERSIAN SIGN DI" -> 66478
      [] name = "OLD PERSIAN SIGN DU" -> 66479
      [] name = "OLD PERSIAN SIGN THA" -> 66480
      [] name = "OLD PERSIAN SIGN PA" -> 66481
      [] name = "OLD PERSIAN SIGN BA" -> 66482
      [] name = "OLD PERSIAN SIGN FA" -> 66483
      [] name = "OLD PERSIAN SIGN NA" -> 66484
      [] name = "OLD PERSIAN SIGN NU" -> 66485
      [] name = "OLD PERSIAN SIGN MA" -> 66486
      [] name = "OLD PERSIAN SIGN MI" -> 66487
      [] name = "OLD PERSIAN SIGN MU" -> 66488
      [] name = "OLD PERSIAN SIGN YA" -> 66489
      [] name = "OLD PERSIAN SIGN VA" -> 66490
      [] name = "OLD PERSIAN SIGN VI" -> 66491
      [] name = "OLD PERSIAN SIGN RA" -> 66492
      [] name = "OLD PERSIAN SIGN RU" -> 66493
      [] name = "OLD PERSIAN SIGN LA" -> 66494
      [] name = "OLD PERSIAN SIGN SA" -> 66495
      [] name = "OLD PERSIAN SIGN ZA" -> 66496
      [] name = "OLD PERSIAN SIGN SHA" -> 66497
      [] name = "OLD PERSIAN SIGN SSA" -> 66498
      [] name = "OLD PERSIAN SIGN HA" -> 66499
      [] name = "OLD PERSIAN SIGN AURAMAZDAA" -> 66504
      [] name = "OLD PERSIAN SIGN AURAMAZDAA-2" -> 66505
      [] name = "OLD PERSIAN SIGN AURAMAZDAAHA" -> 66506
      [] name = "OLD PERSIAN SIGN XSHAAYATHIYA" -> 66507
      [] name = "OLD PERSIAN SIGN DAHYAAUSH" -> 66508
      [] name = "OLD PERSIAN SIGN DAHYAAUSH-2" -> 66509
      [] name = "OLD PERSIAN SIGN BAGA" -> 66510
      [] name = "OLD PERSIAN SIGN BUUMISH" -> 66511
      [] name = "OLD PERSIAN WORD DIVIDER" -> 66512
      [] name = "OLD PERSIAN NUMBER ONE" -> 66513
      [] name = "OLD PERSIAN NUMBER TWO" -> 66514
      [] name = "OLD PERSIAN NUMBER TEN" -> 66515
      [] name = "OLD PERSIAN NUMBER TWENTY" -> 66516
      [] name = "OLD PERSIAN NUMBER HUNDRED" -> 66517
      [] name = "DESERET CAPITAL LETTER LONG I" -> 66560
      [] name = "DESERET CAPITAL LETTER LONG E" -> 66561
      [] name = "DESERET CAPITAL LETTER LONG A" -> 66562
      [] name = "DESERET CAPITAL LETTER LONG AH" -> 66563
      [] name = "DESERET CAPITAL LETTER LONG O" -> 66564
      [] name = "DESERET CAPITAL LETTER LONG OO" -> 66565
      [] name = "DESERET CAPITAL LETTER SHORT I" -> 66566
      [] name = "DESERET CAPITAL LETTER SHORT E" -> 66567
      [] name = "DESERET CAPITAL LETTER SHORT A" -> 66568
      [] name = "DESERET CAPITAL LETTER SHORT AH" -> 66569
      [] name = "DESERET CAPITAL LETTER SHORT O" -> 66570
      [] name = "DESERET CAPITAL LETTER SHORT OO" -> 66571
      [] name = "DESERET CAPITAL LETTER AY" -> 66572
      [] name = "DESERET CAPITAL LETTER OW" -> 66573
      [] name = "DESERET CAPITAL LETTER WU" -> 66574
      [] name = "DESERET CAPITAL LETTER YEE" -> 66575
      [] name = "DESERET CAPITAL LETTER H" -> 66576
      [] name = "DESERET CAPITAL LETTER PEE" -> 66577
      [] name = "DESERET CAPITAL LETTER BEE" -> 66578
      [] name = "DESERET CAPITAL LETTER TEE" -> 66579
      [] name = "DESERET CAPITAL LETTER DEE" -> 66580
      [] name = "DESERET CAPITAL LETTER CHEE" -> 66581
      [] name = "DESERET CAPITAL LETTER JEE" -> 66582
      [] name = "DESERET CAPITAL LETTER KAY" -> 66583
      [] name = "DESERET CAPITAL LETTER GAY" -> 66584
      [] name = "DESERET CAPITAL LETTER EF" -> 66585
      [] name = "DESERET CAPITAL LETTER VEE" -> 66586
      [] name = "DESERET CAPITAL LETTER ETH" -> 66587
      [] name = "DESERET CAPITAL LETTER THEE" -> 66588
      [] name = "DESERET CAPITAL LETTER ES" -> 66589
      [] name = "DESERET CAPITAL LETTER ZEE" -> 66590
      [] name = "DESERET CAPITAL LETTER ESH" -> 66591
      [] name = "DESERET CAPITAL LETTER ZHEE" -> 66592
      [] name = "DESERET CAPITAL LETTER ER" -> 66593
      [] name = "DESERET CAPITAL LETTER EL" -> 66594
      [] name = "DESERET CAPITAL LETTER EM" -> 66595
      [] name = "DESERET CAPITAL LETTER EN" -> 66596
      [] name = "DESERET CAPITAL LETTER ENG" -> 66597
      [] name = "DESERET CAPITAL LETTER OI" -> 66598
      [] name = "DESERET CAPITAL LETTER EW" -> 66599
      [] name = "DESERET SMALL LETTER LONG I" -> 66600
      [] name = "DESERET SMALL LETTER LONG E" -> 66601
      [] name = "DESERET SMALL LETTER LONG A" -> 66602
      [] name = "DESERET SMALL LETTER LONG AH" -> 66603
      [] name = "DESERET SMALL LETTER LONG O" -> 66604
      [] name = "DESERET SMALL LETTER LONG OO" -> 66605
      [] name = "DESERET SMALL LETTER SHORT I" -> 66606
      [] name = "DESERET SMALL LETTER SHORT E" -> 66607
      [] name = "DESERET SMALL LETTER SHORT A" -> 66608
      [] name = "DESERET SMALL LETTER SHORT AH" -> 66609
      [] name = "DESERET SMALL LETTER SHORT O" -> 66610
      [] name = "DESERET SMALL LETTER SHORT OO" -> 66611
      [] name = "DESERET SMALL LETTER AY" -> 66612
      [] name = "DESERET SMALL LETTER OW" -> 66613
      [] name = "DESERET SMALL LETTER WU" -> 66614
      [] name = "DESERET SMALL LETTER YEE" -> 66615
      [] name = "DESERET SMALL LETTER H" -> 66616
      [] name = "DESERET SMALL LETTER PEE" -> 66617
      [] name = "DESERET SMALL LETTER BEE" -> 66618
      [] name = "DESERET SMALL LETTER TEE" -> 66619
      [] name = "DESERET SMALL LETTER DEE" -> 66620
      [] name = "DESERET SMALL LETTER CHEE" -> 66621
      [] name = "DESERET SMALL LETTER JEE" -> 66622
      [] name = "DESERET SMALL LETTER KAY" -> 66623
      [] name = "DESERET SMALL LETTER GAY" -> 66624
      [] name = "DESERET SMALL LETTER EF" -> 66625
      [] name = "DESERET SMALL LETTER VEE" -> 66626
      [] name = "DESERET SMALL LETTER ETH" -> 66627
      [] name = "DESERET SMALL LETTER THEE" -> 66628
      [] name = "DESERET SMALL LETTER ES" -> 66629
      [] name = "DESERET SMALL LETTER ZEE" -> 66630
      [] name = "DESERET SMALL LETTER ESH" -> 66631
      [] name = "DESERET SMALL LETTER ZHEE" -> 66632
      [] name = "DESERET SMALL LETTER ER" -> 66633
      [] name = "DESERET SMALL LETTER EL" -> 66634
      [] name = "DESERET SMALL LETTER EM" -> 66635
      [] name = "DESERET SMALL LETTER EN" -> 66636
      [] name = "DESERET SMALL LETTER ENG" -> 66637
      [] name = "DESERET SMALL LETTER OI" -> 66638
      [] name = "DESERET SMALL LETTER EW" -> 66639
      [] name = "SHAVIAN LETTER PEEP" -> 66640
      [] name = "SHAVIAN LETTER TOT" -> 66641
      [] name = "SHAVIAN LETTER KICK" -> 66642
      [] name = "SHAVIAN LETTER FEE" -> 66643
      [] name = "SHAVIAN LETTER THIGH" -> 66644
      [] name = "SHAVIAN LETTER SO" -> 66645
      [] name = "SHAVIAN LETTER SURE" -> 66646
      [] name = "SHAVIAN LETTER CHURCH" -> 66647
      [] name = "SHAVIAN LETTER YEA" -> 66648
      [] name = "SHAVIAN LETTER HUNG" -> 66649
      [] name = "SHAVIAN LETTER BIB" -> 66650
      [] name = "SHAVIAN LETTER DEAD" -> 66651
      [] name = "SHAVIAN LETTER GAG" -> 66652
      [] name = "SHAVIAN LETTER VOW" -> 66653
      [] name = "SHAVIAN LETTER THEY" -> 66654
      [] name = "SHAVIAN LETTER ZOO" -> 66655
      [] name = "SHAVIAN LETTER MEASURE" -> 66656
      [] name = "SHAVIAN LETTER JUDGE" -> 66657
      [] name = "SHAVIAN LETTER WOE" -> 66658
      [] name = "SHAVIAN LETTER HA-HA" -> 66659
      [] name = "SHAVIAN LETTER LOLL" -> 66660
      [] name = "SHAVIAN LETTER MIME" -> 66661
      [] name = "SHAVIAN LETTER IF" -> 66662
      [] name = "SHAVIAN LETTER EGG" -> 66663
      [] name = "SHAVIAN LETTER ASH" -> 66664
      [] name = "SHAVIAN LETTER ADO" -> 66665
      [] name = "SHAVIAN LETTER ON" -> 66666
      [] name = "SHAVIAN LETTER WOOL" -> 66667
      [] name = "SHAVIAN LETTER OUT" -> 66668
      [] name = "SHAVIAN LETTER AH" -> 66669
      [] name = "SHAVIAN LETTER ROAR" -> 66670
      [] name = "SHAVIAN LETTER NUN" -> 66671
      [] name = "SHAVIAN LETTER EAT" -> 66672
      [] name = "SHAVIAN LETTER AGE" -> 66673
      [] name = "SHAVIAN LETTER ICE" -> 66674
      [] name = "SHAVIAN LETTER UP" -> 66675
      [] name = "SHAVIAN LETTER OAK" -> 66676
      [] name = "SHAVIAN LETTER OOZE" -> 66677
      [] name = "SHAVIAN LETTER OIL" -> 66678
      [] name = "SHAVIAN LETTER AWE" -> 66679
      [] name = "SHAVIAN LETTER ARE" -> 66680
      [] name = "SHAVIAN LETTER OR" -> 66681
      [] name = "SHAVIAN LETTER AIR" -> 66682
      [] name = "SHAVIAN LETTER ERR" -> 66683
      [] name = "SHAVIAN LETTER ARRAY" -> 66684
      [] name = "SHAVIAN LETTER EAR" -> 66685
      [] name = "SHAVIAN LETTER IAN" -> 66686
      [] name = "SHAVIAN LETTER YEW" -> 66687
      [] name = "OSMANYA LETTER ALEF" -> 66688
      [] name = "OSMANYA LETTER BA" -> 66689
      [] name = "OSMANYA LETTER TA" -> 66690
      [] name = "OSMANYA LETTER JA" -> 66691
      [] name = "OSMANYA LETTER XA" -> 66692
      [] name = "OSMANYA LETTER KHA" -> 66693
      [] name = "OSMANYA LETTER DEEL" -> 66694
      [] name = "OSMANYA LETTER RA" -> 66695
      [] name = "OSMANYA LETTER SA" -> 66696
      [] name = "OSMANYA LETTER SHIIN" -> 66697
      [] name = "OSMANYA LETTER DHA" -> 66698
      [] name = "OSMANYA LETTER CAYN" -> 66699
      [] name = "OSMANYA LETTER GA" -> 66700
      [] name = "OSMANYA LETTER FA" -> 66701
      [] name = "OSMANYA LETTER QAAF" -> 66702
      [] name = "OSMANYA LETTER KAAF" -> 66703
      [] name = "OSMANYA LETTER LAAN" -> 66704
      [] name = "OSMANYA LETTER MIIN" -> 66705
      [] name = "OSMANYA LETTER NUUN" -> 66706
      [] name = "OSMANYA LETTER WAW" -> 66707
      [] name = "OSMANYA LETTER HA" -> 66708
      [] name = "OSMANYA LETTER YA" -> 66709
      [] name = "OSMANYA LETTER A" -> 66710
      [] name = "OSMANYA LETTER E" -> 66711
      [] name = "OSMANYA LETTER I" -> 66712
      [] name = "OSMANYA LETTER O" -> 66713
      [] name = "OSMANYA LETTER U" -> 66714
      [] name = "OSMANYA LETTER AA" -> 66715
      [] name = "OSMANYA LETTER EE" -> 66716
      [] name = "OSMANYA LETTER OO" -> 66717
      [] name = "OSMANYA DIGIT ZERO" -> 66720
      [] name = "OSMANYA DIGIT ONE" -> 66721
      [] name = "OSMANYA DIGIT TWO" -> 66722
      [] name = "OSMANYA DIGIT THREE" -> 66723
      [] name = "OSMANYA DIGIT FOUR" -> 66724
      [] name = "OSMANYA DIGIT FIVE" -> 66725
      [] name = "OSMANYA DIGIT SIX" -> 66726
      [] name = "OSMANYA DIGIT SEVEN" -> 66727
      [] name = "OSMANYA DIGIT EIGHT" -> 66728
      [] name = "OSMANYA DIGIT NINE" -> 66729
      [] name = "OSAGE CAPITAL LETTER A" -> 66736
      [] name = "OSAGE CAPITAL LETTER AI" -> 66737
      [] name = "OSAGE CAPITAL LETTER AIN" -> 66738
      [] name = "OSAGE CAPITAL LETTER AH" -> 66739
      [] name = "OSAGE CAPITAL LETTER BRA" -> 66740
      [] name = "OSAGE CAPITAL LETTER CHA" -> 66741
      [] name = "OSAGE CAPITAL LETTER EHCHA" -> 66742
      [] name = "OSAGE CAPITAL LETTER E" -> 66743
      [] name = "OSAGE CAPITAL LETTER EIN" -> 66744
      [] name = "OSAGE CAPITAL LETTER HA" -> 66745
      [] name = "OSAGE CAPITAL LETTER HYA" -> 66746
      [] name = "OSAGE CAPITAL LETTER I" -> 66747
      [] name = "OSAGE CAPITAL LETTER KA" -> 66748
      [] name = "OSAGE CAPITAL LETTER EHKA" -> 66749
      [] name = "OSAGE CAPITAL LETTER KYA" -> 66750
      [] name = "OSAGE CAPITAL LETTER LA" -> 66751
      [] name = "OSAGE CAPITAL LETTER MA" -> 66752
      [] name = "OSAGE CAPITAL LETTER NA" -> 66753
      [] name = "OSAGE CAPITAL LETTER O" -> 66754
      [] name = "OSAGE CAPITAL LETTER OIN" -> 66755
      [] name = "OSAGE CAPITAL LETTER PA" -> 66756
      [] name = "OSAGE CAPITAL LETTER EHPA" -> 66757
      [] name = "OSAGE CAPITAL LETTER SA" -> 66758
      [] name = "OSAGE CAPITAL LETTER SHA" -> 66759
      [] name = "OSAGE CAPITAL LETTER TA" -> 66760
      [] name = "OSAGE CAPITAL LETTER EHTA" -> 66761
      [] name = "OSAGE CAPITAL LETTER TSA" -> 66762
      [] name = "OSAGE CAPITAL LETTER EHTSA" -> 66763
      [] name = "OSAGE CAPITAL LETTER TSHA" -> 66764
      [] name = "OSAGE CAPITAL LETTER DHA" -> 66765
      [] name = "OSAGE CAPITAL LETTER U" -> 66766
      [] name = "OSAGE CAPITAL LETTER WA" -> 66767
      [] name = "OSAGE CAPITAL LETTER KHA" -> 66768
      [] name = "OSAGE CAPITAL LETTER GHA" -> 66769
      [] name = "OSAGE CAPITAL LETTER ZA" -> 66770
      [] name = "OSAGE CAPITAL LETTER ZHA" -> 66771
      [] name = "OSAGE SMALL LETTER A" -> 66776
      [] name = "OSAGE SMALL LETTER AI" -> 66777
      [] name = "OSAGE SMALL LETTER AIN" -> 66778
      [] name = "OSAGE SMALL LETTER AH" -> 66779
      [] name = "OSAGE SMALL LETTER BRA" -> 66780
      [] name = "OSAGE SMALL LETTER CHA" -> 66781
      [] name = "OSAGE SMALL LETTER EHCHA" -> 66782
      [] name = "OSAGE SMALL LETTER E" -> 66783
      [] name = "OSAGE SMALL LETTER EIN" -> 66784
      [] name = "OSAGE SMALL LETTER HA" -> 66785
      [] name = "OSAGE SMALL LETTER HYA" -> 66786
      [] name = "OSAGE SMALL LETTER I" -> 66787
      [] name = "OSAGE SMALL LETTER KA" -> 66788
      [] name = "OSAGE SMALL LETTER EHKA" -> 66789
      [] name = "OSAGE SMALL LETTER KYA" -> 66790
      [] name = "OSAGE SMALL LETTER LA" -> 66791
      [] name = "OSAGE SMALL LETTER MA" -> 66792
      [] name = "OSAGE SMALL LETTER NA" -> 66793
      [] name = "OSAGE SMALL LETTER O" -> 66794
      [] name = "OSAGE SMALL LETTER OIN" -> 66795
      [] name = "OSAGE SMALL LETTER PA" -> 66796
      [] name = "OSAGE SMALL LETTER EHPA" -> 66797
      [] name = "OSAGE SMALL LETTER SA" -> 66798
      [] name = "OSAGE SMALL LETTER SHA" -> 66799
      [] name = "OSAGE SMALL LETTER TA" -> 66800
      [] name = "OSAGE SMALL LETTER EHTA" -> 66801
      [] name = "OSAGE SMALL LETTER TSA" -> 66802
      [] name = "OSAGE SMALL LETTER EHTSA" -> 66803
      [] name = "OSAGE SMALL LETTER TSHA" -> 66804
      [] name = "OSAGE SMALL LETTER DHA" -> 66805
      [] name = "OSAGE SMALL LETTER U" -> 66806
      [] name = "OSAGE SMALL LETTER WA" -> 66807
      [] name = "OSAGE SMALL LETTER KHA" -> 66808
      [] name = "OSAGE SMALL LETTER GHA" -> 66809
      [] name = "OSAGE SMALL LETTER ZA" -> 66810
      [] name = "OSAGE SMALL LETTER ZHA" -> 66811
      [] name = "ELBASAN LETTER A" -> 66816
      [] name = "ELBASAN LETTER BE" -> 66817
      [] name = "ELBASAN LETTER CE" -> 66818
      [] name = "ELBASAN LETTER CHE" -> 66819
      [] name = "ELBASAN LETTER DE" -> 66820
      [] name = "ELBASAN LETTER NDE" -> 66821
      [] name = "ELBASAN LETTER DHE" -> 66822
      [] name = "ELBASAN LETTER EI" -> 66823
      [] name = "ELBASAN LETTER E" -> 66824
      [] name = "ELBASAN LETTER FE" -> 66825
      [] name = "ELBASAN LETTER GE" -> 66826
      [] name = "ELBASAN LETTER GJE" -> 66827
      [] name = "ELBASAN LETTER HE" -> 66828
      [] name = "ELBASAN LETTER I" -> 66829
      [] name = "ELBASAN LETTER JE" -> 66830
      [] name = "ELBASAN LETTER KE" -> 66831
      [] name = "ELBASAN LETTER LE" -> 66832
      [] name = "ELBASAN LETTER LLE" -> 66833
      [] name = "ELBASAN LETTER ME" -> 66834
      [] name = "ELBASAN LETTER NE" -> 66835
      [] name = "ELBASAN LETTER NA" -> 66836
      [] name = "ELBASAN LETTER NJE" -> 66837
      [] name = "ELBASAN LETTER O" -> 66838
      [] name = "ELBASAN LETTER PE" -> 66839
      [] name = "ELBASAN LETTER QE" -> 66840
      [] name = "ELBASAN LETTER RE" -> 66841
      [] name = "ELBASAN LETTER RRE" -> 66842
      [] name = "ELBASAN LETTER SE" -> 66843
      [] name = "ELBASAN LETTER SHE" -> 66844
      [] name = "ELBASAN LETTER TE" -> 66845
      [] name = "ELBASAN LETTER THE" -> 66846
      [] name = "ELBASAN LETTER U" -> 66847
      [] name = "ELBASAN LETTER VE" -> 66848
      [] name = "ELBASAN LETTER XE" -> 66849
      [] name = "ELBASAN LETTER Y" -> 66850
      [] name = "ELBASAN LETTER ZE" -> 66851
      [] name = "ELBASAN LETTER ZHE" -> 66852
      [] name = "ELBASAN LETTER GHE" -> 66853
      [] name = "ELBASAN LETTER GHAMMA" -> 66854
      [] name = "ELBASAN LETTER KHE" -> 66855
      [] name = "CAUCASIAN ALBANIAN LETTER ALT" -> 66864
      [] name = "CAUCASIAN ALBANIAN LETTER BET" -> 66865
      [] name = "CAUCASIAN ALBANIAN LETTER GIM" -> 66866
      [] name = "CAUCASIAN ALBANIAN LETTER DAT" -> 66867
      [] name = "CAUCASIAN ALBANIAN LETTER EB" -> 66868
      [] name = "CAUCASIAN ALBANIAN LETTER ZARL" -> 66869
      [] name = "CAUCASIAN ALBANIAN LETTER EYN" -> 66870
      [] name = "CAUCASIAN ALBANIAN LETTER ZHIL" -> 66871
      [] name = "CAUCASIAN ALBANIAN LETTER TAS" -> 66872
      [] name = "CAUCASIAN ALBANIAN LETTER CHA" -> 66873
      [] name = "CAUCASIAN ALBANIAN LETTER YOWD" -> 66874
      [] name = "CAUCASIAN ALBANIAN LETTER ZHA" -> 66875
      [] name = "CAUCASIAN ALBANIAN LETTER IRB" -> 66876
      [] name = "CAUCASIAN ALBANIAN LETTER SHA" -> 66877
      [] name = "CAUCASIAN ALBANIAN LETTER LAN" -> 66878
      [] name = "CAUCASIAN ALBANIAN LETTER INYA" -> 66879
      [] name = "CAUCASIAN ALBANIAN LETTER XEYN" -> 66880
      [] name = "CAUCASIAN ALBANIAN LETTER DYAN" -> 66881
      [] name = "CAUCASIAN ALBANIAN LETTER CAR" -> 66882
      [] name = "CAUCASIAN ALBANIAN LETTER JHOX" -> 66883
      [] name = "CAUCASIAN ALBANIAN LETTER KAR" -> 66884
      [] name = "CAUCASIAN ALBANIAN LETTER LYIT" -> 66885
      [] name = "CAUCASIAN ALBANIAN LETTER HEYT" -> 66886
      [] name = "CAUCASIAN ALBANIAN LETTER QAY" -> 66887
      [] name = "CAUCASIAN ALBANIAN LETTER AOR" -> 66888
      [] name = "CAUCASIAN ALBANIAN LETTER CHOY" -> 66889
      [] name = "CAUCASIAN ALBANIAN LETTER CHI" -> 66890
      [] name = "CAUCASIAN ALBANIAN LETTER CYAY" -> 66891
      [] name = "CAUCASIAN ALBANIAN LETTER MAQ" -> 66892
      [] name = "CAUCASIAN ALBANIAN LETTER QAR" -> 66893
      [] name = "CAUCASIAN ALBANIAN LETTER NOWC" -> 66894
      [] name = "CAUCASIAN ALBANIAN LETTER DZYAY" -> 66895
      [] name = "CAUCASIAN ALBANIAN LETTER SHAK" -> 66896
      [] name = "CAUCASIAN ALBANIAN LETTER JAYN" -> 66897
      [] name = "CAUCASIAN ALBANIAN LETTER ON" -> 66898
      [] name = "CAUCASIAN ALBANIAN LETTER TYAY" -> 66899
      [] name = "CAUCASIAN ALBANIAN LETTER FAM" -> 66900
      [] name = "CAUCASIAN ALBANIAN LETTER DZAY" -> 66901
      [] name = "CAUCASIAN ALBANIAN LETTER CHAT" -> 66902
      [] name = "CAUCASIAN ALBANIAN LETTER PEN" -> 66903
      [] name = "CAUCASIAN ALBANIAN LETTER GHEYS" -> 66904
      [] name = "CAUCASIAN ALBANIAN LETTER RAT" -> 66905
      [] name = "CAUCASIAN ALBANIAN LETTER SEYK" -> 66906
      [] name = "CAUCASIAN ALBANIAN LETTER VEYZ" -> 66907
      [] name = "CAUCASIAN ALBANIAN LETTER TIWR" -> 66908
      [] name = "CAUCASIAN ALBANIAN LETTER SHOY" -> 66909
      [] name = "CAUCASIAN ALBANIAN LETTER IWN" -> 66910
      [] name = "CAUCASIAN ALBANIAN LETTER CYAW" -> 66911
      [] name = "CAUCASIAN ALBANIAN LETTER CAYN" -> 66912
      [] name = "CAUCASIAN ALBANIAN LETTER YAYD" -> 66913
      [] name = "CAUCASIAN ALBANIAN LETTER PIWR" -> 66914
      [] name = "CAUCASIAN ALBANIAN LETTER KIW" -> 66915
      [] name = "CAUCASIAN ALBANIAN CITATION MARK" -> 66927
      [] name = "VITHKUQI CAPITAL LETTER A" -> 66928
      [] name = "VITHKUQI CAPITAL LETTER BBE" -> 66929
      [] name = "VITHKUQI CAPITAL LETTER BE" -> 66930
      [] name = "VITHKUQI CAPITAL LETTER CE" -> 66931
      [] name = "VITHKUQI CAPITAL LETTER CHE" -> 66932
      [] name = "VITHKUQI CAPITAL LETTER DE" -> 66933
      [] name = "VITHKUQI CAPITAL LETTER DHE" -> 66934
      [] name = "VITHKUQI CAPITAL LETTER EI" -> 66935
      [] name = "VITHKUQI CAPITAL LETTER E" -> 66936
      [] name = "VITHKUQI CAPITAL LETTER FE" -> 66937
      [] name = "VITHKUQI CAPITAL LETTER GA" -> 66938
      [] name = "VITHKUQI CAPITAL LETTER HA" -> 66940
      [] name = "VITHKUQI CAPITAL LETTER HHA" -> 66941
      [] name = "VITHKUQI CAPITAL LETTER I" -> 66942
      [] name = "VITHKUQI CAPITAL LETTER IJE" -> 66943
      [] name = "VITHKUQI CAPITAL LETTER JE" -> 66944
      [] name = "VITHKUQI CAPITAL LETTER KA" -> 66945
      [] name = "VITHKUQI CAPITAL LETTER LA" -> 66946
      [] name = "VITHKUQI CAPITAL LETTER LLA" -> 66947
      [] name = "VITHKUQI CAPITAL LETTER ME" -> 66948
      [] name = "VITHKUQI CAPITAL LETTER NE" -> 66949
      [] name = "VITHKUQI CAPITAL LETTER NJE" -> 66950
      [] name = "VITHKUQI CAPITAL LETTER O" -> 66951
      [] name = "VITHKUQI CAPITAL LETTER PE" -> 66952
      [] name = "VITHKUQI CAPITAL LETTER QA" -> 66953
      [] name = "VITHKUQI CAPITAL LETTER RE" -> 66954
      [] name = "VITHKUQI CAPITAL LETTER SE" -> 66956
      [] name = "VITHKUQI CAPITAL LETTER SHE" -> 66957
      [] name = "VITHKUQI CAPITAL LETTER TE" -> 66958
      [] name = "VITHKUQI CAPITAL LETTER THE" -> 66959
      [] name = "VITHKUQI CAPITAL LETTER U" -> 66960
      [] name = "VITHKUQI CAPITAL LETTER VE" -> 66961
      [] name = "VITHKUQI CAPITAL LETTER XE" -> 66962
      [] name = "VITHKUQI CAPITAL LETTER Y" -> 66964
      [] name = "VITHKUQI CAPITAL LETTER ZE" -> 66965
      [] name = "VITHKUQI SMALL LETTER A" -> 66967
      [] name = "VITHKUQI SMALL LETTER BBE" -> 66968
      [] name = "VITHKUQI SMALL LETTER BE" -> 66969
      [] name = "VITHKUQI SMALL LETTER CE" -> 66970
      [] name = "VITHKUQI SMALL LETTER CHE" -> 66971
      [] name = "VITHKUQI SMALL LETTER DE" -> 66972
      [] name = "VITHKUQI SMALL LETTER DHE" -> 66973
      [] name = "VITHKUQI SMALL LETTER EI" -> 66974
      [] name = "VITHKUQI SMALL LETTER E" -> 66975
      [] name = "VITHKUQI SMALL LETTER FE" -> 66976
      [] name = "VITHKUQI SMALL LETTER GA" -> 66977
      [] name = "VITHKUQI SMALL LETTER HA" -> 66979
      [] name = "VITHKUQI SMALL LETTER HHA" -> 66980
      [] name = "VITHKUQI SMALL LETTER I" -> 66981
      [] name = "VITHKUQI SMALL LETTER IJE" -> 66982
      [] name = "VITHKUQI SMALL LETTER JE" -> 66983
      [] name = "VITHKUQI SMALL LETTER KA" -> 66984
      [] name = "VITHKUQI SMALL LETTER LA" -> 66985
      [] name = "VITHKUQI SMALL LETTER LLA" -> 66986
      [] name = "VITHKUQI SMALL LETTER ME" -> 66987
      [] name = "VITHKUQI SMALL LETTER NE" -> 66988
      [] name = "VITHKUQI SMALL LETTER NJE" -> 66989
      [] name = "VITHKUQI SMALL LETTER O" -> 66990
      [] name = "VITHKUQI SMALL LETTER PE" -> 66991
      [] name = "VITHKUQI SMALL LETTER QA" -> 66992
      [] name = "VITHKUQI SMALL LETTER RE" -> 66993
      [] name = "VITHKUQI SMALL LETTER SE" -> 66995
      [] name = "VITHKUQI SMALL LETTER SHE" -> 66996
      [] name = "VITHKUQI SMALL LETTER TE" -> 66997
      [] name = "VITHKUQI SMALL LETTER THE" -> 66998
      [] name = "VITHKUQI SMALL LETTER U" -> 66999
      [] name = "VITHKUQI SMALL LETTER VE" -> 67000
      [] name = "VITHKUQI SMALL LETTER XE" -> 67001
      [] name = "VITHKUQI SMALL LETTER Y" -> 67003
      [] name = "VITHKUQI SMALL LETTER ZE" -> 67004
      [] name = "LINEAR A SIGN AB001" -> 67072
      [] name = "LINEAR A SIGN AB002" -> 67073
      [] name = "LINEAR A SIGN AB003" -> 67074
      [] name = "LINEAR A SIGN AB004" -> 67075
      [] name = "LINEAR A SIGN AB005" -> 67076
      [] name = "LINEAR A SIGN AB006" -> 67077
      [] name = "LINEAR A SIGN AB007" -> 67078
      [] name = "LINEAR A SIGN AB008" -> 67079
      [] name = "LINEAR A SIGN AB009" -> 67080
      [] name = "LINEAR A SIGN AB010" -> 67081
      [] name = "LINEAR A SIGN AB011" -> 67082
      [] name = "LINEAR A SIGN AB013" -> 67083
      [] name = "LINEAR A SIGN AB016" -> 67084
      [] name = "LINEAR A SIGN AB017" -> 67085
      [] name = "LINEAR A SIGN AB020" -> 67086
      [] name = "LINEAR A SIGN AB021" -> 67087
      [] name = "LINEAR A SIGN AB021F" -> 67088
      [] name = "LINEAR A SIGN AB021M" -> 67089
      [] name = "LINEAR A SIGN AB022" -> 67090
      [] name = "LINEAR A SIGN AB022F" -> 67091
      [] name = "LINEAR A SIGN AB022M" -> 67092
      [] name = "LINEAR A SIGN AB023" -> 67093
      [] name = "LINEAR A SIGN AB023M" -> 67094
      [] name = "LINEAR A SIGN AB024" -> 67095
      [] name = "LINEAR A SIGN AB026" -> 67096
      [] name = "LINEAR A SIGN AB027" -> 67097
      [] name = "LINEAR A SIGN AB028" -> 67098
      [] name = "LINEAR A SIGN A028B" -> 67099
      [] name = "LINEAR A SIGN AB029" -> 67100
      [] name = "LINEAR A SIGN AB030" -> 67101
      [] name = "LINEAR A SIGN AB031" -> 67102
      [] name = "LINEAR A SIGN AB034" -> 67103
      [] name = "LINEAR A SIGN AB037" -> 67104
      [] name = "LINEAR A SIGN AB038" -> 67105
      [] name = "LINEAR A SIGN AB039" -> 67106
      [] name = "LINEAR A SIGN AB040" -> 67107
      [] name = "LINEAR A SIGN AB041" -> 67108
      [] name = "LINEAR A SIGN AB044" -> 67109
      [] name = "LINEAR A SIGN AB045" -> 67110
      [] name = "LINEAR A SIGN AB046" -> 67111
      [] name = "LINEAR A SIGN AB047" -> 67112
      [] name = "LINEAR A SIGN AB048" -> 67113
      [] name = "LINEAR A SIGN AB049" -> 67114
      [] name = "LINEAR A SIGN AB050" -> 67115
      [] name = "LINEAR A SIGN AB051" -> 67116
      [] name = "LINEAR A SIGN AB053" -> 67117
      [] name = "LINEAR A SIGN AB054" -> 67118
      [] name = "LINEAR A SIGN AB055" -> 67119
      [] name = "LINEAR A SIGN AB056" -> 67120
      [] name = "LINEAR A SIGN AB057" -> 67121
      [] name = "LINEAR A SIGN AB058" -> 67122
      [] name = "LINEAR A SIGN AB059" -> 67123
      [] name = "LINEAR A SIGN AB060" -> 67124
      [] name = "LINEAR A SIGN AB061" -> 67125
      [] name = "LINEAR A SIGN AB065" -> 67126
      [] name = "LINEAR A SIGN AB066" -> 67127
      [] name = "LINEAR A SIGN AB067" -> 67128
      [] name = "LINEAR A SIGN AB069" -> 67129
      [] name = "LINEAR A SIGN AB070" -> 67130
      [] name = "LINEAR A SIGN AB073" -> 67131
      [] name = "LINEAR A SIGN AB074" -> 67132
      [] name = "LINEAR A SIGN AB076" -> 67133
      [] name = "LINEAR A SIGN AB077" -> 67134
      [] name = "LINEAR A SIGN AB078" -> 67135
      [] name = "LINEAR A SIGN AB079" -> 67136
      [] name = "LINEAR A SIGN AB080" -> 67137
      [] name = "LINEAR A SIGN AB081" -> 67138
      [] name = "LINEAR A SIGN AB082" -> 67139
      [] name = "LINEAR A SIGN AB085" -> 67140
      [] name = "LINEAR A SIGN AB086" -> 67141
      [] name = "LINEAR A SIGN AB087" -> 67142
      [] name = "LINEAR A SIGN A100-102" -> 67143
      [] name = "LINEAR A SIGN AB118" -> 67144
      [] name = "LINEAR A SIGN AB120" -> 67145
      [] name = "LINEAR A SIGN A120B" -> 67146
      [] name = "LINEAR A SIGN AB122" -> 67147
      [] name = "LINEAR A SIGN AB123" -> 67148
      [] name = "LINEAR A SIGN AB131A" -> 67149
      [] name = "LINEAR A SIGN AB131B" -> 67150
      [] name = "LINEAR A SIGN A131C" -> 67151
      [] name = "LINEAR A SIGN AB164" -> 67152
      [] name = "LINEAR A SIGN AB171" -> 67153
      [] name = "LINEAR A SIGN AB180" -> 67154
      [] name = "LINEAR A SIGN AB188" -> 67155
      [] name = "LINEAR A SIGN AB191" -> 67156
      [] name = "LINEAR A SIGN A301" -> 67157
      [] name = "LINEAR A SIGN A302" -> 67158
      [] name = "LINEAR A SIGN A303" -> 67159
      [] name = "LINEAR A SIGN A304" -> 67160
      [] name = "LINEAR A SIGN A305" -> 67161
      [] name = "LINEAR A SIGN A306" -> 67162
      [] name = "LINEAR A SIGN A307" -> 67163
      [] name = "LINEAR A SIGN A308" -> 67164
      [] name = "LINEAR A SIGN A309A" -> 67165
      [] name = "LINEAR A SIGN A309B" -> 67166
      [] name = "LINEAR A SIGN A309C" -> 67167
      [] name = "LINEAR A SIGN A310" -> 67168
      [] name = "LINEAR A SIGN A311" -> 67169
      [] name = "LINEAR A SIGN A312" -> 67170
      [] name = "LINEAR A SIGN A313A" -> 67171
      [] name = "LINEAR A SIGN A313B" -> 67172
      [] name = "LINEAR A SIGN A313C" -> 67173
      [] name = "LINEAR A SIGN A314" -> 67174
      [] name = "LINEAR A SIGN A315" -> 67175
      [] name = "LINEAR A SIGN A316" -> 67176
      [] name = "LINEAR A SIGN A317" -> 67177
      [] name = "LINEAR A SIGN A318" -> 67178
      [] name = "LINEAR A SIGN A319" -> 67179
      [] name = "LINEAR A SIGN A320" -> 67180
      [] name = "LINEAR A SIGN A321" -> 67181
      [] name = "LINEAR A SIGN A322" -> 67182
      [] name = "LINEAR A SIGN A323" -> 67183
      [] name = "LINEAR A SIGN A324" -> 67184
      [] name = "LINEAR A SIGN A325" -> 67185
      [] name = "LINEAR A SIGN A326" -> 67186
      [] name = "LINEAR A SIGN A327" -> 67187
      [] name = "LINEAR A SIGN A328" -> 67188
      [] name = "LINEAR A SIGN A329" -> 67189
      [] name = "LINEAR A SIGN A330" -> 67190
      [] name = "LINEAR A SIGN A331" -> 67191
      [] name = "LINEAR A SIGN A332" -> 67192
      [] name = "LINEAR A SIGN A333" -> 67193
      [] name = "LINEAR A SIGN A334" -> 67194
      [] name = "LINEAR A SIGN A335" -> 67195
      [] name = "LINEAR A SIGN A336" -> 67196
      [] name = "LINEAR A SIGN A337" -> 67197
      [] name = "LINEAR A SIGN A338" -> 67198
      [] name = "LINEAR A SIGN A339" -> 67199
      [] name = "LINEAR A SIGN A340" -> 67200
      [] name = "LINEAR A SIGN A341" -> 67201
      [] name = "LINEAR A SIGN A342" -> 67202
      [] name = "LINEAR A SIGN A343" -> 67203
      [] name = "LINEAR A SIGN A344" -> 67204
      [] name = "LINEAR A SIGN A345" -> 67205
      [] name = "LINEAR A SIGN A346" -> 67206
      [] name = "LINEAR A SIGN A347" -> 67207
      [] name = "LINEAR A SIGN A348" -> 67208
      [] name = "LINEAR A SIGN A349" -> 67209
      [] name = "LINEAR A SIGN A350" -> 67210
      [] name = "LINEAR A SIGN A351" -> 67211
      [] name = "LINEAR A SIGN A352" -> 67212
      [] name = "LINEAR A SIGN A353" -> 67213
      [] name = "LINEAR A SIGN A354" -> 67214
      [] name = "LINEAR A SIGN A355" -> 67215
      [] name = "LINEAR A SIGN A356" -> 67216
      [] name = "LINEAR A SIGN A357" -> 67217
      [] name = "LINEAR A SIGN A358" -> 67218
      [] name = "LINEAR A SIGN A359" -> 67219
      [] name = "LINEAR A SIGN A360" -> 67220
      [] name = "LINEAR A SIGN A361" -> 67221
      [] name = "LINEAR A SIGN A362" -> 67222
      [] name = "LINEAR A SIGN A363" -> 67223
      [] name = "LINEAR A SIGN A364" -> 67224
      [] name = "LINEAR A SIGN A365" -> 67225
      [] name = "LINEAR A SIGN A366" -> 67226
      [] name = "LINEAR A SIGN A367" -> 67227
      [] name = "LINEAR A SIGN A368" -> 67228
      [] name = "LINEAR A SIGN A369" -> 67229
      [] name = "LINEAR A SIGN A370" -> 67230
      [] name = "LINEAR A SIGN A371" -> 67231
      [] name = "LINEAR A SIGN A400-VAS" -> 67232
      [] name = "LINEAR A SIGN A401-VAS" -> 67233
      [] name = "LINEAR A SIGN A402-VAS" -> 67234
      [] name = "LINEAR A SIGN A403-VAS" -> 67235
      [] name = "LINEAR A SIGN A404-VAS" -> 67236
      [] name = "LINEAR A SIGN A405-VAS" -> 67237
      [] name = "LINEAR A SIGN A406-VAS" -> 67238
      [] name = "LINEAR A SIGN A407-VAS" -> 67239
      [] name = "LINEAR A SIGN A408-VAS" -> 67240
      [] name = "LINEAR A SIGN A409-VAS" -> 67241
      [] name = "LINEAR A SIGN A410-VAS" -> 67242
      [] name = "LINEAR A SIGN A411-VAS" -> 67243
      [] name = "LINEAR A SIGN A412-VAS" -> 67244
      [] name = "LINEAR A SIGN A413-VAS" -> 67245
      [] name = "LINEAR A SIGN A414-VAS" -> 67246
      [] name = "LINEAR A SIGN A415-VAS" -> 67247
      [] name = "LINEAR A SIGN A416-VAS" -> 67248
      [] name = "LINEAR A SIGN A417-VAS" -> 67249
      [] name = "LINEAR A SIGN A418-VAS" -> 67250
      [] name = "LINEAR A SIGN A501" -> 67251
      [] name = "LINEAR A SIGN A502" -> 67252
      [] name = "LINEAR A SIGN A503" -> 67253
      [] name = "LINEAR A SIGN A504" -> 67254
      [] name = "LINEAR A SIGN A505" -> 67255
      [] name = "LINEAR A SIGN A506" -> 67256
      [] name = "LINEAR A SIGN A508" -> 67257
      [] name = "LINEAR A SIGN A509" -> 67258
      [] name = "LINEAR A SIGN A510" -> 67259
      [] name = "LINEAR A SIGN A511" -> 67260
      [] name = "LINEAR A SIGN A512" -> 67261
      [] name = "LINEAR A SIGN A513" -> 67262
      [] name = "LINEAR A SIGN A515" -> 67263
      [] name = "LINEAR A SIGN A516" -> 67264
      [] name = "LINEAR A SIGN A520" -> 67265
      [] name = "LINEAR A SIGN A521" -> 67266
      [] name = "LINEAR A SIGN A523" -> 67267
      [] name = "LINEAR A SIGN A524" -> 67268
      [] name = "LINEAR A SIGN A525" -> 67269
      [] name = "LINEAR A SIGN A526" -> 67270
      [] name = "LINEAR A SIGN A527" -> 67271
      [] name = "LINEAR A SIGN A528" -> 67272
      [] name = "LINEAR A SIGN A529" -> 67273
      [] name = "LINEAR A SIGN A530" -> 67274
      [] name = "LINEAR A SIGN A531" -> 67275
      [] name = "LINEAR A SIGN A532" -> 67276
      [] name = "LINEAR A SIGN A534" -> 67277
      [] name = "LINEAR A SIGN A535" -> 67278
      [] name = "LINEAR A SIGN A536" -> 67279
      [] name = "LINEAR A SIGN A537" -> 67280
      [] name = "LINEAR A SIGN A538" -> 67281
      [] name = "LINEAR A SIGN A539" -> 67282
      [] name = "LINEAR A SIGN A540" -> 67283
      [] name = "LINEAR A SIGN A541" -> 67284
      [] name = "LINEAR A SIGN A542" -> 67285
      [] name = "LINEAR A SIGN A545" -> 67286
      [] name = "LINEAR A SIGN A547" -> 67287
      [] name = "LINEAR A SIGN A548" -> 67288
      [] name = "LINEAR A SIGN A549" -> 67289
      [] name = "LINEAR A SIGN A550" -> 67290
      [] name = "LINEAR A SIGN A551" -> 67291
      [] name = "LINEAR A SIGN A552" -> 67292
      [] name = "LINEAR A SIGN A553" -> 67293
      [] name = "LINEAR A SIGN A554" -> 67294
      [] name = "LINEAR A SIGN A555" -> 67295
      [] name = "LINEAR A SIGN A556" -> 67296
      [] name = "LINEAR A SIGN A557" -> 67297
      [] name = "LINEAR A SIGN A559" -> 67298
      [] name = "LINEAR A SIGN A563" -> 67299
      [] name = "LINEAR A SIGN A564" -> 67300
      [] name = "LINEAR A SIGN A565" -> 67301
      [] name = "LINEAR A SIGN A566" -> 67302
      [] name = "LINEAR A SIGN A568" -> 67303
      [] name = "LINEAR A SIGN A569" -> 67304
      [] name = "LINEAR A SIGN A570" -> 67305
      [] name = "LINEAR A SIGN A571" -> 67306
      [] name = "LINEAR A SIGN A572" -> 67307
      [] name = "LINEAR A SIGN A573" -> 67308
      [] name = "LINEAR A SIGN A574" -> 67309
      [] name = "LINEAR A SIGN A575" -> 67310
      [] name = "LINEAR A SIGN A576" -> 67311
      [] name = "LINEAR A SIGN A577" -> 67312
      [] name = "LINEAR A SIGN A578" -> 67313
      [] name = "LINEAR A SIGN A579" -> 67314
      [] name = "LINEAR A SIGN A580" -> 67315
      [] name = "LINEAR A SIGN A581" -> 67316
      [] name = "LINEAR A SIGN A582" -> 67317
      [] name = "LINEAR A SIGN A583" -> 67318
      [] name = "LINEAR A SIGN A584" -> 67319
      [] name = "LINEAR A SIGN A585" -> 67320
      [] name = "LINEAR A SIGN A586" -> 67321
      [] name = "LINEAR A SIGN A587" -> 67322
      [] name = "LINEAR A SIGN A588" -> 67323
      [] name = "LINEAR A SIGN A589" -> 67324
      [] name = "LINEAR A SIGN A591" -> 67325
      [] name = "LINEAR A SIGN A592" -> 67326
      [] name = "LINEAR A SIGN A594" -> 67327
      [] name = "LINEAR A SIGN A595" -> 67328
      [] name = "LINEAR A SIGN A596" -> 67329
      [] name = "LINEAR A SIGN A598" -> 67330
      [] name = "LINEAR A SIGN A600" -> 67331
      [] name = "LINEAR A SIGN A601" -> 67332
      [] name = "LINEAR A SIGN A602" -> 67333
      [] name = "LINEAR A SIGN A603" -> 67334
      [] name = "LINEAR A SIGN A604" -> 67335
      [] name = "LINEAR A SIGN A606" -> 67336
      [] name = "LINEAR A SIGN A608" -> 67337
      [] name = "LINEAR A SIGN A609" -> 67338
      [] name = "LINEAR A SIGN A610" -> 67339
      [] name = "LINEAR A SIGN A611" -> 67340
      [] name = "LINEAR A SIGN A612" -> 67341
      [] name = "LINEAR A SIGN A613" -> 67342
      [] name = "LINEAR A SIGN A614" -> 67343
      [] name = "LINEAR A SIGN A615" -> 67344
      [] name = "LINEAR A SIGN A616" -> 67345
      [] name = "LINEAR A SIGN A617" -> 67346
      [] name = "LINEAR A SIGN A618" -> 67347
      [] name = "LINEAR A SIGN A619" -> 67348
      [] name = "LINEAR A SIGN A620" -> 67349
      [] name = "LINEAR A SIGN A621" -> 67350
      [] name = "LINEAR A SIGN A622" -> 67351
      [] name = "LINEAR A SIGN A623" -> 67352
      [] name = "LINEAR A SIGN A624" -> 67353
      [] name = "LINEAR A SIGN A626" -> 67354
      [] name = "LINEAR A SIGN A627" -> 67355
      [] name = "LINEAR A SIGN A628" -> 67356
      [] name = "LINEAR A SIGN A629" -> 67357
      [] name = "LINEAR A SIGN A634" -> 67358
      [] name = "LINEAR A SIGN A637" -> 67359
      [] name = "LINEAR A SIGN A638" -> 67360
      [] name = "LINEAR A SIGN A640" -> 67361
      [] name = "LINEAR A SIGN A642" -> 67362
      [] name = "LINEAR A SIGN A643" -> 67363
      [] name = "LINEAR A SIGN A644" -> 67364
      [] name = "LINEAR A SIGN A645" -> 67365
      [] name = "LINEAR A SIGN A646" -> 67366
      [] name = "LINEAR A SIGN A648" -> 67367
      [] name = "LINEAR A SIGN A649" -> 67368
      [] name = "LINEAR A SIGN A651" -> 67369
      [] name = "LINEAR A SIGN A652" -> 67370
      [] name = "LINEAR A SIGN A653" -> 67371
      [] name = "LINEAR A SIGN A654" -> 67372
      [] name = "LINEAR A SIGN A655" -> 67373
      [] name = "LINEAR A SIGN A656" -> 67374
      [] name = "LINEAR A SIGN A657" -> 67375
      [] name = "LINEAR A SIGN A658" -> 67376
      [] name = "LINEAR A SIGN A659" -> 67377
      [] name = "LINEAR A SIGN A660" -> 67378
      [] name = "LINEAR A SIGN A661" -> 67379
      [] name = "LINEAR A SIGN A662" -> 67380
      [] name = "LINEAR A SIGN A663" -> 67381
      [] name = "LINEAR A SIGN A664" -> 67382
      [] name = "LINEAR A SIGN A701 A" -> 67392
      [] name = "LINEAR A SIGN A702 B" -> 67393
      [] name = "LINEAR A SIGN A703 D" -> 67394
      [] name = "LINEAR A SIGN A704 E" -> 67395
      [] name = "LINEAR A SIGN A705 F" -> 67396
      [] name = "LINEAR A SIGN A706 H" -> 67397
      [] name = "LINEAR A SIGN A707 J" -> 67398
      [] name = "LINEAR A SIGN A708 K" -> 67399
      [] name = "LINEAR A SIGN A709 L" -> 67400
      [] name = "LINEAR A SIGN A709-2 L2" -> 67401
      [] name = "LINEAR A SIGN A709-3 L3" -> 67402
      [] name = "LINEAR A SIGN A709-4 L4" -> 67403
      [] name = "LINEAR A SIGN A709-6 L6" -> 67404
      [] name = "LINEAR A SIGN A710 W" -> 67405
      [] name = "LINEAR A SIGN A711 X" -> 67406
      [] name = "LINEAR A SIGN A712 Y" -> 67407
      [] name = "LINEAR A SIGN A713 OMEGA" -> 67408
      [] name = "LINEAR A SIGN A714 ABB" -> 67409
      [] name = "LINEAR A SIGN A715 BB" -> 67410
      [] name = "LINEAR A SIGN A717 DD" -> 67411
      [] name = "LINEAR A SIGN A726 EYYY" -> 67412
      [] name = "LINEAR A SIGN A732 JE" -> 67413
      [] name = "LINEAR A SIGN A800" -> 67424
      [] name = "LINEAR A SIGN A801" -> 67425
      [] name = "LINEAR A SIGN A802" -> 67426
      [] name = "LINEAR A SIGN A803" -> 67427
      [] name = "LINEAR A SIGN A804" -> 67428
      [] name = "LINEAR A SIGN A805" -> 67429
      [] name = "LINEAR A SIGN A806" -> 67430
      [] name = "LINEAR A SIGN A807" -> 67431
      [] name = "MODIFIER LETTER SMALL CAPITAL AA" -> 67456
      [] name = "MODIFIER LETTER SUPERSCRIPT TRIANGULAR COLON" -> 67457
      [] name = "MODIFIER LETTER SUPERSCRIPT HALF TRIANGULAR COLON" -> 67458
      [] name = "MODIFIER LETTER SMALL AE" -> 67459
      [] name = "MODIFIER LETTER SMALL CAPITAL B" -> 67460
      [] name = "MODIFIER LETTER SMALL B WITH HOOK" -> 67461
      [] name = "MODIFIER LETTER SMALL DZ DIGRAPH" -> 67463
      [] name = "MODIFIER LETTER SMALL DZ DIGRAPH WITH RETROFLEX HOOK" -> 67464
      [] name = "MODIFIER LETTER SMALL DZ DIGRAPH WITH CURL" -> 67465
      [] name = "MODIFIER LETTER SMALL DEZH DIGRAPH" -> 67466
      [] name = "MODIFIER LETTER SMALL D WITH TAIL" -> 67467
      [] name = "MODIFIER LETTER SMALL D WITH HOOK" -> 67468
      [] name = "MODIFIER LETTER SMALL D WITH HOOK AND TAIL" -> 67469
      [] name = "MODIFIER LETTER SMALL REVERSED E" -> 67470
      [] name = "MODIFIER LETTER SMALL CLOSED REVERSED OPEN E" -> 67471
      [] name = "MODIFIER LETTER SMALL FENG DIGRAPH" -> 67472
      [] name = "MODIFIER LETTER SMALL RAMS HORN" -> 67473
      [] name = "MODIFIER LETTER SMALL CAPITAL G" -> 67474
      [] name = "MODIFIER LETTER SMALL G WITH HOOK" -> 67475
      [] name = "MODIFIER LETTER SMALL CAPITAL G WITH HOOK" -> 67476
      [] name = "MODIFIER LETTER SMALL H WITH STROKE" -> 67477
      [] name = "MODIFIER LETTER SMALL CAPITAL H" -> 67478
      [] name = "MODIFIER LETTER SMALL HENG WITH HOOK" -> 67479
      [] name = "MODIFIER LETTER SMALL DOTLESS J WITH STROKE AND HOOK" -> 67480
      [] name = "MODIFIER LETTER SMALL LS DIGRAPH" -> 67481
      [] name = "MODIFIER LETTER SMALL LZ DIGRAPH" -> 67482
      [] name = "MODIFIER LETTER SMALL L WITH BELT" -> 67483
      [] name = "MODIFIER LETTER SMALL CAPITAL L WITH BELT" -> 67484
      [] name = "MODIFIER LETTER SMALL L WITH RETROFLEX HOOK AND BELT" -> 67485
      [] name = "MODIFIER LETTER SMALL LEZH" -> 67486
      [] name = "MODIFIER LETTER SMALL LEZH WITH RETROFLEX HOOK" -> 67487
      [] name = "MODIFIER LETTER SMALL TURNED Y" -> 67488
      [] name = "MODIFIER LETTER SMALL TURNED Y WITH BELT" -> 67489
      [] name = "MODIFIER LETTER SMALL O WITH STROKE" -> 67490
      [] name = "MODIFIER LETTER SMALL CAPITAL OE" -> 67491
      [] name = "MODIFIER LETTER SMALL CLOSED OMEGA" -> 67492
      [] name = "MODIFIER LETTER SMALL Q" -> 67493
      [] name = "MODIFIER LETTER SMALL TURNED R WITH LONG LEG" -> 67494
      [] name = "MODIFIER LETTER SMALL TURNED R WITH LONG LEG AND RETROFLEX HOOK" -> 67495
      [] name = "MODIFIER LETTER SMALL R WITH TAIL" -> 67496
      [] name = "MODIFIER LETTER SMALL R WITH FISHHOOK" -> 67497
      [] name = "MODIFIER LETTER SMALL CAPITAL R" -> 67498
      [] name = "MODIFIER LETTER SMALL TC DIGRAPH WITH CURL" -> 67499
      [] name = "MODIFIER LETTER SMALL TS DIGRAPH" -> 67500
      [] name = "MODIFIER LETTER SMALL TS DIGRAPH WITH RETROFLEX HOOK" -> 67501
      [] name = "MODIFIER LETTER SMALL TESH DIGRAPH" -> 67502
      [] name = "MODIFIER LETTER SMALL T WITH RETROFLEX HOOK" -> 67503
      [] name = "MODIFIER LETTER SMALL V WITH RIGHT HOOK" -> 67504
      [] name = "MODIFIER LETTER SMALL CAPITAL Y" -> 67506
      [] name = "MODIFIER LETTER GLOTTAL STOP WITH STROKE" -> 67507
      [] name = "MODIFIER LETTER REVERSED GLOTTAL STOP WITH STROKE" -> 67508
      [] name = "MODIFIER LETTER BILABIAL CLICK" -> 67509
      [] name = "MODIFIER LETTER DENTAL CLICK" -> 67510
      [] name = "MODIFIER LETTER LATERAL CLICK" -> 67511
      [] name = "MODIFIER LETTER ALVEOLAR CLICK" -> 67512
      [] name = "MODIFIER LETTER RETROFLEX CLICK WITH RETROFLEX HOOK" -> 67513
      [] name = "MODIFIER LETTER SMALL S WITH CURL" -> 67514
      [] name = "CYPRIOT SYLLABLE A" -> 67584
      [] name = "CYPRIOT SYLLABLE E" -> 67585
      [] name = "CYPRIOT SYLLABLE I" -> 67586
      [] name = "CYPRIOT SYLLABLE O" -> 67587
      [] name = "CYPRIOT SYLLABLE U" -> 67588
      [] name = "CYPRIOT SYLLABLE JA" -> 67589
      [] name = "CYPRIOT SYLLABLE JO" -> 67592
      [] name = "CYPRIOT SYLLABLE KA" -> 67594
      [] name = "CYPRIOT SYLLABLE KE" -> 67595
      [] name = "CYPRIOT SYLLABLE KI" -> 67596
      [] name = "CYPRIOT SYLLABLE KO" -> 67597
      [] name = "CYPRIOT SYLLABLE KU" -> 67598
      [] name = "CYPRIOT SYLLABLE LA" -> 67599
      [] name = "CYPRIOT SYLLABLE LE" -> 67600
      [] name = "CYPRIOT SYLLABLE LI" -> 67601
      [] name = "CYPRIOT SYLLABLE LO" -> 67602
      [] name = "CYPRIOT SYLLABLE LU" -> 67603
      [] name = "CYPRIOT SYLLABLE MA" -> 67604
      [] name = "CYPRIOT SYLLABLE ME" -> 67605
      [] name = "CYPRIOT SYLLABLE MI" -> 67606
      [] name = "CYPRIOT SYLLABLE MO" -> 67607
      [] name = "CYPRIOT SYLLABLE MU" -> 67608
      [] name = "CYPRIOT SYLLABLE NA" -> 67609
      [] name = "CYPRIOT SYLLABLE NE" -> 67610
      [] name = "CYPRIOT SYLLABLE NI" -> 67611
      [] name = "CYPRIOT SYLLABLE NO" -> 67612
      [] name = "CYPRIOT SYLLABLE NU" -> 67613
      [] name = "CYPRIOT SYLLABLE PA" -> 67614
      [] name = "CYPRIOT SYLLABLE PE" -> 67615
      [] name = "CYPRIOT SYLLABLE PI" -> 67616
      [] name = "CYPRIOT SYLLABLE PO" -> 67617
      [] name = "CYPRIOT SYLLABLE PU" -> 67618
      [] name = "CYPRIOT SYLLABLE RA" -> 67619
      [] name = "CYPRIOT SYLLABLE RE" -> 67620
      [] name = "CYPRIOT SYLLABLE RI" -> 67621
      [] name = "CYPRIOT SYLLABLE RO" -> 67622
      [] name = "CYPRIOT SYLLABLE RU" -> 67623
      [] name = "CYPRIOT SYLLABLE SA" -> 67624
      [] name = "CYPRIOT SYLLABLE SE" -> 67625
      [] name = "CYPRIOT SYLLABLE SI" -> 67626
      [] name = "CYPRIOT SYLLABLE SO" -> 67627
      [] name = "CYPRIOT SYLLABLE SU" -> 67628
      [] name = "CYPRIOT SYLLABLE TA" -> 67629
      [] name = "CYPRIOT SYLLABLE TE" -> 67630
      [] name = "CYPRIOT SYLLABLE TI" -> 67631
      [] name = "CYPRIOT SYLLABLE TO" -> 67632
      [] name = "CYPRIOT SYLLABLE TU" -> 67633
      [] name = "CYPRIOT SYLLABLE WA" -> 67634
      [] name = "CYPRIOT SYLLABLE WE" -> 67635
      [] name = "CYPRIOT SYLLABLE WI" -> 67636
      [] name = "CYPRIOT SYLLABLE WO" -> 67637
      [] name = "CYPRIOT SYLLABLE XA" -> 67639
      [] name = "CYPRIOT SYLLABLE XE" -> 67640
      [] name = "CYPRIOT SYLLABLE ZA" -> 67644
      [] name = "CYPRIOT SYLLABLE ZO" -> 67647
      [] name = "IMPERIAL ARAMAIC LETTER ALEPH" -> 67648
      [] name = "IMPERIAL ARAMAIC LETTER BETH" -> 67649
      [] name = "IMPERIAL ARAMAIC LETTER GIMEL" -> 67650
      [] name = "IMPERIAL ARAMAIC LETTER DALETH" -> 67651
      [] name = "IMPERIAL ARAMAIC LETTER HE" -> 67652
      [] name = "IMPERIAL ARAMAIC LETTER WAW" -> 67653
      [] name = "IMPERIAL ARAMAIC LETTER ZAYIN" -> 67654
      [] name = "IMPERIAL ARAMAIC LETTER HETH" -> 67655
      [] name = "IMPERIAL ARAMAIC LETTER TETH" -> 67656
      [] name = "IMPERIAL ARAMAIC LETTER YODH" -> 67657
      [] name = "IMPERIAL ARAMAIC LETTER KAPH" -> 67658
      [] name = "IMPERIAL ARAMAIC LETTER LAMEDH" -> 67659
      [] name = "IMPERIAL ARAMAIC LETTER MEM" -> 67660
      [] name = "IMPERIAL ARAMAIC LETTER NUN" -> 67661
      [] name = "IMPERIAL ARAMAIC LETTER SAMEKH" -> 67662
      [] name = "IMPERIAL ARAMAIC LETTER AYIN" -> 67663
      [] name = "IMPERIAL ARAMAIC LETTER PE" -> 67664
      [] name = "IMPERIAL ARAMAIC LETTER SADHE" -> 67665
      [] name = "IMPERIAL ARAMAIC LETTER QOPH" -> 67666
      [] name = "IMPERIAL ARAMAIC LETTER RESH" -> 67667
      [] name = "IMPERIAL ARAMAIC LETTER SHIN" -> 67668
      [] name = "IMPERIAL ARAMAIC LETTER TAW" -> 67669
      [] name = "IMPERIAL ARAMAIC SECTION SIGN" -> 67671
      [] name = "IMPERIAL ARAMAIC NUMBER ONE" -> 67672
      [] name = "IMPERIAL ARAMAIC NUMBER TWO" -> 67673
      [] name = "IMPERIAL ARAMAIC NUMBER THREE" -> 67674
      [] name = "IMPERIAL ARAMAIC NUMBER TEN" -> 67675
      [] name = "IMPERIAL ARAMAIC NUMBER TWENTY" -> 67676
      [] name = "IMPERIAL ARAMAIC NUMBER ONE HUNDRED" -> 67677
      [] name = "IMPERIAL ARAMAIC NUMBER ONE THOUSAND" -> 67678
      [] name = "IMPERIAL ARAMAIC NUMBER TEN THOUSAND" -> 67679
      [] name = "PALMYRENE LETTER ALEPH" -> 67680
      [] name = "PALMYRENE LETTER BETH" -> 67681
      [] name = "PALMYRENE LETTER GIMEL" -> 67682
      [] name = "PALMYRENE LETTER DALETH" -> 67683
      [] name = "PALMYRENE LETTER HE" -> 67684
      [] name = "PALMYRENE LETTER WAW" -> 67685
      [] name = "PALMYRENE LETTER ZAYIN" -> 67686
      [] name = "PALMYRENE LETTER HETH" -> 67687
      [] name = "PALMYRENE LETTER TETH" -> 67688
      [] name = "PALMYRENE LETTER YODH" -> 67689
      [] name = "PALMYRENE LETTER KAPH" -> 67690
      [] name = "PALMYRENE LETTER LAMEDH" -> 67691
      [] name = "PALMYRENE LETTER MEM" -> 67692
      [] name = "PALMYRENE LETTER FINAL NUN" -> 67693
      [] name = "PALMYRENE LETTER NUN" -> 67694
      [] name = "PALMYRENE LETTER SAMEKH" -> 67695
      [] name = "PALMYRENE LETTER AYIN" -> 67696
      [] name = "PALMYRENE LETTER PE" -> 67697
      [] name = "PALMYRENE LETTER SADHE" -> 67698
      [] name = "PALMYRENE LETTER QOPH" -> 67699
      [] name = "PALMYRENE LETTER RESH" -> 67700
      [] name = "PALMYRENE LETTER SHIN" -> 67701
      [] name = "PALMYRENE LETTER TAW" -> 67702
      [] name = "PALMYRENE LEFT-POINTING FLEURON" -> 67703
      [] name = "PALMYRENE RIGHT-POINTING FLEURON" -> 67704
      [] name = "PALMYRENE NUMBER ONE" -> 67705
      [] name = "PALMYRENE NUMBER TWO" -> 67706
      [] name = "PALMYRENE NUMBER THREE" -> 67707
      [] name = "PALMYRENE NUMBER FOUR" -> 67708
      [] name = "PALMYRENE NUMBER FIVE" -> 67709
      [] name = "PALMYRENE NUMBER TEN" -> 67710
      [] name = "PALMYRENE NUMBER TWENTY" -> 67711
      [] name = "NABATAEAN LETTER FINAL ALEPH" -> 67712
      [] name = "NABATAEAN LETTER ALEPH" -> 67713
      [] name = "NABATAEAN LETTER FINAL BETH" -> 67714
      [] name = "NABATAEAN LETTER BETH" -> 67715
      [] name = "NABATAEAN LETTER GIMEL" -> 67716
      [] name = "NABATAEAN LETTER DALETH" -> 67717
      [] name = "NABATAEAN LETTER FINAL HE" -> 67718
      [] name = "NABATAEAN LETTER HE" -> 67719
      [] name = "NABATAEAN LETTER WAW" -> 67720
      [] name = "NABATAEAN LETTER ZAYIN" -> 67721
      [] name = "NABATAEAN LETTER HETH" -> 67722
      [] name = "NABATAEAN LETTER TETH" -> 67723
      [] name = "NABATAEAN LETTER FINAL YODH" -> 67724
      [] name = "NABATAEAN LETTER YODH" -> 67725
      [] name = "NABATAEAN LETTER FINAL KAPH" -> 67726
      [] name = "NABATAEAN LETTER KAPH" -> 67727
      [] name = "NABATAEAN LETTER FINAL LAMEDH" -> 67728
      [] name = "NABATAEAN LETTER LAMEDH" -> 67729
      [] name = "NABATAEAN LETTER FINAL MEM" -> 67730
      [] name = "NABATAEAN LETTER MEM" -> 67731
      [] name = "NABATAEAN LETTER FINAL NUN" -> 67732
      [] name = "NABATAEAN LETTER NUN" -> 67733
      [] name = "NABATAEAN LETTER SAMEKH" -> 67734
      [] name = "NABATAEAN LETTER AYIN" -> 67735
      [] name = "NABATAEAN LETTER PE" -> 67736
      [] name = "NABATAEAN LETTER SADHE" -> 67737
      [] name = "NABATAEAN LETTER QOPH" -> 67738
      [] name = "NABATAEAN LETTER RESH" -> 67739
      [] name = "NABATAEAN LETTER FINAL SHIN" -> 67740
      [] name = "NABATAEAN LETTER SHIN" -> 67741
      [] name = "NABATAEAN LETTER TAW" -> 67742
      [] name = "NABATAEAN NUMBER ONE" -> 67751
      [] name = "NABATAEAN NUMBER TWO" -> 67752
      [] name = "NABATAEAN NUMBER THREE" -> 67753
      [] name = "NABATAEAN NUMBER FOUR" -> 67754
      [] name = "NABATAEAN CRUCIFORM NUMBER FOUR" -> 67755
      [] name = "NABATAEAN NUMBER FIVE" -> 67756
      [] name = "NABATAEAN NUMBER TEN" -> 67757
      [] name = "NABATAEAN NUMBER TWENTY" -> 67758
      [] name = "NABATAEAN NUMBER ONE HUNDRED" -> 67759
      [] name = "HATRAN LETTER ALEPH" -> 67808
      [] name = "HATRAN LETTER BETH" -> 67809
      [] name = "HATRAN LETTER GIMEL" -> 67810
      [] name = "HATRAN LETTER DALETH-RESH" -> 67811
      [] name = "HATRAN LETTER HE" -> 67812
      [] name = "HATRAN LETTER WAW" -> 67813
      [] name = "HATRAN LETTER ZAYN" -> 67814
      [] name = "HATRAN LETTER HETH" -> 67815
      [] name = "HATRAN LETTER TETH" -> 67816
      [] name = "HATRAN LETTER YODH" -> 67817
      [] name = "HATRAN LETTER KAPH" -> 67818
      [] name = "HATRAN LETTER LAMEDH" -> 67819
      [] name = "HATRAN LETTER MEM" -> 67820
      [] name = "HATRAN LETTER NUN" -> 67821
      [] name = "HATRAN LETTER SAMEKH" -> 67822
      [] name = "HATRAN LETTER AYN" -> 67823
      [] name = "HATRAN LETTER PE" -> 67824
      [] name = "HATRAN LETTER SADHE" -> 67825
      [] name = "HATRAN LETTER QOPH" -> 67826
      [] name = "HATRAN LETTER SHIN" -> 67828
      [] name = "HATRAN LETTER TAW" -> 67829
      [] name = "HATRAN NUMBER ONE" -> 67835
      [] name = "HATRAN NUMBER FIVE" -> 67836
      [] name = "HATRAN NUMBER TEN" -> 67837
      [] name = "HATRAN NUMBER TWENTY" -> 67838
      [] name = "HATRAN NUMBER ONE HUNDRED" -> 67839
      [] name = "PHOENICIAN LETTER ALF" -> 67840
      [] name = "PHOENICIAN LETTER BET" -> 67841
      [] name = "PHOENICIAN LETTER GAML" -> 67842
      [] name = "PHOENICIAN LETTER DELT" -> 67843
      [] name = "PHOENICIAN LETTER HE" -> 67844
      [] name = "PHOENICIAN LETTER WAU" -> 67845
      [] name = "PHOENICIAN LETTER ZAI" -> 67846
      [] name = "PHOENICIAN LETTER HET" -> 67847
      [] name = "PHOENICIAN LETTER TET" -> 67848
      [] name = "PHOENICIAN LETTER YOD" -> 67849
      [] name = "PHOENICIAN LETTER KAF" -> 67850
      [] name = "PHOENICIAN LETTER LAMD" -> 67851
      [] name = "PHOENICIAN LETTER MEM" -> 67852
      [] name = "PHOENICIAN LETTER NUN" -> 67853
      [] name = "PHOENICIAN LETTER SEMK" -> 67854
      [] name = "PHOENICIAN LETTER AIN" -> 67855
      [] name = "PHOENICIAN LETTER PE" -> 67856
      [] name = "PHOENICIAN LETTER SADE" -> 67857
      [] name = "PHOENICIAN LETTER QOF" -> 67858
      [] name = "PHOENICIAN LETTER ROSH" -> 67859
      [] name = "PHOENICIAN LETTER SHIN" -> 67860
      [] name = "PHOENICIAN LETTER TAU" -> 67861
      [] name = "PHOENICIAN NUMBER ONE" -> 67862
      [] name = "PHOENICIAN NUMBER TEN" -> 67863
      [] name = "PHOENICIAN NUMBER TWENTY" -> 67864
      [] name = "PHOENICIAN NUMBER ONE HUNDRED" -> 67865
      [] name = "PHOENICIAN NUMBER TWO" -> 67866
      [] name = "PHOENICIAN NUMBER THREE" -> 67867
      [] name = "PHOENICIAN WORD SEPARATOR" -> 67871
      [] name = "LYDIAN LETTER A" -> 67872
      [] name = "LYDIAN LETTER B" -> 67873
      [] name = "LYDIAN LETTER G" -> 67874
      [] name = "LYDIAN LETTER D" -> 67875
      [] name = "LYDIAN LETTER E" -> 67876
      [] name = "LYDIAN LETTER V" -> 67877
      [] name = "LYDIAN LETTER I" -> 67878
      [] name = "LYDIAN LETTER Y" -> 67879
      [] name = "LYDIAN LETTER K" -> 67880
      [] name = "LYDIAN LETTER L" -> 67881
      [] name = "LYDIAN LETTER M" -> 67882
      [] name = "LYDIAN LETTER N" -> 67883
      [] name = "LYDIAN LETTER O" -> 67884
      [] name = "LYDIAN LETTER R" -> 67885
      [] name = "LYDIAN LETTER SS" -> 67886
      [] name = "LYDIAN LETTER T" -> 67887
      [] name = "LYDIAN LETTER U" -> 67888
      [] name = "LYDIAN LETTER F" -> 67889
      [] name = "LYDIAN LETTER Q" -> 67890
      [] name = "LYDIAN LETTER S" -> 67891
      [] name = "LYDIAN LETTER TT" -> 67892
      [] name = "LYDIAN LETTER AN" -> 67893
      [] name = "LYDIAN LETTER EN" -> 67894
      [] name = "LYDIAN LETTER LY" -> 67895
      [] name = "LYDIAN LETTER NN" -> 67896
      [] name = "LYDIAN LETTER C" -> 67897
      [] name = "LYDIAN TRIANGULAR MARK" -> 67903
      [] name = "MEROITIC HIEROGLYPHIC LETTER A" -> 67968
      [] name = "MEROITIC HIEROGLYPHIC LETTER E" -> 67969
      [] name = "MEROITIC HIEROGLYPHIC LETTER I" -> 67970
      [] name = "MEROITIC HIEROGLYPHIC LETTER O" -> 67971
      [] name = "MEROITIC HIEROGLYPHIC LETTER YA" -> 67972
      [] name = "MEROITIC HIEROGLYPHIC LETTER WA" -> 67973
      [] name = "MEROITIC HIEROGLYPHIC LETTER BA" -> 67974
      [] name = "MEROITIC HIEROGLYPHIC LETTER BA-2" -> 67975
      [] name = "MEROITIC HIEROGLYPHIC LETTER PA" -> 67976
      [] name = "MEROITIC HIEROGLYPHIC LETTER MA" -> 67977
      [] name = "MEROITIC HIEROGLYPHIC LETTER NA" -> 67978
      [] name = "MEROITIC HIEROGLYPHIC LETTER NA-2" -> 67979
      [] name = "MEROITIC HIEROGLYPHIC LETTER NE" -> 67980
      [] name = "MEROITIC HIEROGLYPHIC LETTER NE-2" -> 67981
      [] name = "MEROITIC HIEROGLYPHIC LETTER RA" -> 67982
      [] name = "MEROITIC HIEROGLYPHIC LETTER RA-2" -> 67983
      [] name = "MEROITIC HIEROGLYPHIC LETTER LA" -> 67984
      [] name = "MEROITIC HIEROGLYPHIC LETTER KHA" -> 67985
      [] name = "MEROITIC HIEROGLYPHIC LETTER HHA" -> 67986
      [] name = "MEROITIC HIEROGLYPHIC LETTER SA" -> 67987
      [] name = "MEROITIC HIEROGLYPHIC LETTER SA-2" -> 67988
      [] name = "MEROITIC HIEROGLYPHIC LETTER SE" -> 67989
      [] name = "MEROITIC HIEROGLYPHIC LETTER KA" -> 67990
      [] name = "MEROITIC HIEROGLYPHIC LETTER QA" -> 67991
      [] name = "MEROITIC HIEROGLYPHIC LETTER TA" -> 67992
      [] name = "MEROITIC HIEROGLYPHIC LETTER TA-2" -> 67993
      [] name = "MEROITIC HIEROGLYPHIC LETTER TE" -> 67994
      [] name = "MEROITIC HIEROGLYPHIC LETTER TE-2" -> 67995
      [] name = "MEROITIC HIEROGLYPHIC LETTER TO" -> 67996
      [] name = "MEROITIC HIEROGLYPHIC LETTER DA" -> 67997
      [] name = "MEROITIC HIEROGLYPHIC SYMBOL VIDJ" -> 67998
      [] name = "MEROITIC HIEROGLYPHIC SYMBOL VIDJ-2" -> 67999
      [] name = "MEROITIC CURSIVE LETTER A" -> 68000
      [] name = "MEROITIC CURSIVE LETTER E" -> 68001
      [] name = "MEROITIC CURSIVE LETTER I" -> 68002
      [] name = "MEROITIC CURSIVE LETTER O" -> 68003
      [] name = "MEROITIC CURSIVE LETTER YA" -> 68004
      [] name = "MEROITIC CURSIVE LETTER WA" -> 68005
      [] name = "MEROITIC CURSIVE LETTER BA" -> 68006
      [] name = "MEROITIC CURSIVE LETTER PA" -> 68007
      [] name = "MEROITIC CURSIVE LETTER MA" -> 68008
      [] name = "MEROITIC CURSIVE LETTER NA" -> 68009
      [] name = "MEROITIC CURSIVE LETTER NE" -> 68010
      [] name = "MEROITIC CURSIVE LETTER RA" -> 68011
      [] name = "MEROITIC CURSIVE LETTER LA" -> 68012
      [] name = "MEROITIC CURSIVE LETTER KHA" -> 68013
      [] name = "MEROITIC CURSIVE LETTER HHA" -> 68014
      [] name = "MEROITIC CURSIVE LETTER SA" -> 68015
      [] name = "MEROITIC CURSIVE LETTER ARCHAIC SA" -> 68016
      [] name = "MEROITIC CURSIVE LETTER SE" -> 68017
      [] name = "MEROITIC CURSIVE LETTER KA" -> 68018
      [] name = "MEROITIC CURSIVE LETTER QA" -> 68019
      [] name = "MEROITIC CURSIVE LETTER TA" -> 68020
      [] name = "MEROITIC CURSIVE LETTER TE" -> 68021
      [] name = "MEROITIC CURSIVE LETTER TO" -> 68022
      [] name = "MEROITIC CURSIVE LETTER DA" -> 68023
      [] name = "MEROITIC CURSIVE FRACTION ELEVEN TWELFTHS" -> 68028
      [] name = "MEROITIC CURSIVE FRACTION ONE HALF" -> 68029
      [] name = "MEROITIC CURSIVE LOGOGRAM RMT" -> 68030
      [] name = "MEROITIC CURSIVE LOGOGRAM IMN" -> 68031
      [] name = "MEROITIC CURSIVE NUMBER ONE" -> 68032
      [] name = "MEROITIC CURSIVE NUMBER TWO" -> 68033
      [] name = "MEROITIC CURSIVE NUMBER THREE" -> 68034
      [] name = "MEROITIC CURSIVE NUMBER FOUR" -> 68035
      [] name = "MEROITIC CURSIVE NUMBER FIVE" -> 68036
      [] name = "MEROITIC CURSIVE NUMBER SIX" -> 68037
      [] name = "MEROITIC CURSIVE NUMBER SEVEN" -> 68038
      [] name = "MEROITIC CURSIVE NUMBER EIGHT" -> 68039
      [] name = "MEROITIC CURSIVE NUMBER NINE" -> 68040
      [] name = "MEROITIC CURSIVE NUMBER TEN" -> 68041
      [] name = "MEROITIC CURSIVE NUMBER TWENTY" -> 68042
      [] name = "MEROITIC CURSIVE NUMBER THIRTY" -> 68043
      [] name = "MEROITIC CURSIVE NUMBER FORTY" -> 68044
      [] name = "MEROITIC CURSIVE NUMBER FIFTY" -> 68045
      [] name = "MEROITIC CURSIVE NUMBER SIXTY" -> 68046
      [] name = "MEROITIC CURSIVE NUMBER SEVENTY" -> 68047
      [] name = "MEROITIC CURSIVE NUMBER ONE HUNDRED" -> 68050
      [] name = "MEROITIC CURSIVE NUMBER TWO HUNDRED" -> 68051
      [] name = "MEROITIC CURSIVE NUMBER THREE HUNDRED" -> 68052
      [] name = "MEROITIC CURSIVE NUMBER FOUR HUNDRED" -> 68053
      [] name = "MEROITIC CURSIVE NUMBER FIVE HUNDRED" -> 68054
      [] name = "MEROITIC CURSIVE NUMBER SIX HUNDRED" -> 68055
      [] name = "MEROITIC CURSIVE NUMBER SEVEN HUNDRED" -> 68056
      [] name = "MEROITIC CURSIVE NUMBER EIGHT HUNDRED" -> 68057
      [] name = "MEROITIC CURSIVE NUMBER NINE HUNDRED" -> 68058
      [] name = "MEROITIC CURSIVE NUMBER ONE THOUSAND" -> 68059
      [] name = "MEROITIC CURSIVE NUMBER TWO THOUSAND" -> 68060
      [] name = "MEROITIC CURSIVE NUMBER THREE THOUSAND" -> 68061
      [] name = "MEROITIC CURSIVE NUMBER FOUR THOUSAND" -> 68062
      [] name = "MEROITIC CURSIVE NUMBER FIVE THOUSAND" -> 68063
      [] name = "MEROITIC CURSIVE NUMBER SIX THOUSAND" -> 68064
      [] name = "MEROITIC CURSIVE NUMBER SEVEN THOUSAND" -> 68065
      [] name = "MEROITIC CURSIVE NUMBER EIGHT THOUSAND" -> 68066
      [] name = "MEROITIC CURSIVE NUMBER NINE THOUSAND" -> 68067
      [] name = "MEROITIC CURSIVE NUMBER TEN THOUSAND" -> 68068
      [] name = "MEROITIC CURSIVE NUMBER TWENTY THOUSAND" -> 68069
      [] name = "MEROITIC CURSIVE NUMBER THIRTY THOUSAND" -> 68070
      [] name = "MEROITIC CURSIVE NUMBER FORTY THOUSAND" -> 68071
      [] name = "MEROITIC CURSIVE NUMBER FIFTY THOUSAND" -> 68072
      [] name = "MEROITIC CURSIVE NUMBER SIXTY THOUSAND" -> 68073
      [] name = "MEROITIC CURSIVE NUMBER SEVENTY THOUSAND" -> 68074
      [] name = "MEROITIC CURSIVE NUMBER EIGHTY THOUSAND" -> 68075
      [] name = "MEROITIC CURSIVE NUMBER NINETY THOUSAND" -> 68076
      [] name = "MEROITIC CURSIVE NUMBER ONE HUNDRED THOUSAND" -> 68077
      [] name = "MEROITIC CURSIVE NUMBER TWO HUNDRED THOUSAND" -> 68078
      [] name = "MEROITIC CURSIVE NUMBER THREE HUNDRED THOUSAND" -> 68079
      [] name = "MEROITIC CURSIVE NUMBER FOUR HUNDRED THOUSAND" -> 68080
      [] name = "MEROITIC CURSIVE NUMBER FIVE HUNDRED THOUSAND" -> 68081
      [] name = "MEROITIC CURSIVE NUMBER SIX HUNDRED THOUSAND" -> 68082
      [] name = "MEROITIC CURSIVE NUMBER SEVEN HUNDRED THOUSAND" -> 68083
      [] name = "MEROITIC CURSIVE NUMBER EIGHT HUNDRED THOUSAND" -> 68084
      [] name = "MEROITIC CURSIVE NUMBER NINE HUNDRED THOUSAND" -> 68085
      [] name = "MEROITIC CURSIVE FRACTION ONE TWELFTH" -> 68086
      [] name = "MEROITIC CURSIVE FRACTION TWO TWELFTHS" -> 68087
      [] name = "MEROITIC CURSIVE FRACTION THREE TWELFTHS" -> 68088
      [] name = "MEROITIC CURSIVE FRACTION FOUR TWELFTHS" -> 68089
      [] name = "MEROITIC CURSIVE FRACTION FIVE TWELFTHS" -> 68090
      [] name = "MEROITIC CURSIVE FRACTION SIX TWELFTHS" -> 68091
      [] name = "MEROITIC CURSIVE FRACTION SEVEN TWELFTHS" -> 68092
      [] name = "MEROITIC CURSIVE FRACTION EIGHT TWELFTHS" -> 68093
      [] name = "MEROITIC CURSIVE FRACTION NINE TWELFTHS" -> 68094
      [] name = "MEROITIC CURSIVE FRACTION TEN TWELFTHS" -> 68095
      [] name = "KHAROSHTHI LETTER A" -> 68096
      [] name = "KHAROSHTHI VOWEL SIGN I" -> 68097
      [] name = "KHAROSHTHI VOWEL SIGN U" -> 68098
      [] name = "KHAROSHTHI VOWEL SIGN VOCALIC R" -> 68099
      [] name = "KHAROSHTHI VOWEL SIGN E" -> 68101
      [] name = "KHAROSHTHI VOWEL SIGN O" -> 68102
      [] name = "KHAROSHTHI VOWEL LENGTH MARK" -> 68108
      [] name = "KHAROSHTHI SIGN DOUBLE RING BELOW" -> 68109
      [] name = "KHAROSHTHI SIGN ANUSVARA" -> 68110
      [] name = "KHAROSHTHI SIGN VISARGA" -> 68111
      [] name = "KHAROSHTHI LETTER KA" -> 68112
      [] name = "KHAROSHTHI LETTER KHA" -> 68113
      [] name = "KHAROSHTHI LETTER GA" -> 68114
      [] name = "KHAROSHTHI LETTER GHA" -> 68115
      [] name = "KHAROSHTHI LETTER CA" -> 68117
      [] name = "KHAROSHTHI LETTER CHA" -> 68118
      [] name = "KHAROSHTHI LETTER JA" -> 68119
      [] name = "KHAROSHTHI LETTER NYA" -> 68121
      [] name = "KHAROSHTHI LETTER TTA" -> 68122
      [] name = "KHAROSHTHI LETTER TTHA" -> 68123
      [] name = "KHAROSHTHI LETTER DDA" -> 68124
      [] name = "KHAROSHTHI LETTER DDHA" -> 68125
      [] name = "KHAROSHTHI LETTER NNA" -> 68126
      [] name = "KHAROSHTHI LETTER TA" -> 68127
      [] name = "KHAROSHTHI LETTER THA" -> 68128
      [] name = "KHAROSHTHI LETTER DA" -> 68129
      [] name = "KHAROSHTHI LETTER DHA" -> 68130
      [] name = "KHAROSHTHI LETTER NA" -> 68131
      [] name = "KHAROSHTHI LETTER PA" -> 68132
      [] name = "KHAROSHTHI LETTER PHA" -> 68133
      [] name = "KHAROSHTHI LETTER BA" -> 68134
      [] name = "KHAROSHTHI LETTER BHA" -> 68135
      [] name = "KHAROSHTHI LETTER MA" -> 68136
      [] name = "KHAROSHTHI LETTER YA" -> 68137
      [] name = "KHAROSHTHI LETTER RA" -> 68138
      [] name = "KHAROSHTHI LETTER LA" -> 68139
      [] name = "KHAROSHTHI LETTER VA" -> 68140
      [] name = "KHAROSHTHI LETTER SHA" -> 68141
      [] name = "KHAROSHTHI LETTER SSA" -> 68142
      [] name = "KHAROSHTHI LETTER SA" -> 68143
      [] name = "KHAROSHTHI LETTER ZA" -> 68144
      [] name = "KHAROSHTHI LETTER HA" -> 68145
      [] name = "KHAROSHTHI LETTER KKA" -> 68146
      [] name = "KHAROSHTHI LETTER TTTHA" -> 68147
      [] name = "KHAROSHTHI LETTER TTTA" -> 68148
      [] name = "KHAROSHTHI LETTER VHA" -> 68149
      [] name = "KHAROSHTHI SIGN BAR ABOVE" -> 68152
      [] name = "KHAROSHTHI SIGN CAUDA" -> 68153
      [] name = "KHAROSHTHI SIGN DOT BELOW" -> 68154
      [] name = "KHAROSHTHI VIRAMA" -> 68159
      [] name = "KHAROSHTHI DIGIT ONE" -> 68160
      [] name = "KHAROSHTHI DIGIT TWO" -> 68161
      [] name = "KHAROSHTHI DIGIT THREE" -> 68162
      [] name = "KHAROSHTHI DIGIT FOUR" -> 68163
      [] name = "KHAROSHTHI NUMBER TEN" -> 68164
      [] name = "KHAROSHTHI NUMBER TWENTY" -> 68165
      [] name = "KHAROSHTHI NUMBER ONE HUNDRED" -> 68166
      [] name = "KHAROSHTHI NUMBER ONE THOUSAND" -> 68167
      [] name = "KHAROSHTHI FRACTION ONE HALF" -> 68168
      [] name = "KHAROSHTHI PUNCTUATION DOT" -> 68176
      [] name = "KHAROSHTHI PUNCTUATION SMALL CIRCLE" -> 68177
      [] name = "KHAROSHTHI PUNCTUATION CIRCLE" -> 68178
      [] name = "KHAROSHTHI PUNCTUATION CRESCENT BAR" -> 68179
      [] name = "KHAROSHTHI PUNCTUATION MANGALAM" -> 68180
      [] name = "KHAROSHTHI PUNCTUATION LOTUS" -> 68181
      [] name = "KHAROSHTHI PUNCTUATION DANDA" -> 68182
      [] name = "KHAROSHTHI PUNCTUATION DOUBLE DANDA" -> 68183
      [] name = "KHAROSHTHI PUNCTUATION LINES" -> 68184
      [] name = "OLD SOUTH ARABIAN LETTER HE" -> 68192
      [] name = "OLD SOUTH ARABIAN LETTER LAMEDH" -> 68193
      [] name = "OLD SOUTH ARABIAN LETTER HETH" -> 68194
      [] name = "OLD SOUTH ARABIAN LETTER MEM" -> 68195
      [] name = "OLD SOUTH ARABIAN LETTER QOPH" -> 68196
      [] name = "OLD SOUTH ARABIAN LETTER WAW" -> 68197
      [] name = "OLD SOUTH ARABIAN LETTER SHIN" -> 68198
      [] name = "OLD SOUTH ARABIAN LETTER RESH" -> 68199
      [] name = "OLD SOUTH ARABIAN LETTER BETH" -> 68200
      [] name = "OLD SOUTH ARABIAN LETTER TAW" -> 68201
      [] name = "OLD SOUTH ARABIAN LETTER SAT" -> 68202
      [] name = "OLD SOUTH ARABIAN LETTER KAPH" -> 68203
      [] name = "OLD SOUTH ARABIAN LETTER NUN" -> 68204
      [] name = "OLD SOUTH ARABIAN LETTER KHETH" -> 68205
      [] name = "OLD SOUTH ARABIAN LETTER SADHE" -> 68206
      [] name = "OLD SOUTH ARABIAN LETTER SAMEKH" -> 68207
      [] name = "OLD SOUTH ARABIAN LETTER FE" -> 68208
      [] name = "OLD SOUTH ARABIAN LETTER ALEF" -> 68209
      [] name = "OLD SOUTH ARABIAN LETTER AYN" -> 68210
      [] name = "OLD SOUTH ARABIAN LETTER DHADHE" -> 68211
      [] name = "OLD SOUTH ARABIAN LETTER GIMEL" -> 68212
      [] name = "OLD SOUTH ARABIAN LETTER DALETH" -> 68213
      [] name = "OLD SOUTH ARABIAN LETTER GHAYN" -> 68214
      [] name = "OLD SOUTH ARABIAN LETTER TETH" -> 68215
      [] name = "OLD SOUTH ARABIAN LETTER ZAYN" -> 68216
      [] name = "OLD SOUTH ARABIAN LETTER DHALETH" -> 68217
      [] name = "OLD SOUTH ARABIAN LETTER YODH" -> 68218
      [] name = "OLD SOUTH ARABIAN LETTER THAW" -> 68219
      [] name = "OLD SOUTH ARABIAN LETTER THETH" -> 68220
      [] name = "OLD SOUTH ARABIAN NUMBER ONE" -> 68221
      [] name = "OLD SOUTH ARABIAN NUMBER FIFTY" -> 68222
      [] name = "OLD SOUTH ARABIAN NUMERIC INDICATOR" -> 68223
      [] name = "OLD NORTH ARABIAN LETTER HEH" -> 68224
      [] name = "OLD NORTH ARABIAN LETTER LAM" -> 68225
      [] name = "OLD NORTH ARABIAN LETTER HAH" -> 68226
      [] name = "OLD NORTH ARABIAN LETTER MEEM" -> 68227
      [] name = "OLD NORTH ARABIAN LETTER QAF" -> 68228
      [] name = "OLD NORTH ARABIAN LETTER WAW" -> 68229
      [] name = "OLD NORTH ARABIAN LETTER ES-2" -> 68230
      [] name = "OLD NORTH ARABIAN LETTER REH" -> 68231
      [] name = "OLD NORTH ARABIAN LETTER BEH" -> 68232
      [] name = "OLD NORTH ARABIAN LETTER TEH" -> 68233
      [] name = "OLD NORTH ARABIAN LETTER ES-1" -> 68234
      [] name = "OLD NORTH ARABIAN LETTER KAF" -> 68235
      [] name = "OLD NORTH ARABIAN LETTER NOON" -> 68236
      [] name = "OLD NORTH ARABIAN LETTER KHAH" -> 68237
      [] name = "OLD NORTH ARABIAN LETTER SAD" -> 68238
      [] name = "OLD NORTH ARABIAN LETTER ES-3" -> 68239
      [] name = "OLD NORTH ARABIAN LETTER FEH" -> 68240
      [] name = "OLD NORTH ARABIAN LETTER ALEF" -> 68241
      [] name = "OLD NORTH ARABIAN LETTER AIN" -> 68242
      [] name = "OLD NORTH ARABIAN LETTER DAD" -> 68243
      [] name = "OLD NORTH ARABIAN LETTER GEEM" -> 68244
      [] name = "OLD NORTH ARABIAN LETTER DAL" -> 68245
      [] name = "OLD NORTH ARABIAN LETTER GHAIN" -> 68246
      [] name = "OLD NORTH ARABIAN LETTER TAH" -> 68247
      [] name = "OLD NORTH ARABIAN LETTER ZAIN" -> 68248
      [] name = "OLD NORTH ARABIAN LETTER THAL" -> 68249
      [] name = "OLD NORTH ARABIAN LETTER YEH" -> 68250
      [] name = "OLD NORTH ARABIAN LETTER THEH" -> 68251
      [] name = "OLD NORTH ARABIAN LETTER ZAH" -> 68252
      [] name = "OLD NORTH ARABIAN NUMBER ONE" -> 68253
      [] name = "OLD NORTH ARABIAN NUMBER TEN" -> 68254
      [] name = "OLD NORTH ARABIAN NUMBER TWENTY" -> 68255
      [] name = "MANICHAEAN LETTER ALEPH" -> 68288
      [] name = "MANICHAEAN LETTER BETH" -> 68289
      [] name = "MANICHAEAN LETTER BHETH" -> 68290
      [] name = "MANICHAEAN LETTER GIMEL" -> 68291
      [] name = "MANICHAEAN LETTER GHIMEL" -> 68292
      [] name = "MANICHAEAN LETTER DALETH" -> 68293
      [] name = "MANICHAEAN LETTER HE" -> 68294
      [] name = "MANICHAEAN LETTER WAW" -> 68295
      [] name = "MANICHAEAN SIGN UD" -> 68296
      [] name = "MANICHAEAN LETTER ZAYIN" -> 68297
      [] name = "MANICHAEAN LETTER ZHAYIN" -> 68298
      [] name = "MANICHAEAN LETTER JAYIN" -> 68299
      [] name = "MANICHAEAN LETTER JHAYIN" -> 68300
      [] name = "MANICHAEAN LETTER HETH" -> 68301
      [] name = "MANICHAEAN LETTER TETH" -> 68302
      [] name = "MANICHAEAN LETTER YODH" -> 68303
      [] name = "MANICHAEAN LETTER KAPH" -> 68304
      [] name = "MANICHAEAN LETTER XAPH" -> 68305
      [] name = "MANICHAEAN LETTER KHAPH" -> 68306
      [] name = "MANICHAEAN LETTER LAMEDH" -> 68307
      [] name = "MANICHAEAN LETTER DHAMEDH" -> 68308
      [] name = "MANICHAEAN LETTER THAMEDH" -> 68309
      [] name = "MANICHAEAN LETTER MEM" -> 68310
      [] name = "MANICHAEAN LETTER NUN" -> 68311
      [] name = "MANICHAEAN LETTER SAMEKH" -> 68312
      [] name = "MANICHAEAN LETTER AYIN" -> 68313
      [] name = "MANICHAEAN LETTER AAYIN" -> 68314
      [] name = "MANICHAEAN LETTER PE" -> 68315
      [] name = "MANICHAEAN LETTER FE" -> 68316
      [] name = "MANICHAEAN LETTER SADHE" -> 68317
      [] name = "MANICHAEAN LETTER QOPH" -> 68318
      [] name = "MANICHAEAN LETTER XOPH" -> 68319
      [] name = "MANICHAEAN LETTER QHOPH" -> 68320
      [] name = "MANICHAEAN LETTER RESH" -> 68321
      [] name = "MANICHAEAN LETTER SHIN" -> 68322
      [] name = "MANICHAEAN LETTER SSHIN" -> 68323
      [] name = "MANICHAEAN LETTER TAW" -> 68324
      [] name = "MANICHAEAN ABBREVIATION MARK ABOVE" -> 68325
      [] name = "MANICHAEAN ABBREVIATION MARK BELOW" -> 68326
      [] name = "MANICHAEAN NUMBER ONE" -> 68331
      [] name = "MANICHAEAN NUMBER FIVE" -> 68332
      [] name = "MANICHAEAN NUMBER TEN" -> 68333
      [] name = "MANICHAEAN NUMBER TWENTY" -> 68334
      [] name = "MANICHAEAN NUMBER ONE HUNDRED" -> 68335
      [] name = "MANICHAEAN PUNCTUATION STAR" -> 68336
      [] name = "MANICHAEAN PUNCTUATION FLEURON" -> 68337
      [] name = "MANICHAEAN PUNCTUATION DOUBLE DOT WITHIN DOT" -> 68338
      [] name = "MANICHAEAN PUNCTUATION DOT WITHIN DOT" -> 68339
      [] name = "MANICHAEAN PUNCTUATION DOT" -> 68340
      [] name = "MANICHAEAN PUNCTUATION TWO DOTS" -> 68341
      [] name = "MANICHAEAN PUNCTUATION LINE FILLER" -> 68342
      [] name = "AVESTAN LETTER A" -> 68352
      [] name = "AVESTAN LETTER AA" -> 68353
      [] name = "AVESTAN LETTER AO" -> 68354
      [] name = "AVESTAN LETTER AAO" -> 68355
      [] name = "AVESTAN LETTER AN" -> 68356
      [] name = "AVESTAN LETTER AAN" -> 68357
      [] name = "AVESTAN LETTER AE" -> 68358
      [] name = "AVESTAN LETTER AEE" -> 68359
      [] name = "AVESTAN LETTER E" -> 68360
      [] name = "AVESTAN LETTER EE" -> 68361
      [] name = "AVESTAN LETTER O" -> 68362
      [] name = "AVESTAN LETTER OO" -> 68363
      [] name = "AVESTAN LETTER I" -> 68364
      [] name = "AVESTAN LETTER II" -> 68365
      [] name = "AVESTAN LETTER U" -> 68366
      [] name = "AVESTAN LETTER UU" -> 68367
      [] name = "AVESTAN LETTER KE" -> 68368
      [] name = "AVESTAN LETTER XE" -> 68369
      [] name = "AVESTAN LETTER XYE" -> 68370
      [] name = "AVESTAN LETTER XVE" -> 68371
      [] name = "AVESTAN LETTER GE" -> 68372
      [] name = "AVESTAN LETTER GGE" -> 68373
      [] name = "AVESTAN LETTER GHE" -> 68374
      [] name = "AVESTAN LETTER CE" -> 68375
      [] name = "AVESTAN LETTER JE" -> 68376
      [] name = "AVESTAN LETTER TE" -> 68377
      [] name = "AVESTAN LETTER THE" -> 68378
      [] name = "AVESTAN LETTER DE" -> 68379
      [] name = "AVESTAN LETTER DHE" -> 68380
      [] name = "AVESTAN LETTER TTE" -> 68381
      [] name = "AVESTAN LETTER PE" -> 68382
      [] name = "AVESTAN LETTER FE" -> 68383
      [] name = "AVESTAN LETTER BE" -> 68384
      [] name = "AVESTAN LETTER BHE" -> 68385
      [] name = "AVESTAN LETTER NGE" -> 68386
      [] name = "AVESTAN LETTER NGYE" -> 68387
      [] name = "AVESTAN LETTER NGVE" -> 68388
      [] name = "AVESTAN LETTER NE" -> 68389
      [] name = "AVESTAN LETTER NYE" -> 68390
      [] name = "AVESTAN LETTER NNE" -> 68391
      [] name = "AVESTAN LETTER ME" -> 68392
      [] name = "AVESTAN LETTER HME" -> 68393
      [] name = "AVESTAN LETTER YYE" -> 68394
      [] name = "AVESTAN LETTER YE" -> 68395
      [] name = "AVESTAN LETTER VE" -> 68396
      [] name = "AVESTAN LETTER RE" -> 68397
      [] name = "AVESTAN LETTER LE" -> 68398
      [] name = "AVESTAN LETTER SE" -> 68399
      [] name = "AVESTAN LETTER ZE" -> 68400
      [] name = "AVESTAN LETTER SHE" -> 68401
      [] name = "AVESTAN LETTER ZHE" -> 68402
      [] name = "AVESTAN LETTER SHYE" -> 68403
      [] name = "AVESTAN LETTER SSHE" -> 68404
      [] name = "AVESTAN LETTER HE" -> 68405
      [] name = "AVESTAN ABBREVIATION MARK" -> 68409
      [] name = "TINY TWO DOTS OVER ONE DOT PUNCTUATION" -> 68410
      [] name = "SMALL TWO DOTS OVER ONE DOT PUNCTUATION" -> 68411
      [] name = "LARGE TWO DOTS OVER ONE DOT PUNCTUATION" -> 68412
      [] name = "LARGE ONE DOT OVER TWO DOTS PUNCTUATION" -> 68413
      [] name = "LARGE TWO RINGS OVER ONE RING PUNCTUATION" -> 68414
      [] name = "LARGE ONE RING OVER TWO RINGS PUNCTUATION" -> 68415
      [] name = "INSCRIPTIONAL PARTHIAN LETTER ALEPH" -> 68416
      [] name = "INSCRIPTIONAL PARTHIAN LETTER BETH" -> 68417
      [] name = "INSCRIPTIONAL PARTHIAN LETTER GIMEL" -> 68418
      [] name = "INSCRIPTIONAL PARTHIAN LETTER DALETH" -> 68419
      [] name = "INSCRIPTIONAL PARTHIAN LETTER HE" -> 68420
      [] name = "INSCRIPTIONAL PARTHIAN LETTER WAW" -> 68421
      [] name = "INSCRIPTIONAL PARTHIAN LETTER ZAYIN" -> 68422
      [] name = "INSCRIPTIONAL PARTHIAN LETTER HETH" -> 68423
      [] name = "INSCRIPTIONAL PARTHIAN LETTER TETH" -> 68424
      [] name = "INSCRIPTIONAL PARTHIAN LETTER YODH" -> 68425
      [] name = "INSCRIPTIONAL PARTHIAN LETTER KAPH" -> 68426
      [] name = "INSCRIPTIONAL PARTHIAN LETTER LAMEDH" -> 68427
      [] name = "INSCRIPTIONAL PARTHIAN LETTER MEM" -> 68428
      [] name = "INSCRIPTIONAL PARTHIAN LETTER NUN" -> 68429
      [] name = "INSCRIPTIONAL PARTHIAN LETTER SAMEKH" -> 68430
      [] name = "INSCRIPTIONAL PARTHIAN LETTER AYIN" -> 68431
      [] name = "INSCRIPTIONAL PARTHIAN LETTER PE" -> 68432
      [] name = "INSCRIPTIONAL PARTHIAN LETTER SADHE" -> 68433
      [] name = "INSCRIPTIONAL PARTHIAN LETTER QOPH" -> 68434
      [] name = "INSCRIPTIONAL PARTHIAN LETTER RESH" -> 68435
      [] name = "INSCRIPTIONAL PARTHIAN LETTER SHIN" -> 68436
      [] name = "INSCRIPTIONAL PARTHIAN LETTER TAW" -> 68437
      [] name = "INSCRIPTIONAL PARTHIAN NUMBER ONE" -> 68440
      [] name = "INSCRIPTIONAL PARTHIAN NUMBER TWO" -> 68441
      [] name = "INSCRIPTIONAL PARTHIAN NUMBER THREE" -> 68442
      [] name = "INSCRIPTIONAL PARTHIAN NUMBER FOUR" -> 68443
      [] name = "INSCRIPTIONAL PARTHIAN NUMBER TEN" -> 68444
      [] name = "INSCRIPTIONAL PARTHIAN NUMBER TWENTY" -> 68445
      [] name = "INSCRIPTIONAL PARTHIAN NUMBER ONE HUNDRED" -> 68446
      [] name = "INSCRIPTIONAL PARTHIAN NUMBER ONE THOUSAND" -> 68447
      [] name = "INSCRIPTIONAL PAHLAVI LETTER ALEPH" -> 68448
      [] name = "INSCRIPTIONAL PAHLAVI LETTER BETH" -> 68449
      [] name = "INSCRIPTIONAL PAHLAVI LETTER GIMEL" -> 68450
      [] name = "INSCRIPTIONAL PAHLAVI LETTER DALETH" -> 68451
      [] name = "INSCRIPTIONAL PAHLAVI LETTER HE" -> 68452
      [] name = "INSCRIPTIONAL PAHLAVI LETTER WAW-AYIN-RESH" -> 68453
      [] name = "INSCRIPTIONAL PAHLAVI LETTER ZAYIN" -> 68454
      [] name = "INSCRIPTIONAL PAHLAVI LETTER HETH" -> 68455
      [] name = "INSCRIPTIONAL PAHLAVI LETTER TETH" -> 68456
      [] name = "INSCRIPTIONAL PAHLAVI LETTER YODH" -> 68457
      [] name = "INSCRIPTIONAL PAHLAVI LETTER KAPH" -> 68458
      [] name = "INSCRIPTIONAL PAHLAVI LETTER LAMEDH" -> 68459
      [] name = "INSCRIPTIONAL PAHLAVI LETTER MEM-QOPH" -> 68460
      [] name = "INSCRIPTIONAL PAHLAVI LETTER NUN" -> 68461
      [] name = "INSCRIPTIONAL PAHLAVI LETTER SAMEKH" -> 68462
      [] name = "INSCRIPTIONAL PAHLAVI LETTER PE" -> 68463
      [] name = "INSCRIPTIONAL PAHLAVI LETTER SADHE" -> 68464
      [] name = "INSCRIPTIONAL PAHLAVI LETTER SHIN" -> 68465
      [] name = "INSCRIPTIONAL PAHLAVI LETTER TAW" -> 68466
      [] name = "INSCRIPTIONAL PAHLAVI NUMBER ONE" -> 68472
      [] name = "INSCRIPTIONAL PAHLAVI NUMBER TWO" -> 68473
      [] name = "INSCRIPTIONAL PAHLAVI NUMBER THREE" -> 68474
      [] name = "INSCRIPTIONAL PAHLAVI NUMBER FOUR" -> 68475
      [] name = "INSCRIPTIONAL PAHLAVI NUMBER TEN" -> 68476
      [] name = "INSCRIPTIONAL PAHLAVI NUMBER TWENTY" -> 68477
      [] name = "INSCRIPTIONAL PAHLAVI NUMBER ONE HUNDRED" -> 68478
      [] name = "INSCRIPTIONAL PAHLAVI NUMBER ONE THOUSAND" -> 68479
      [] name = "PSALTER PAHLAVI LETTER ALEPH" -> 68480
      [] name = "PSALTER PAHLAVI LETTER BETH" -> 68481
      [] name = "PSALTER PAHLAVI LETTER GIMEL" -> 68482
      [] name = "PSALTER PAHLAVI LETTER DALETH" -> 68483
      [] name = "PSALTER PAHLAVI LETTER HE" -> 68484
      [] name = "PSALTER PAHLAVI LETTER WAW-AYIN-RESH" -> 68485
      [] name = "PSALTER PAHLAVI LETTER ZAYIN" -> 68486
      [] name = "PSALTER PAHLAVI LETTER HETH" -> 68487
      [] name = "PSALTER PAHLAVI LETTER YODH" -> 68488
      [] name = "PSALTER PAHLAVI LETTER KAPH" -> 68489
      [] name = "PSALTER PAHLAVI LETTER LAMEDH" -> 68490
      [] name = "PSALTER PAHLAVI LETTER MEM-QOPH" -> 68491
      [] name = "PSALTER PAHLAVI LETTER NUN" -> 68492
      [] name = "PSALTER PAHLAVI LETTER SAMEKH" -> 68493
      [] name = "PSALTER PAHLAVI LETTER PE" -> 68494
      [] name = "PSALTER PAHLAVI LETTER SADHE" -> 68495
      [] name = "PSALTER PAHLAVI LETTER SHIN" -> 68496
      [] name = "PSALTER PAHLAVI LETTER TAW" -> 68497
      [] name = "PSALTER PAHLAVI SECTION MARK" -> 68505
      [] name = "PSALTER PAHLAVI TURNED SECTION MARK" -> 68506
      [] name = "PSALTER PAHLAVI FOUR DOTS WITH CROSS" -> 68507
      [] name = "PSALTER PAHLAVI FOUR DOTS WITH DOT" -> 68508
      [] name = "PSALTER PAHLAVI NUMBER ONE" -> 68521
      [] name = "PSALTER PAHLAVI NUMBER TWO" -> 68522
      [] name = "PSALTER PAHLAVI NUMBER THREE" -> 68523
      [] name = "PSALTER PAHLAVI NUMBER FOUR" -> 68524
      [] name = "PSALTER PAHLAVI NUMBER TEN" -> 68525
      [] name = "PSALTER PAHLAVI NUMBER TWENTY" -> 68526
      [] name = "PSALTER PAHLAVI NUMBER ONE HUNDRED" -> 68527
      [] name = "OLD TURKIC LETTER ORKHON A" -> 68608
      [] name = "OLD TURKIC LETTER YENISEI A" -> 68609
      [] name = "OLD TURKIC LETTER YENISEI AE" -> 68610
      [] name = "OLD TURKIC LETTER ORKHON I" -> 68611
      [] name = "OLD TURKIC LETTER YENISEI I" -> 68612
      [] name = "OLD TURKIC LETTER YENISEI E" -> 68613
      [] name = "OLD TURKIC LETTER ORKHON O" -> 68614
      [] name = "OLD TURKIC LETTER ORKHON OE" -> 68615
      [] name = "OLD TURKIC LETTER YENISEI OE" -> 68616
      [] name = "OLD TURKIC LETTER ORKHON AB" -> 68617
      [] name = "OLD TURKIC LETTER YENISEI AB" -> 68618
      [] name = "OLD TURKIC LETTER ORKHON AEB" -> 68619
      [] name = "OLD TURKIC LETTER YENISEI AEB" -> 68620
      [] name = "OLD TURKIC LETTER ORKHON AG" -> 68621
      [] name = "OLD TURKIC LETTER YENISEI AG" -> 68622
      [] name = "OLD TURKIC LETTER ORKHON AEG" -> 68623
      [] name = "OLD TURKIC LETTER YENISEI AEG" -> 68624
      [] name = "OLD TURKIC LETTER ORKHON AD" -> 68625
      [] name = "OLD TURKIC LETTER YENISEI AD" -> 68626
      [] name = "OLD TURKIC LETTER ORKHON AED" -> 68627
      [] name = "OLD TURKIC LETTER ORKHON EZ" -> 68628
      [] name = "OLD TURKIC LETTER YENISEI EZ" -> 68629
      [] name = "OLD TURKIC LETTER ORKHON AY" -> 68630
      [] name = "OLD TURKIC LETTER YENISEI AY" -> 68631
      [] name = "OLD TURKIC LETTER ORKHON AEY" -> 68632
      [] name = "OLD TURKIC LETTER YENISEI AEY" -> 68633
      [] name = "OLD TURKIC LETTER ORKHON AEK" -> 68634
      [] name = "OLD TURKIC LETTER YENISEI AEK" -> 68635
      [] name = "OLD TURKIC LETTER ORKHON OEK" -> 68636
      [] name = "OLD TURKIC LETTER YENISEI OEK" -> 68637
      [] name = "OLD TURKIC LETTER ORKHON AL" -> 68638
      [] name = "OLD TURKIC LETTER YENISEI AL" -> 68639
      [] name = "OLD TURKIC LETTER ORKHON AEL" -> 68640
      [] name = "OLD TURKIC LETTER ORKHON ELT" -> 68641
      [] name = "OLD TURKIC LETTER ORKHON EM" -> 68642
      [] name = "OLD TURKIC LETTER ORKHON AN" -> 68643
      [] name = "OLD TURKIC LETTER ORKHON AEN" -> 68644
      [] name = "OLD TURKIC LETTER YENISEI AEN" -> 68645
      [] name = "OLD TURKIC LETTER ORKHON ENT" -> 68646
      [] name = "OLD TURKIC LETTER YENISEI ENT" -> 68647
      [] name = "OLD TURKIC LETTER ORKHON ENC" -> 68648
      [] name = "OLD TURKIC LETTER YENISEI ENC" -> 68649
      [] name = "OLD TURKIC LETTER ORKHON ENY" -> 68650
      [] name = "OLD TURKIC LETTER YENISEI ENY" -> 68651
      [] name = "OLD TURKIC LETTER YENISEI ANG" -> 68652
      [] name = "OLD TURKIC LETTER ORKHON ENG" -> 68653
      [] name = "OLD TURKIC LETTER YENISEI AENG" -> 68654
      [] name = "OLD TURKIC LETTER ORKHON EP" -> 68655
      [] name = "OLD TURKIC LETTER ORKHON OP" -> 68656
      [] name = "OLD TURKIC LETTER ORKHON IC" -> 68657
      [] name = "OLD TURKIC LETTER ORKHON EC" -> 68658
      [] name = "OLD TURKIC LETTER YENISEI EC" -> 68659
      [] name = "OLD TURKIC LETTER ORKHON AQ" -> 68660
      [] name = "OLD TURKIC LETTER YENISEI AQ" -> 68661
      [] name = "OLD TURKIC LETTER ORKHON IQ" -> 68662
      [] name = "OLD TURKIC LETTER YENISEI IQ" -> 68663
      [] name = "OLD TURKIC LETTER ORKHON OQ" -> 68664
      [] name = "OLD TURKIC LETTER YENISEI OQ" -> 68665
      [] name = "OLD TURKIC LETTER ORKHON AR" -> 68666
      [] name = "OLD TURKIC LETTER YENISEI AR" -> 68667
      [] name = "OLD TURKIC LETTER ORKHON AER" -> 68668
      [] name = "OLD TURKIC LETTER ORKHON AS" -> 68669
      [] name = "OLD TURKIC LETTER ORKHON AES" -> 68670
      [] name = "OLD TURKIC LETTER ORKHON ASH" -> 68671
      [] name = "OLD TURKIC LETTER YENISEI ASH" -> 68672
      [] name = "OLD TURKIC LETTER ORKHON ESH" -> 68673
      [] name = "OLD TURKIC LETTER YENISEI ESH" -> 68674
      [] name = "OLD TURKIC LETTER ORKHON AT" -> 68675
      [] name = "OLD TURKIC LETTER YENISEI AT" -> 68676
      [] name = "OLD TURKIC LETTER ORKHON AET" -> 68677
      [] name = "OLD TURKIC LETTER YENISEI AET" -> 68678
      [] name = "OLD TURKIC LETTER ORKHON OT" -> 68679
      [] name = "OLD TURKIC LETTER ORKHON BASH" -> 68680
      [] name = "OLD HUNGARIAN CAPITAL LETTER A" -> 68736
      [] name = "OLD HUNGARIAN CAPITAL LETTER AA" -> 68737
      [] name = "OLD HUNGARIAN CAPITAL LETTER EB" -> 68738
      [] name = "OLD HUNGARIAN CAPITAL LETTER AMB" -> 68739
      [] name = "OLD HUNGARIAN CAPITAL LETTER EC" -> 68740
      [] name = "OLD HUNGARIAN CAPITAL LETTER ENC" -> 68741
      [] name = "OLD HUNGARIAN CAPITAL LETTER ECS" -> 68742
      [] name = "OLD HUNGARIAN CAPITAL LETTER ED" -> 68743
      [] name = "OLD HUNGARIAN CAPITAL LETTER AND" -> 68744
      [] name = "OLD HUNGARIAN CAPITAL LETTER E" -> 68745
      [] name = "OLD HUNGARIAN CAPITAL LETTER CLOSE E" -> 68746
      [] name = "OLD HUNGARIAN CAPITAL LETTER EE" -> 68747
      [] name = "OLD HUNGARIAN CAPITAL LETTER EF" -> 68748
      [] name = "OLD HUNGARIAN CAPITAL LETTER EG" -> 68749
      [] name = "OLD HUNGARIAN CAPITAL LETTER EGY" -> 68750
      [] name = "OLD HUNGARIAN CAPITAL LETTER EH" -> 68751
      [] name = "OLD HUNGARIAN CAPITAL LETTER I" -> 68752
      [] name = "OLD HUNGARIAN CAPITAL LETTER II" -> 68753
      [] name = "OLD HUNGARIAN CAPITAL LETTER EJ" -> 68754
      [] name = "OLD HUNGARIAN CAPITAL LETTER EK" -> 68755
      [] name = "OLD HUNGARIAN CAPITAL LETTER AK" -> 68756
      [] name = "OLD HUNGARIAN CAPITAL LETTER UNK" -> 68757
      [] name = "OLD HUNGARIAN CAPITAL LETTER EL" -> 68758
      [] name = "OLD HUNGARIAN CAPITAL LETTER ELY" -> 68759
      [] name = "OLD HUNGARIAN CAPITAL LETTER EM" -> 68760
      [] name = "OLD HUNGARIAN CAPITAL LETTER EN" -> 68761
      [] name = "OLD HUNGARIAN CAPITAL LETTER ENY" -> 68762
      [] name = "OLD HUNGARIAN CAPITAL LETTER O" -> 68763
      [] name = "OLD HUNGARIAN CAPITAL LETTER OO" -> 68764
      [] name = "OLD HUNGARIAN CAPITAL LETTER NIKOLSBURG OE" -> 68765
      [] name = "OLD HUNGARIAN CAPITAL LETTER RUDIMENTA OE" -> 68766
      [] name = "OLD HUNGARIAN CAPITAL LETTER OEE" -> 68767
      [] name = "OLD HUNGARIAN CAPITAL LETTER EP" -> 68768
      [] name = "OLD HUNGARIAN CAPITAL LETTER EMP" -> 68769
      [] name = "OLD HUNGARIAN CAPITAL LETTER ER" -> 68770
      [] name = "OLD HUNGARIAN CAPITAL LETTER SHORT ER" -> 68771
      [] name = "OLD HUNGARIAN CAPITAL LETTER ES" -> 68772
      [] name = "OLD HUNGARIAN CAPITAL LETTER ESZ" -> 68773
      [] name = "OLD HUNGARIAN CAPITAL LETTER ET" -> 68774
      [] name = "OLD HUNGARIAN CAPITAL LETTER ENT" -> 68775
      [] name = "OLD HUNGARIAN CAPITAL LETTER ETY" -> 68776
      [] name = "OLD HUNGARIAN CAPITAL LETTER ECH" -> 68777
      [] name = "OLD HUNGARIAN CAPITAL LETTER U" -> 68778
      [] name = "OLD HUNGARIAN CAPITAL LETTER UU" -> 68779
      [] name = "OLD HUNGARIAN CAPITAL LETTER NIKOLSBURG UE" -> 68780
      [] name = "OLD HUNGARIAN CAPITAL LETTER RUDIMENTA UE" -> 68781
      [] name = "OLD HUNGARIAN CAPITAL LETTER EV" -> 68782
      [] name = "OLD HUNGARIAN CAPITAL LETTER EZ" -> 68783
      [] name = "OLD HUNGARIAN CAPITAL LETTER EZS" -> 68784
      [] name = "OLD HUNGARIAN CAPITAL LETTER ENT-SHAPED SIGN" -> 68785
      [] name = "OLD HUNGARIAN CAPITAL LETTER US" -> 68786
      [] name = "OLD HUNGARIAN SMALL LETTER A" -> 68800
      [] name = "OLD HUNGARIAN SMALL LETTER AA" -> 68801
      [] name = "OLD HUNGARIAN SMALL LETTER EB" -> 68802
      [] name = "OLD HUNGARIAN SMALL LETTER AMB" -> 68803
      [] name = "OLD HUNGARIAN SMALL LETTER EC" -> 68804
      [] name = "OLD HUNGARIAN SMALL LETTER ENC" -> 68805
      [] name = "OLD HUNGARIAN SMALL LETTER ECS" -> 68806
      [] name = "OLD HUNGARIAN SMALL LETTER ED" -> 68807
      [] name = "OLD HUNGARIAN SMALL LETTER AND" -> 68808
      [] name = "OLD HUNGARIAN SMALL LETTER E" -> 68809
      [] name = "OLD HUNGARIAN SMALL LETTER CLOSE E" -> 68810
      [] name = "OLD HUNGARIAN SMALL LETTER EE" -> 68811
      [] name = "OLD HUNGARIAN SMALL LETTER EF" -> 68812
      [] name = "OLD HUNGARIAN SMALL LETTER EG" -> 68813
      [] name = "OLD HUNGARIAN SMALL LETTER EGY" -> 68814
      [] name = "OLD HUNGARIAN SMALL LETTER EH" -> 68815
      [] name = "OLD HUNGARIAN SMALL LETTER I" -> 68816
      [] name = "OLD HUNGARIAN SMALL LETTER II" -> 68817
      [] name = "OLD HUNGARIAN SMALL LETTER EJ" -> 68818
      [] name = "OLD HUNGARIAN SMALL LETTER EK" -> 68819
      [] name = "OLD HUNGARIAN SMALL LETTER AK" -> 68820
      [] name = "OLD HUNGARIAN SMALL LETTER UNK" -> 68821
      [] name = "OLD HUNGARIAN SMALL LETTER EL" -> 68822
      [] name = "OLD HUNGARIAN SMALL LETTER ELY" -> 68823
      [] name = "OLD HUNGARIAN SMALL LETTER EM" -> 68824
      [] name = "OLD HUNGARIAN SMALL LETTER EN" -> 68825
      [] name = "OLD HUNGARIAN SMALL LETTER ENY" -> 68826
      [] name = "OLD HUNGARIAN SMALL LETTER O" -> 68827
      [] name = "OLD HUNGARIAN SMALL LETTER OO" -> 68828
      [] name = "OLD HUNGARIAN SMALL LETTER NIKOLSBURG OE" -> 68829
      [] name = "OLD HUNGARIAN SMALL LETTER RUDIMENTA OE" -> 68830
      [] name = "OLD HUNGARIAN SMALL LETTER OEE" -> 68831
      [] name = "OLD HUNGARIAN SMALL LETTER EP" -> 68832
      [] name = "OLD HUNGARIAN SMALL LETTER EMP" -> 68833
      [] name = "OLD HUNGARIAN SMALL LETTER ER" -> 68834
      [] name = "OLD HUNGARIAN SMALL LETTER SHORT ER" -> 68835
      [] name = "OLD HUNGARIAN SMALL LETTER ES" -> 68836
      [] name = "OLD HUNGARIAN SMALL LETTER ESZ" -> 68837
      [] name = "OLD HUNGARIAN SMALL LETTER ET" -> 68838
      [] name = "OLD HUNGARIAN SMALL LETTER ENT" -> 68839
      [] name = "OLD HUNGARIAN SMALL LETTER ETY" -> 68840
      [] name = "OLD HUNGARIAN SMALL LETTER ECH" -> 68841
      [] name = "OLD HUNGARIAN SMALL LETTER U" -> 68842
      [] name = "OLD HUNGARIAN SMALL LETTER UU" -> 68843
      [] name = "OLD HUNGARIAN SMALL LETTER NIKOLSBURG UE" -> 68844
      [] name = "OLD HUNGARIAN SMALL LETTER RUDIMENTA UE" -> 68845
      [] name = "OLD HUNGARIAN SMALL LETTER EV" -> 68846
      [] name = "OLD HUNGARIAN SMALL LETTER EZ" -> 68847
      [] name = "OLD HUNGARIAN SMALL LETTER EZS" -> 68848
      [] name = "OLD HUNGARIAN SMALL LETTER ENT-SHAPED SIGN" -> 68849
      [] name = "OLD HUNGARIAN SMALL LETTER US" -> 68850
      [] name = "OLD HUNGARIAN NUMBER ONE" -> 68858
      [] name = "OLD HUNGARIAN NUMBER FIVE" -> 68859
      [] name = "OLD HUNGARIAN NUMBER TEN" -> 68860
      [] name = "OLD HUNGARIAN NUMBER FIFTY" -> 68861
      [] name = "OLD HUNGARIAN NUMBER ONE HUNDRED" -> 68862
      [] name = "OLD HUNGARIAN NUMBER ONE THOUSAND" -> 68863
      [] name = "HANIFI ROHINGYA LETTER A" -> 68864
      [] name = "HANIFI ROHINGYA LETTER BA" -> 68865
      [] name = "HANIFI ROHINGYA LETTER PA" -> 68866
      [] name = "HANIFI ROHINGYA LETTER TA" -> 68867
      [] name = "HANIFI ROHINGYA LETTER TTA" -> 68868
      [] name = "HANIFI ROHINGYA LETTER JA" -> 68869
      [] name = "HANIFI ROHINGYA LETTER CA" -> 68870
      [] name = "HANIFI ROHINGYA LETTER HA" -> 68871
      [] name = "HANIFI ROHINGYA LETTER KHA" -> 68872
      [] name = "HANIFI ROHINGYA LETTER FA" -> 68873
      [] name = "HANIFI ROHINGYA LETTER DA" -> 68874
      [] name = "HANIFI ROHINGYA LETTER DDA" -> 68875
      [] name = "HANIFI ROHINGYA LETTER RA" -> 68876
      [] name = "HANIFI ROHINGYA LETTER RRA" -> 68877
      [] name = "HANIFI ROHINGYA LETTER ZA" -> 68878
      [] name = "HANIFI ROHINGYA LETTER SA" -> 68879
      [] name = "HANIFI ROHINGYA LETTER SHA" -> 68880
      [] name = "HANIFI ROHINGYA LETTER KA" -> 68881
      [] name = "HANIFI ROHINGYA LETTER GA" -> 68882
      [] name = "HANIFI ROHINGYA LETTER LA" -> 68883
      [] name = "HANIFI ROHINGYA LETTER MA" -> 68884
      [] name = "HANIFI ROHINGYA LETTER NA" -> 68885
      [] name = "HANIFI ROHINGYA LETTER WA" -> 68886
      [] name = "HANIFI ROHINGYA LETTER KINNA WA" -> 68887
      [] name = "HANIFI ROHINGYA LETTER YA" -> 68888
      [] name = "HANIFI ROHINGYA LETTER KINNA YA" -> 68889
      [] name = "HANIFI ROHINGYA LETTER NGA" -> 68890
      [] name = "HANIFI ROHINGYA LETTER NYA" -> 68891
      [] name = "HANIFI ROHINGYA LETTER VA" -> 68892
      [] name = "HANIFI ROHINGYA VOWEL A" -> 68893
      [] name = "HANIFI ROHINGYA VOWEL I" -> 68894
      [] name = "HANIFI ROHINGYA VOWEL U" -> 68895
      [] name = "HANIFI ROHINGYA VOWEL E" -> 68896
      [] name = "HANIFI ROHINGYA VOWEL O" -> 68897
      [] name = "HANIFI ROHINGYA MARK SAKIN" -> 68898
      [] name = "HANIFI ROHINGYA MARK NA KHONNA" -> 68899
      [] name = "HANIFI ROHINGYA SIGN HARBAHAY" -> 68900
      [] name = "HANIFI ROHINGYA SIGN TAHALA" -> 68901
      [] name = "HANIFI ROHINGYA SIGN TANA" -> 68902
      [] name = "HANIFI ROHINGYA SIGN TASSI" -> 68903
      [] name = "HANIFI ROHINGYA DIGIT ZERO" -> 68912
      [] name = "HANIFI ROHINGYA DIGIT ONE" -> 68913
      [] name = "HANIFI ROHINGYA DIGIT TWO" -> 68914
      [] name = "HANIFI ROHINGYA DIGIT THREE" -> 68915
      [] name = "HANIFI ROHINGYA DIGIT FOUR" -> 68916
      [] name = "HANIFI ROHINGYA DIGIT FIVE" -> 68917
      [] name = "HANIFI ROHINGYA DIGIT SIX" -> 68918
      [] name = "HANIFI ROHINGYA DIGIT SEVEN" -> 68919
      [] name = "HANIFI ROHINGYA DIGIT EIGHT" -> 68920
      [] name = "HANIFI ROHINGYA DIGIT NINE" -> 68921
      [] name = "RUMI DIGIT ONE" -> 69216
      [] name = "RUMI DIGIT TWO" -> 69217
      [] name = "RUMI DIGIT THREE" -> 69218
      [] name = "RUMI DIGIT FOUR" -> 69219
      [] name = "RUMI DIGIT FIVE" -> 69220
      [] name = "RUMI DIGIT SIX" -> 69221
      [] name = "RUMI DIGIT SEVEN" -> 69222
      [] name = "RUMI DIGIT EIGHT" -> 69223
      [] name = "RUMI DIGIT NINE" -> 69224
      [] name = "RUMI NUMBER TEN" -> 69225
      [] name = "RUMI NUMBER TWENTY" -> 69226
      [] name = "RUMI NUMBER THIRTY" -> 69227
      [] name = "RUMI NUMBER FORTY" -> 69228
      [] name = "RUMI NUMBER FIFTY" -> 69229
      [] name = "RUMI NUMBER SIXTY" -> 69230
      [] name = "RUMI NUMBER SEVENTY" -> 69231
      [] name = "RUMI NUMBER EIGHTY" -> 69232
      [] name = "RUMI NUMBER NINETY" -> 69233
      [] name = "RUMI NUMBER ONE HUNDRED" -> 69234
      [] name = "RUMI NUMBER TWO HUNDRED" -> 69235
      [] name = "RUMI NUMBER THREE HUNDRED" -> 69236
      [] name = "RUMI NUMBER FOUR HUNDRED" -> 69237
      [] name = "RUMI NUMBER FIVE HUNDRED" -> 69238
      [] name = "RUMI NUMBER SIX HUNDRED" -> 69239
      [] name = "RUMI NUMBER SEVEN HUNDRED" -> 69240
      [] name = "RUMI NUMBER EIGHT HUNDRED" -> 69241
      [] name = "RUMI NUMBER NINE HUNDRED" -> 69242
      [] name = "RUMI FRACTION ONE HALF" -> 69243
      [] name = "RUMI FRACTION ONE QUARTER" -> 69244
      [] name = "RUMI FRACTION ONE THIRD" -> 69245
      [] name = "RUMI FRACTION TWO THIRDS" -> 69246
      [] name = "YEZIDI LETTER ELIF" -> 69248
      [] name = "YEZIDI LETTER BE" -> 69249
      [] name = "YEZIDI LETTER PE" -> 69250
      [] name = "YEZIDI LETTER PHE" -> 69251
      [] name = "YEZIDI LETTER THE" -> 69252
      [] name = "YEZIDI LETTER SE" -> 69253
      [] name = "YEZIDI LETTER CIM" -> 69254
      [] name = "YEZIDI LETTER CHIM" -> 69255
      [] name = "YEZIDI LETTER CHHIM" -> 69256
      [] name = "YEZIDI LETTER HHA" -> 69257
      [] name = "YEZIDI LETTER XA" -> 69258
      [] name = "YEZIDI LETTER DAL" -> 69259
      [] name = "YEZIDI LETTER ZAL" -> 69260
      [] name = "YEZIDI LETTER RA" -> 69261
      [] name = "YEZIDI LETTER RHA" -> 69262
      [] name = "YEZIDI LETTER ZA" -> 69263
      [] name = "YEZIDI LETTER JA" -> 69264
      [] name = "YEZIDI LETTER SIN" -> 69265
      [] name = "YEZIDI LETTER SHIN" -> 69266
      [] name = "YEZIDI LETTER SAD" -> 69267
      [] name = "YEZIDI LETTER DAD" -> 69268
      [] name = "YEZIDI LETTER TA" -> 69269
      [] name = "YEZIDI LETTER ZE" -> 69270
      [] name = "YEZIDI LETTER EYN" -> 69271
      [] name = "YEZIDI LETTER XHEYN" -> 69272
      [] name = "YEZIDI LETTER FA" -> 69273
      [] name = "YEZIDI LETTER VA" -> 69274
      [] name = "YEZIDI LETTER VA ALTERNATE FORM" -> 69275
      [] name = "YEZIDI LETTER QAF" -> 69276
      [] name = "YEZIDI LETTER KAF" -> 69277
      [] name = "YEZIDI LETTER KHAF" -> 69278
      [] name = "YEZIDI LETTER GAF" -> 69279
      [] name = "YEZIDI LETTER LAM" -> 69280
      [] name = "YEZIDI LETTER MIM" -> 69281
      [] name = "YEZIDI LETTER NUN" -> 69282
      [] name = "YEZIDI LETTER UM" -> 69283
      [] name = "YEZIDI LETTER WAW" -> 69284
      [] name = "YEZIDI LETTER OW" -> 69285
      [] name = "YEZIDI LETTER EW" -> 69286
      [] name = "YEZIDI LETTER HAY" -> 69287
      [] name = "YEZIDI LETTER YOT" -> 69288
      [] name = "YEZIDI LETTER ET" -> 69289
      [] name = "YEZIDI COMBINING HAMZA MARK" -> 69291
      [] name = "YEZIDI COMBINING MADDA MARK" -> 69292
      [] name = "YEZIDI HYPHENATION MARK" -> 69293
      [] name = "YEZIDI LETTER LAM WITH DOT ABOVE" -> 69296
      [] name = "YEZIDI LETTER YOT WITH CIRCUMFLEX ABOVE" -> 69297
      [] name = "OLD SOGDIAN LETTER ALEPH" -> 69376
      [] name = "OLD SOGDIAN LETTER FINAL ALEPH" -> 69377
      [] name = "OLD SOGDIAN LETTER BETH" -> 69378
      [] name = "OLD SOGDIAN LETTER FINAL BETH" -> 69379
      [] name = "OLD SOGDIAN LETTER GIMEL" -> 69380
      [] name = "OLD SOGDIAN LETTER HE" -> 69381
      [] name = "OLD SOGDIAN LETTER FINAL HE" -> 69382
      [] name = "OLD SOGDIAN LETTER WAW" -> 69383
      [] name = "OLD SOGDIAN LETTER ZAYIN" -> 69384
      [] name = "OLD SOGDIAN LETTER HETH" -> 69385
      [] name = "OLD SOGDIAN LETTER YODH" -> 69386
      [] name = "OLD SOGDIAN LETTER KAPH" -> 69387
      [] name = "OLD SOGDIAN LETTER LAMEDH" -> 69388
      [] name = "OLD SOGDIAN LETTER MEM" -> 69389
      [] name = "OLD SOGDIAN LETTER NUN" -> 69390
      [] name = "OLD SOGDIAN LETTER FINAL NUN" -> 69391
      [] name = "OLD SOGDIAN LETTER FINAL NUN WITH VERTICAL TAIL" -> 69392
      [] name = "OLD SOGDIAN LETTER SAMEKH" -> 69393
      [] name = "OLD SOGDIAN LETTER AYIN" -> 69394
      [] name = "OLD SOGDIAN LETTER ALTERNATE AYIN" -> 69395
      [] name = "OLD SOGDIAN LETTER PE" -> 69396
      [] name = "OLD SOGDIAN LETTER SADHE" -> 69397
      [] name = "OLD SOGDIAN LETTER FINAL SADHE" -> 69398
      [] name = "OLD SOGDIAN LETTER FINAL SADHE WITH VERTICAL TAIL" -> 69399
      [] name = "OLD SOGDIAN LETTER RESH-AYIN-DALETH" -> 69400
      [] name = "OLD SOGDIAN LETTER SHIN" -> 69401
      [] name = "OLD SOGDIAN LETTER TAW" -> 69402
      [] name = "OLD SOGDIAN LETTER FINAL TAW" -> 69403
      [] name = "OLD SOGDIAN LETTER FINAL TAW WITH VERTICAL TAIL" -> 69404
      [] name = "OLD SOGDIAN NUMBER ONE" -> 69405
      [] name = "OLD SOGDIAN NUMBER TWO" -> 69406
      [] name = "OLD SOGDIAN NUMBER THREE" -> 69407
      [] name = "OLD SOGDIAN NUMBER FOUR" -> 69408
      [] name = "OLD SOGDIAN NUMBER FIVE" -> 69409
      [] name = "OLD SOGDIAN NUMBER TEN" -> 69410
      [] name = "OLD SOGDIAN NUMBER TWENTY" -> 69411
      [] name = "OLD SOGDIAN NUMBER THIRTY" -> 69412
      [] name = "OLD SOGDIAN NUMBER ONE HUNDRED" -> 69413
      [] name = "OLD SOGDIAN FRACTION ONE HALF" -> 69414
      [] name = "OLD SOGDIAN LIGATURE AYIN-DALETH" -> 69415
      [] name = "SOGDIAN LETTER ALEPH" -> 69424
      [] name = "SOGDIAN LETTER BETH" -> 69425
      [] name = "SOGDIAN LETTER GIMEL" -> 69426
      [] name = "SOGDIAN LETTER HE" -> 69427
      [] name = "SOGDIAN LETTER WAW" -> 69428
      [] name = "SOGDIAN LETTER ZAYIN" -> 69429
      [] name = "SOGDIAN LETTER HETH" -> 69430
      [] name = "SOGDIAN LETTER YODH" -> 69431
      [] name = "SOGDIAN LETTER KAPH" -> 69432
      [] name = "SOGDIAN LETTER LAMEDH" -> 69433
      [] name = "SOGDIAN LETTER MEM" -> 69434
      [] name = "SOGDIAN LETTER NUN" -> 69435
      [] name = "SOGDIAN LETTER SAMEKH" -> 69436
      [] name = "SOGDIAN LETTER AYIN" -> 69437
      [] name = "SOGDIAN LETTER PE" -> 69438
      [] name = "SOGDIAN LETTER SADHE" -> 69439
      [] name = "SOGDIAN LETTER RESH-AYIN" -> 69440
      [] name = "SOGDIAN LETTER SHIN" -> 69441
      [] name = "SOGDIAN LETTER TAW" -> 69442
      [] name = "SOGDIAN LETTER FETH" -> 69443
      [] name = "SOGDIAN LETTER LESH" -> 69444
      [] name = "SOGDIAN INDEPENDENT SHIN" -> 69445
      [] name = "SOGDIAN COMBINING DOT BELOW" -> 69446
      [] name = "SOGDIAN COMBINING TWO DOTS BELOW" -> 69447
      [] name = "SOGDIAN COMBINING DOT ABOVE" -> 69448
      [] name = "SOGDIAN COMBINING TWO DOTS ABOVE" -> 69449
      [] name = "SOGDIAN COMBINING CURVE ABOVE" -> 69450
      [] name = "SOGDIAN COMBINING CURVE BELOW" -> 69451
      [] name = "SOGDIAN COMBINING HOOK ABOVE" -> 69452
      [] name = "SOGDIAN COMBINING HOOK BELOW" -> 69453
      [] name = "SOGDIAN COMBINING LONG HOOK BELOW" -> 69454
      [] name = "SOGDIAN COMBINING RESH BELOW" -> 69455
      [] name = "SOGDIAN COMBINING STROKE BELOW" -> 69456
      [] name = "SOGDIAN NUMBER ONE" -> 69457
      [] name = "SOGDIAN NUMBER TEN" -> 69458
      [] name = "SOGDIAN NUMBER TWENTY" -> 69459
      [] name = "SOGDIAN NUMBER ONE HUNDRED" -> 69460
      [] name = "SOGDIAN PUNCTUATION TWO VERTICAL BARS" -> 69461
      [] name = "SOGDIAN PUNCTUATION TWO VERTICAL BARS WITH DOTS" -> 69462
      [] name = "SOGDIAN PUNCTUATION CIRCLE WITH DOT" -> 69463
      [] name = "SOGDIAN PUNCTUATION TWO CIRCLES WITH DOTS" -> 69464
      [] name = "SOGDIAN PUNCTUATION HALF CIRCLE WITH DOT" -> 69465
      [] name = "OLD UYGHUR LETTER ALEPH" -> 69488
      [] name = "OLD UYGHUR LETTER BETH" -> 69489
      [] name = "OLD UYGHUR LETTER GIMEL-HETH" -> 69490
      [] name = "OLD UYGHUR LETTER WAW" -> 69491
      [] name = "OLD UYGHUR LETTER ZAYIN" -> 69492
      [] name = "OLD UYGHUR LETTER FINAL HETH" -> 69493
      [] name = "OLD UYGHUR LETTER YODH" -> 69494
      [] name = "OLD UYGHUR LETTER KAPH" -> 69495
      [] name = "OLD UYGHUR LETTER LAMEDH" -> 69496
      [] name = "OLD UYGHUR LETTER MEM" -> 69497
      [] name = "OLD UYGHUR LETTER NUN" -> 69498
      [] name = "OLD UYGHUR LETTER SAMEKH" -> 69499
      [] name = "OLD UYGHUR LETTER PE" -> 69500
      [] name = "OLD UYGHUR LETTER SADHE" -> 69501
      [] name = "OLD UYGHUR LETTER RESH" -> 69502
      [] name = "OLD UYGHUR LETTER SHIN" -> 69503
      [] name = "OLD UYGHUR LETTER TAW" -> 69504
      [] name = "OLD UYGHUR LETTER LESH" -> 69505
      [] name = "OLD UYGHUR COMBINING DOT ABOVE" -> 69506
      [] name = "OLD UYGHUR COMBINING DOT BELOW" -> 69507
      [] name = "OLD UYGHUR COMBINING TWO DOTS ABOVE" -> 69508
      [] name = "OLD UYGHUR COMBINING TWO DOTS BELOW" -> 69509
      [] name = "OLD UYGHUR PUNCTUATION BAR" -> 69510
      [] name = "OLD UYGHUR PUNCTUATION TWO BARS" -> 69511
      [] name = "OLD UYGHUR PUNCTUATION TWO DOTS" -> 69512
      [] name = "OLD UYGHUR PUNCTUATION FOUR DOTS" -> 69513
      [] name = "CHORASMIAN LETTER ALEPH" -> 69552
      [] name = "CHORASMIAN LETTER SMALL ALEPH" -> 69553
      [] name = "CHORASMIAN LETTER BETH" -> 69554
      [] name = "CHORASMIAN LETTER GIMEL" -> 69555
      [] name = "CHORASMIAN LETTER DALETH" -> 69556
      [] name = "CHORASMIAN LETTER HE" -> 69557
      [] name = "CHORASMIAN LETTER WAW" -> 69558
      [] name = "CHORASMIAN LETTER CURLED WAW" -> 69559
      [] name = "CHORASMIAN LETTER ZAYIN" -> 69560
      [] name = "CHORASMIAN LETTER HETH" -> 69561
      [] name = "CHORASMIAN LETTER YODH" -> 69562
      [] name = "CHORASMIAN LETTER KAPH" -> 69563
      [] name = "CHORASMIAN LETTER LAMEDH" -> 69564
      [] name = "CHORASMIAN LETTER MEM" -> 69565
      [] name = "CHORASMIAN LETTER NUN" -> 69566
      [] name = "CHORASMIAN LETTER SAMEKH" -> 69567
      [] name = "CHORASMIAN LETTER AYIN" -> 69568
      [] name = "CHORASMIAN LETTER PE" -> 69569
      [] name = "CHORASMIAN LETTER RESH" -> 69570
      [] name = "CHORASMIAN LETTER SHIN" -> 69571
      [] name = "CHORASMIAN LETTER TAW" -> 69572
      [] name = "CHORASMIAN NUMBER ONE" -> 69573
      [] name = "CHORASMIAN NUMBER TWO" -> 69574
      [] name = "CHORASMIAN NUMBER THREE" -> 69575
      [] name = "CHORASMIAN NUMBER FOUR" -> 69576
      [] name = "CHORASMIAN NUMBER TEN" -> 69577
      [] name = "CHORASMIAN NUMBER TWENTY" -> 69578
      [] name = "CHORASMIAN NUMBER ONE HUNDRED" -> 69579
      [] name = "ELYMAIC LETTER ALEPH" -> 69600
      [] name = "ELYMAIC LETTER BETH" -> 69601
      [] name = "ELYMAIC LETTER GIMEL" -> 69602
      [] name = "ELYMAIC LETTER DALETH" -> 69603
      [] name = "ELYMAIC LETTER HE" -> 69604
      [] name = "ELYMAIC LETTER WAW" -> 69605
      [] name = "ELYMAIC LETTER ZAYIN" -> 69606
      [] name = "ELYMAIC LETTER HETH" -> 69607
      [] name = "ELYMAIC LETTER TETH" -> 69608
      [] name = "ELYMAIC LETTER YODH" -> 69609
      [] name = "ELYMAIC LETTER KAPH" -> 69610
      [] name = "ELYMAIC LETTER LAMEDH" -> 69611
      [] name = "ELYMAIC LETTER MEM" -> 69612
      [] name = "ELYMAIC LETTER NUN" -> 69613
      [] name = "ELYMAIC LETTER SAMEKH" -> 69614
      [] name = "ELYMAIC LETTER AYIN" -> 69615
      [] name = "ELYMAIC LETTER PE" -> 69616
      [] name = "ELYMAIC LETTER SADHE" -> 69617
      [] name = "ELYMAIC LETTER QOPH" -> 69618
      [] name = "ELYMAIC LETTER RESH" -> 69619
      [] name = "ELYMAIC LETTER SHIN" -> 69620
      [] name = "ELYMAIC LETTER TAW" -> 69621
      [] name = "ELYMAIC LIGATURE ZAYIN-YODH" -> 69622
      [] name = "BRAHMI SIGN CANDRABINDU" -> 69632
      [] name = "BRAHMI SIGN ANUSVARA" -> 69633
      [] name = "BRAHMI SIGN VISARGA" -> 69634
      [] name = "BRAHMI SIGN JIHVAMULIYA" -> 69635
      [] name = "BRAHMI SIGN UPADHMANIYA" -> 69636
      [] name = "BRAHMI LETTER A" -> 69637
      [] name = "BRAHMI LETTER AA" -> 69638
      [] name = "BRAHMI LETTER I" -> 69639
      [] name = "BRAHMI LETTER II" -> 69640
      [] name = "BRAHMI LETTER U" -> 69641
      [] name = "BRAHMI LETTER UU" -> 69642
      [] name = "BRAHMI LETTER VOCALIC R" -> 69643
      [] name = "BRAHMI LETTER VOCALIC RR" -> 69644
      [] name = "BRAHMI LETTER VOCALIC L" -> 69645
      [] name = "BRAHMI LETTER VOCALIC LL" -> 69646
      [] name = "BRAHMI LETTER E" -> 69647
      [] name = "BRAHMI LETTER AI" -> 69648
      [] name = "BRAHMI LETTER O" -> 69649
      [] name = "BRAHMI LETTER AU" -> 69650
      [] name = "BRAHMI LETTER KA" -> 69651
      [] name = "BRAHMI LETTER KHA" -> 69652
      [] name = "BRAHMI LETTER GA" -> 69653
      [] name = "BRAHMI LETTER GHA" -> 69654
      [] name = "BRAHMI LETTER NGA" -> 69655
      [] name = "BRAHMI LETTER CA" -> 69656
      [] name = "BRAHMI LETTER CHA" -> 69657
      [] name = "BRAHMI LETTER JA" -> 69658
      [] name = "BRAHMI LETTER JHA" -> 69659
      [] name = "BRAHMI LETTER NYA" -> 69660
      [] name = "BRAHMI LETTER TTA" -> 69661
      [] name = "BRAHMI LETTER TTHA" -> 69662
      [] name = "BRAHMI LETTER DDA" -> 69663
      [] name = "BRAHMI LETTER DDHA" -> 69664
      [] name = "BRAHMI LETTER NNA" -> 69665
      [] name = "BRAHMI LETTER TA" -> 69666
      [] name = "BRAHMI LETTER THA" -> 69667
      [] name = "BRAHMI LETTER DA" -> 69668
      [] name = "BRAHMI LETTER DHA" -> 69669
      [] name = "BRAHMI LETTER NA" -> 69670
      [] name = "BRAHMI LETTER PA" -> 69671
      [] name = "BRAHMI LETTER PHA" -> 69672
      [] name = "BRAHMI LETTER BA" -> 69673
      [] name = "BRAHMI LETTER BHA" -> 69674
      [] name = "BRAHMI LETTER MA" -> 69675
      [] name = "BRAHMI LETTER YA" -> 69676
      [] name = "BRAHMI LETTER RA" -> 69677
      [] name = "BRAHMI LETTER LA" -> 69678
      [] name = "BRAHMI LETTER VA" -> 69679
      [] name = "BRAHMI LETTER SHA" -> 69680
      [] name = "BRAHMI LETTER SSA" -> 69681
      [] name = "BRAHMI LETTER SA" -> 69682
      [] name = "BRAHMI LETTER HA" -> 69683
      [] name = "BRAHMI LETTER LLA" -> 69684
      [] name = "BRAHMI LETTER OLD TAMIL LLLA" -> 69685
      [] name = "BRAHMI LETTER OLD TAMIL RRA" -> 69686
      [] name = "BRAHMI LETTER OLD TAMIL NNNA" -> 69687
      [] name = "BRAHMI VOWEL SIGN AA" -> 69688
      [] name = "BRAHMI VOWEL SIGN BHATTIPROLU AA" -> 69689
      [] name = "BRAHMI VOWEL SIGN I" -> 69690
      [] name = "BRAHMI VOWEL SIGN II" -> 69691
      [] name = "BRAHMI VOWEL SIGN U" -> 69692
      [] name = "BRAHMI VOWEL SIGN UU" -> 69693
      [] name = "BRAHMI VOWEL SIGN VOCALIC R" -> 69694
      [] name = "BRAHMI VOWEL SIGN VOCALIC RR" -> 69695
      [] name = "BRAHMI VOWEL SIGN VOCALIC L" -> 69696
      [] name = "BRAHMI VOWEL SIGN VOCALIC LL" -> 69697
      [] name = "BRAHMI VOWEL SIGN E" -> 69698
      [] name = "BRAHMI VOWEL SIGN AI" -> 69699
      [] name = "BRAHMI VOWEL SIGN O" -> 69700
      [] name = "BRAHMI VOWEL SIGN AU" -> 69701
      [] name = "BRAHMI VIRAMA" -> 69702
      [] name = "BRAHMI DANDA" -> 69703
      [] name = "BRAHMI DOUBLE DANDA" -> 69704
      [] name = "BRAHMI PUNCTUATION DOT" -> 69705
      [] name = "BRAHMI PUNCTUATION DOUBLE DOT" -> 69706
      [] name = "BRAHMI PUNCTUATION LINE" -> 69707
      [] name = "BRAHMI PUNCTUATION CRESCENT BAR" -> 69708
      [] name = "BRAHMI PUNCTUATION LOTUS" -> 69709
      [] name = "BRAHMI NUMBER ONE" -> 69714
      [] name = "BRAHMI NUMBER TWO" -> 69715
      [] name = "BRAHMI NUMBER THREE" -> 69716
      [] name = "BRAHMI NUMBER FOUR" -> 69717
      [] name = "BRAHMI NUMBER FIVE" -> 69718
      [] name = "BRAHMI NUMBER SIX" -> 69719
      [] name = "BRAHMI NUMBER SEVEN" -> 69720
      [] name = "BRAHMI NUMBER EIGHT" -> 69721
      [] name = "BRAHMI NUMBER NINE" -> 69722
      [] name = "BRAHMI NUMBER TEN" -> 69723
      [] name = "BRAHMI NUMBER TWENTY" -> 69724
      [] name = "BRAHMI NUMBER THIRTY" -> 69725
      [] name = "BRAHMI NUMBER FORTY" -> 69726
      [] name = "BRAHMI NUMBER FIFTY" -> 69727
      [] name = "BRAHMI NUMBER SIXTY" -> 69728
      [] name = "BRAHMI NUMBER SEVENTY" -> 69729
      [] name = "BRAHMI NUMBER EIGHTY" -> 69730
      [] name = "BRAHMI NUMBER NINETY" -> 69731
      [] name = "BRAHMI NUMBER ONE HUNDRED" -> 69732
      [] name = "BRAHMI NUMBER ONE THOUSAND" -> 69733
      [] name = "BRAHMI DIGIT ZERO" -> 69734
      [] name = "BRAHMI DIGIT ONE" -> 69735
      [] name = "BRAHMI DIGIT TWO" -> 69736
      [] name = "BRAHMI DIGIT THREE" -> 69737
      [] name = "BRAHMI DIGIT FOUR" -> 69738
      [] name = "BRAHMI DIGIT FIVE" -> 69739
      [] name = "BRAHMI DIGIT SIX" -> 69740
      [] name = "BRAHMI DIGIT SEVEN" -> 69741
      [] name = "BRAHMI DIGIT EIGHT" -> 69742
      [] name = "BRAHMI DIGIT NINE" -> 69743
      [] name = "BRAHMI SIGN OLD TAMIL VIRAMA" -> 69744
      [] name = "BRAHMI LETTER OLD TAMIL SHORT E" -> 69745
      [] name = "BRAHMI LETTER OLD TAMIL SHORT O" -> 69746
      [] name = "BRAHMI VOWEL SIGN OLD TAMIL SHORT E" -> 69747
      [] name = "BRAHMI VOWEL SIGN OLD TAMIL SHORT O" -> 69748
      [] name = "BRAHMI LETTER OLD TAMIL LLA" -> 69749
      [] name = "BRAHMI NUMBER JOINER" -> 69759
      [] name = "KAITHI SIGN CANDRABINDU" -> 69760
      [] name = "KAITHI SIGN ANUSVARA" -> 69761
      [] name = "KAITHI SIGN VISARGA" -> 69762
      [] name = "KAITHI LETTER A" -> 69763
      [] name = "KAITHI LETTER AA" -> 69764
      [] name = "KAITHI LETTER I" -> 69765
      [] name = "KAITHI LETTER II" -> 69766
      [] name = "KAITHI LETTER U" -> 69767
      [] name = "KAITHI LETTER UU" -> 69768
      [] name = "KAITHI LETTER E" -> 69769
      [] name = "KAITHI LETTER AI" -> 69770
      [] name = "KAITHI LETTER O" -> 69771
      [] name = "KAITHI LETTER AU" -> 69772
      [] name = "KAITHI LETTER KA" -> 69773
      [] name = "KAITHI LETTER KHA" -> 69774
      [] name = "KAITHI LETTER GA" -> 69775
      [] name = "KAITHI LETTER GHA" -> 69776
      [] name = "KAITHI LETTER NGA" -> 69777
      [] name = "KAITHI LETTER CA" -> 69778
      [] name = "KAITHI LETTER CHA" -> 69779
      [] name = "KAITHI LETTER JA" -> 69780
      [] name = "KAITHI LETTER JHA" -> 69781
      [] name = "KAITHI LETTER NYA" -> 69782
      [] name = "KAITHI LETTER TTA" -> 69783
      [] name = "KAITHI LETTER TTHA" -> 69784
      [] name = "KAITHI LETTER DDA" -> 69785
      [] name = "KAITHI LETTER DDDHA" -> 69786
      [] name = "KAITHI LETTER DDHA" -> 69787
      [] name = "KAITHI LETTER RHA" -> 69788
      [] name = "KAITHI LETTER NNA" -> 69789
      [] name = "KAITHI LETTER TA" -> 69790
      [] name = "KAITHI LETTER THA" -> 69791
      [] name = "KAITHI LETTER DA" -> 69792
      [] name = "KAITHI LETTER DHA" -> 69793
      [] name = "KAITHI LETTER NA" -> 69794
      [] name = "KAITHI LETTER PA" -> 69795
      [] name = "KAITHI LETTER PHA" -> 69796
      [] name = "KAITHI LETTER BA" -> 69797
      [] name = "KAITHI LETTER BHA" -> 69798
      [] name = "KAITHI LETTER MA" -> 69799
      [] name = "KAITHI LETTER YA" -> 69800
      [] name = "KAITHI LETTER RA" -> 69801
      [] name = "KAITHI LETTER LA" -> 69802
      [] name = "KAITHI LETTER VA" -> 69803
      [] name = "KAITHI LETTER SHA" -> 69804
      [] name = "KAITHI LETTER SSA" -> 69805
      [] name = "KAITHI LETTER SA" -> 69806
      [] name = "KAITHI LETTER HA" -> 69807
      [] name = "KAITHI VOWEL SIGN AA" -> 69808
      [] name = "KAITHI VOWEL SIGN I" -> 69809
      [] name = "KAITHI VOWEL SIGN II" -> 69810
      [] name = "KAITHI VOWEL SIGN U" -> 69811
      [] name = "KAITHI VOWEL SIGN UU" -> 69812
      [] name = "KAITHI VOWEL SIGN E" -> 69813
      [] name = "KAITHI VOWEL SIGN AI" -> 69814
      [] name = "KAITHI VOWEL SIGN O" -> 69815
      [] name = "KAITHI VOWEL SIGN AU" -> 69816
      [] name = "KAITHI SIGN VIRAMA" -> 69817
      [] name = "KAITHI SIGN NUKTA" -> 69818
      [] name = "KAITHI ABBREVIATION SIGN" -> 69819
      [] name = "KAITHI ENUMERATION SIGN" -> 69820
      [] name = "KAITHI NUMBER SIGN" -> 69821
      [] name = "KAITHI SECTION MARK" -> 69822
      [] name = "KAITHI DOUBLE SECTION MARK" -> 69823
      [] name = "KAITHI DANDA" -> 69824
      [] name = "KAITHI DOUBLE DANDA" -> 69825
      [] name = "KAITHI VOWEL SIGN VOCALIC R" -> 69826
      [] name = "KAITHI NUMBER SIGN ABOVE" -> 69837
      [] name = "SORA SOMPENG LETTER SAH" -> 69840
      [] name = "SORA SOMPENG LETTER TAH" -> 69841
      [] name = "SORA SOMPENG LETTER BAH" -> 69842
      [] name = "SORA SOMPENG LETTER CAH" -> 69843
      [] name = "SORA SOMPENG LETTER DAH" -> 69844
      [] name = "SORA SOMPENG LETTER GAH" -> 69845
      [] name = "SORA SOMPENG LETTER MAH" -> 69846
      [] name = "SORA SOMPENG LETTER NGAH" -> 69847
      [] name = "SORA SOMPENG LETTER LAH" -> 69848
      [] name = "SORA SOMPENG LETTER NAH" -> 69849
      [] name = "SORA SOMPENG LETTER VAH" -> 69850
      [] name = "SORA SOMPENG LETTER PAH" -> 69851
      [] name = "SORA SOMPENG LETTER YAH" -> 69852
      [] name = "SORA SOMPENG LETTER RAH" -> 69853
      [] name = "SORA SOMPENG LETTER HAH" -> 69854
      [] name = "SORA SOMPENG LETTER KAH" -> 69855
      [] name = "SORA SOMPENG LETTER JAH" -> 69856
      [] name = "SORA SOMPENG LETTER NYAH" -> 69857
      [] name = "SORA SOMPENG LETTER AH" -> 69858
      [] name = "SORA SOMPENG LETTER EEH" -> 69859
      [] name = "SORA SOMPENG LETTER IH" -> 69860
      [] name = "SORA SOMPENG LETTER UH" -> 69861
      [] name = "SORA SOMPENG LETTER OH" -> 69862
      [] name = "SORA SOMPENG LETTER EH" -> 69863
      [] name = "SORA SOMPENG LETTER MAE" -> 69864
      [] name = "SORA SOMPENG DIGIT ZERO" -> 69872
      [] name = "SORA SOMPENG DIGIT ONE" -> 69873
      [] name = "SORA SOMPENG DIGIT TWO" -> 69874
      [] name = "SORA SOMPENG DIGIT THREE" -> 69875
      [] name = "SORA SOMPENG DIGIT FOUR" -> 69876
      [] name = "SORA SOMPENG DIGIT FIVE" -> 69877
      [] name = "SORA SOMPENG DIGIT SIX" -> 69878
      [] name = "SORA SOMPENG DIGIT SEVEN" -> 69879
      [] name = "SORA SOMPENG DIGIT EIGHT" -> 69880
      [] name = "SORA SOMPENG DIGIT NINE" -> 69881
      [] name = "CHAKMA SIGN CANDRABINDU" -> 69888
      [] name = "CHAKMA SIGN ANUSVARA" -> 69889
      [] name = "CHAKMA SIGN VISARGA" -> 69890
      [] name = "CHAKMA LETTER AA" -> 69891
      [] name = "CHAKMA LETTER I" -> 69892
      [] name = "CHAKMA LETTER U" -> 69893
      [] name = "CHAKMA LETTER E" -> 69894
      [] name = "CHAKMA LETTER KAA" -> 69895
      [] name = "CHAKMA LETTER KHAA" -> 69896
      [] name = "CHAKMA LETTER GAA" -> 69897
      [] name = "CHAKMA LETTER GHAA" -> 69898
      [] name = "CHAKMA LETTER NGAA" -> 69899
      [] name = "CHAKMA LETTER CAA" -> 69900
      [] name = "CHAKMA LETTER CHAA" -> 69901
      [] name = "CHAKMA LETTER JAA" -> 69902
      [] name = "CHAKMA LETTER JHAA" -> 69903
      [] name = "CHAKMA LETTER NYAA" -> 69904
      [] name = "CHAKMA LETTER TTAA" -> 69905
      [] name = "CHAKMA LETTER TTHAA" -> 69906
      [] name = "CHAKMA LETTER DDAA" -> 69907
      [] name = "CHAKMA LETTER DDHAA" -> 69908
      [] name = "CHAKMA LETTER NNAA" -> 69909
      [] name = "CHAKMA LETTER TAA" -> 69910
      [] name = "CHAKMA LETTER THAA" -> 69911
      [] name = "CHAKMA LETTER DAA" -> 69912
      [] name = "CHAKMA LETTER DHAA" -> 69913
      [] name = "CHAKMA LETTER NAA" -> 69914
      [] name = "CHAKMA LETTER PAA" -> 69915
      [] name = "CHAKMA LETTER PHAA" -> 69916
      [] name = "CHAKMA LETTER BAA" -> 69917
      [] name = "CHAKMA LETTER BHAA" -> 69918
      [] name = "CHAKMA LETTER MAA" -> 69919
      [] name = "CHAKMA LETTER YYAA" -> 69920
      [] name = "CHAKMA LETTER YAA" -> 69921
      [] name = "CHAKMA LETTER RAA" -> 69922
      [] name = "CHAKMA LETTER LAA" -> 69923
      [] name = "CHAKMA LETTER WAA" -> 69924
      [] name = "CHAKMA LETTER SAA" -> 69925
      [] name = "CHAKMA LETTER HAA" -> 69926
      [] name = "CHAKMA VOWEL SIGN A" -> 69927
      [] name = "CHAKMA VOWEL SIGN I" -> 69928
      [] name = "CHAKMA VOWEL SIGN II" -> 69929
      [] name = "CHAKMA VOWEL SIGN U" -> 69930
      [] name = "CHAKMA VOWEL SIGN UU" -> 69931
      [] name = "CHAKMA VOWEL SIGN E" -> 69932
      [] name = "CHAKMA VOWEL SIGN AI" -> 69933
      [] name = "CHAKMA VOWEL SIGN O" -> 69934
      [] name = "CHAKMA VOWEL SIGN AU" -> 69935
      [] name = "CHAKMA VOWEL SIGN OI" -> 69936
      [] name = "CHAKMA O MARK" -> 69937
      [] name = "CHAKMA AU MARK" -> 69938
      [] name = "CHAKMA VIRAMA" -> 69939
      [] name = "CHAKMA MAAYYAA" -> 69940
      [] name = "CHAKMA DIGIT ZERO" -> 69942
      [] name = "CHAKMA DIGIT ONE" -> 69943
      [] name = "CHAKMA DIGIT TWO" -> 69944
      [] name = "CHAKMA DIGIT THREE" -> 69945
      [] name = "CHAKMA DIGIT FOUR" -> 69946
      [] name = "CHAKMA DIGIT FIVE" -> 69947
      [] name = "CHAKMA DIGIT SIX" -> 69948
      [] name = "CHAKMA DIGIT SEVEN" -> 69949
      [] name = "CHAKMA DIGIT EIGHT" -> 69950
      [] name = "CHAKMA DIGIT NINE" -> 69951
      [] name = "CHAKMA SECTION MARK" -> 69952
      [] name = "CHAKMA DANDA" -> 69953
      [] name = "CHAKMA DOUBLE DANDA" -> 69954
      [] name = "CHAKMA QUESTION MARK" -> 69955
      [] name = "CHAKMA LETTER LHAA" -> 69956
      [] name = "CHAKMA VOWEL SIGN AA" -> 69957
      [] name = "CHAKMA VOWEL SIGN EI" -> 69958
      [] name = "CHAKMA LETTER VAA" -> 69959
      [] name = "MAHAJANI LETTER A" -> 69968
      [] name = "MAHAJANI LETTER I" -> 69969
      [] name = "MAHAJANI LETTER U" -> 69970
      [] name = "MAHAJANI LETTER E" -> 69971
      [] name = "MAHAJANI LETTER O" -> 69972
      [] name = "MAHAJANI LETTER KA" -> 69973
      [] name = "MAHAJANI LETTER KHA" -> 69974
      [] name = "MAHAJANI LETTER GA" -> 69975
      [] name = "MAHAJANI LETTER GHA" -> 69976
      [] name = "MAHAJANI LETTER CA" -> 69977
      [] name = "MAHAJANI LETTER CHA" -> 69978
      [] name = "MAHAJANI LETTER JA" -> 69979
      [] name = "MAHAJANI LETTER JHA" -> 69980
      [] name = "MAHAJANI LETTER NYA" -> 69981
      [] name = "MAHAJANI LETTER TTA" -> 69982
      [] name = "MAHAJANI LETTER TTHA" -> 69983
      [] name = "MAHAJANI LETTER DDA" -> 69984
      [] name = "MAHAJANI LETTER DDHA" -> 69985
      [] name = "MAHAJANI LETTER NNA" -> 69986
      [] name = "MAHAJANI LETTER TA" -> 69987
      [] name = "MAHAJANI LETTER THA" -> 69988
      [] name = "MAHAJANI LETTER DA" -> 69989
      [] name = "MAHAJANI LETTER DHA" -> 69990
      [] name = "MAHAJANI LETTER NA" -> 69991
      [] name = "MAHAJANI LETTER PA" -> 69992
      [] name = "MAHAJANI LETTER PHA" -> 69993
      [] name = "MAHAJANI LETTER BA" -> 69994
      [] name = "MAHAJANI LETTER BHA" -> 69995
      [] name = "MAHAJANI LETTER MA" -> 69996
      [] name = "MAHAJANI LETTER RA" -> 69997
      [] name = "MAHAJANI LETTER LA" -> 69998
      [] name = "MAHAJANI LETTER VA" -> 69999
      [] name = "MAHAJANI LETTER SA" -> 70000
      [] name = "MAHAJANI LETTER HA" -> 70001
      [] name = "MAHAJANI LETTER RRA" -> 70002
      [] name = "MAHAJANI SIGN NUKTA" -> 70003
      [] name = "MAHAJANI ABBREVIATION SIGN" -> 70004
      [] name = "MAHAJANI SECTION MARK" -> 70005
      [] name = "MAHAJANI LIGATURE SHRI" -> 70006
      [] name = "SHARADA SIGN CANDRABINDU" -> 70016
      [] name = "SHARADA SIGN ANUSVARA" -> 70017
      [] name = "SHARADA SIGN VISARGA" -> 70018
      [] name = "SHARADA LETTER A" -> 70019
      [] name = "SHARADA LETTER AA" -> 70020
      [] name = "SHARADA LETTER I" -> 70021
      [] name = "SHARADA LETTER II" -> 70022
      [] name = "SHARADA LETTER U" -> 70023
      [] name = "SHARADA LETTER UU" -> 70024
      [] name = "SHARADA LETTER VOCALIC R" -> 70025
      [] name = "SHARADA LETTER VOCALIC RR" -> 70026
      [] name = "SHARADA LETTER VOCALIC L" -> 70027
      [] name = "SHARADA LETTER VOCALIC LL" -> 70028
      [] name = "SHARADA LETTER E" -> 70029
      [] name = "SHARADA LETTER AI" -> 70030
      [] name = "SHARADA LETTER O" -> 70031
      [] name = "SHARADA LETTER AU" -> 70032
      [] name = "SHARADA LETTER KA" -> 70033
      [] name = "SHARADA LETTER KHA" -> 70034
      [] name = "SHARADA LETTER GA" -> 70035
      [] name = "SHARADA LETTER GHA" -> 70036
      [] name = "SHARADA LETTER NGA" -> 70037
      [] name = "SHARADA LETTER CA" -> 70038
      [] name = "SHARADA LETTER CHA" -> 70039
      [] name = "SHARADA LETTER JA" -> 70040
      [] name = "SHARADA LETTER JHA" -> 70041
      [] name = "SHARADA LETTER NYA" -> 70042
      [] name = "SHARADA LETTER TTA" -> 70043
      [] name = "SHARADA LETTER TTHA" -> 70044
      [] name = "SHARADA LETTER DDA" -> 70045
      [] name = "SHARADA LETTER DDHA" -> 70046
      [] name = "SHARADA LETTER NNA" -> 70047
      [] name = "SHARADA LETTER TA" -> 70048
      [] name = "SHARADA LETTER THA" -> 70049
      [] name = "SHARADA LETTER DA" -> 70050
      [] name = "SHARADA LETTER DHA" -> 70051
      [] name = "SHARADA LETTER NA" -> 70052
      [] name = "SHARADA LETTER PA" -> 70053
      [] name = "SHARADA LETTER PHA" -> 70054
      [] name = "SHARADA LETTER BA" -> 70055
      [] name = "SHARADA LETTER BHA" -> 70056
      [] name = "SHARADA LETTER MA" -> 70057
      [] name = "SHARADA LETTER YA" -> 70058
      [] name = "SHARADA LETTER RA" -> 70059
      [] name = "SHARADA LETTER LA" -> 70060
      [] name = "SHARADA LETTER LLA" -> 70061
      [] name = "SHARADA LETTER VA" -> 70062
      [] name = "SHARADA LETTER SHA" -> 70063
      [] name = "SHARADA LETTER SSA" -> 70064
      [] name = "SHARADA LETTER SA" -> 70065
      [] name = "SHARADA LETTER HA" -> 70066
      [] name = "SHARADA VOWEL SIGN AA" -> 70067
      [] name = "SHARADA VOWEL SIGN I" -> 70068
      [] name = "SHARADA VOWEL SIGN II" -> 70069
      [] name = "SHARADA VOWEL SIGN U" -> 70070
      [] name = "SHARADA VOWEL SIGN UU" -> 70071
      [] name = "SHARADA VOWEL SIGN VOCALIC R" -> 70072
      [] name = "SHARADA VOWEL SIGN VOCALIC RR" -> 70073
      [] name = "SHARADA VOWEL SIGN VOCALIC L" -> 70074
      [] name = "SHARADA VOWEL SIGN VOCALIC LL" -> 70075
      [] name = "SHARADA VOWEL SIGN E" -> 70076
      [] name = "SHARADA VOWEL SIGN AI" -> 70077
      [] name = "SHARADA VOWEL SIGN O" -> 70078
      [] name = "SHARADA VOWEL SIGN AU" -> 70079
      [] name = "SHARADA SIGN VIRAMA" -> 70080
      [] name = "SHARADA SIGN AVAGRAHA" -> 70081
      [] name = "SHARADA SIGN JIHVAMULIYA" -> 70082
      [] name = "SHARADA SIGN UPADHMANIYA" -> 70083
      [] name = "SHARADA OM" -> 70084
      [] name = "SHARADA DANDA" -> 70085
      [] name = "SHARADA DOUBLE DANDA" -> 70086
      [] name = "SHARADA ABBREVIATION SIGN" -> 70087
      [] name = "SHARADA SEPARATOR" -> 70088
      [] name = "SHARADA SANDHI MARK" -> 70089
      [] name = "SHARADA SIGN NUKTA" -> 70090
      [] name = "SHARADA VOWEL MODIFIER MARK" -> 70091
      [] name = "SHARADA EXTRA SHORT VOWEL MARK" -> 70092
      [] name = "SHARADA SUTRA MARK" -> 70093
      [] name = "SHARADA VOWEL SIGN PRISHTHAMATRA E" -> 70094
      [] name = "SHARADA SIGN INVERTED CANDRABINDU" -> 70095
      [] name = "SHARADA DIGIT ZERO" -> 70096
      [] name = "SHARADA DIGIT ONE" -> 70097
      [] name = "SHARADA DIGIT TWO" -> 70098
      [] name = "SHARADA DIGIT THREE" -> 70099
      [] name = "SHARADA DIGIT FOUR" -> 70100
      [] name = "SHARADA DIGIT FIVE" -> 70101
      [] name = "SHARADA DIGIT SIX" -> 70102
      [] name = "SHARADA DIGIT SEVEN" -> 70103
      [] name = "SHARADA DIGIT EIGHT" -> 70104
      [] name = "SHARADA DIGIT NINE" -> 70105
      [] name = "SHARADA EKAM" -> 70106
      [] name = "SHARADA SIGN SIDDHAM" -> 70107
      [] name = "SHARADA HEADSTROKE" -> 70108
      [] name = "SHARADA CONTINUATION SIGN" -> 70109
      [] name = "SHARADA SECTION MARK-1" -> 70110
      [] name = "SHARADA SECTION MARK-2" -> 70111
      [] name = "SINHALA ARCHAIC DIGIT ONE" -> 70113
      [] name = "SINHALA ARCHAIC DIGIT TWO" -> 70114
      [] name = "SINHALA ARCHAIC DIGIT THREE" -> 70115
      [] name = "SINHALA ARCHAIC DIGIT FOUR" -> 70116
      [] name = "SINHALA ARCHAIC DIGIT FIVE" -> 70117
      [] name = "SINHALA ARCHAIC DIGIT SIX" -> 70118
      [] name = "SINHALA ARCHAIC DIGIT SEVEN" -> 70119
      [] name = "SINHALA ARCHAIC DIGIT EIGHT" -> 70120
      [] name = "SINHALA ARCHAIC DIGIT NINE" -> 70121
      [] name = "SINHALA ARCHAIC NUMBER TEN" -> 70122
      [] name = "SINHALA ARCHAIC NUMBER TWENTY" -> 70123
      [] name = "SINHALA ARCHAIC NUMBER THIRTY" -> 70124
      [] name = "SINHALA ARCHAIC NUMBER FORTY" -> 70125
      [] name = "SINHALA ARCHAIC NUMBER FIFTY" -> 70126
      [] name = "SINHALA ARCHAIC NUMBER SIXTY" -> 70127
      [] name = "SINHALA ARCHAIC NUMBER SEVENTY" -> 70128
      [] name = "SINHALA ARCHAIC NUMBER EIGHTY" -> 70129
      [] name = "SINHALA ARCHAIC NUMBER NINETY" -> 70130
      [] name = "SINHALA ARCHAIC NUMBER ONE HUNDRED" -> 70131
      [] name = "SINHALA ARCHAIC NUMBER ONE THOUSAND" -> 70132
      [] name = "KHOJKI LETTER A" -> 70144
      [] name = "KHOJKI LETTER AA" -> 70145
      [] name = "KHOJKI LETTER I" -> 70146
      [] name = "KHOJKI LETTER U" -> 70147
      [] name = "KHOJKI LETTER E" -> 70148
      [] name = "KHOJKI LETTER AI" -> 70149
      [] name = "KHOJKI LETTER O" -> 70150
      [] name = "KHOJKI LETTER AU" -> 70151
      [] name = "KHOJKI LETTER KA" -> 70152
      [] name = "KHOJKI LETTER KHA" -> 70153
      [] name = "KHOJKI LETTER GA" -> 70154
      [] name = "KHOJKI LETTER GGA" -> 70155
      [] name = "KHOJKI LETTER GHA" -> 70156
      [] name = "KHOJKI LETTER NGA" -> 70157
      [] name = "KHOJKI LETTER CA" -> 70158
      [] name = "KHOJKI LETTER CHA" -> 70159
      [] name = "KHOJKI LETTER JA" -> 70160
      [] name = "KHOJKI LETTER JJA" -> 70161
      [] name = "KHOJKI LETTER NYA" -> 70163
      [] name = "KHOJKI LETTER TTA" -> 70164
      [] name = "KHOJKI LETTER TTHA" -> 70165
      [] name = "KHOJKI LETTER DDA" -> 70166
      [] name = "KHOJKI LETTER DDHA" -> 70167
      [] name = "KHOJKI LETTER NNA" -> 70168
      [] name = "KHOJKI LETTER TA" -> 70169
      [] name = "KHOJKI LETTER THA" -> 70170
      [] name = "KHOJKI LETTER DA" -> 70171
      [] name = "KHOJKI LETTER DDDA" -> 70172
      [] name = "KHOJKI LETTER DHA" -> 70173
      [] name = "KHOJKI LETTER NA" -> 70174
      [] name = "KHOJKI LETTER PA" -> 70175
      [] name = "KHOJKI LETTER PHA" -> 70176
      [] name = "KHOJKI LETTER BA" -> 70177
      [] name = "KHOJKI LETTER BBA" -> 70178
      [] name = "KHOJKI LETTER BHA" -> 70179
      [] name = "KHOJKI LETTER MA" -> 70180
      [] name = "KHOJKI LETTER YA" -> 70181
      [] name = "KHOJKI LETTER RA" -> 70182
      [] name = "KHOJKI LETTER LA" -> 70183
      [] name = "KHOJKI LETTER VA" -> 70184
      [] name = "KHOJKI LETTER SA" -> 70185
      [] name = "KHOJKI LETTER HA" -> 70186
      [] name = "KHOJKI LETTER LLA" -> 70187
      [] name = "KHOJKI VOWEL SIGN AA" -> 70188
      [] name = "KHOJKI VOWEL SIGN I" -> 70189
      [] name = "KHOJKI VOWEL SIGN II" -> 70190
      [] name = "KHOJKI VOWEL SIGN U" -> 70191
      [] name = "KHOJKI VOWEL SIGN E" -> 70192
      [] name = "KHOJKI VOWEL SIGN AI" -> 70193
      [] name = "KHOJKI VOWEL SIGN O" -> 70194
      [] name = "KHOJKI VOWEL SIGN AU" -> 70195
      [] name = "KHOJKI SIGN ANUSVARA" -> 70196
      [] name = "KHOJKI SIGN VIRAMA" -> 70197
      [] name = "KHOJKI SIGN NUKTA" -> 70198
      [] name = "KHOJKI SIGN SHADDA" -> 70199
      [] name = "KHOJKI DANDA" -> 70200
      [] name = "KHOJKI DOUBLE DANDA" -> 70201
      [] name = "KHOJKI WORD SEPARATOR" -> 70202
      [] name = "KHOJKI SECTION MARK" -> 70203
      [] name = "KHOJKI DOUBLE SECTION MARK" -> 70204
      [] name = "KHOJKI ABBREVIATION SIGN" -> 70205
      [] name = "KHOJKI SIGN SUKUN" -> 70206
      [] name = "MULTANI LETTER A" -> 70272
      [] name = "MULTANI LETTER I" -> 70273
      [] name = "MULTANI LETTER U" -> 70274
      [] name = "MULTANI LETTER E" -> 70275
      [] name = "MULTANI LETTER KA" -> 70276
      [] name = "MULTANI LETTER KHA" -> 70277
      [] name = "MULTANI LETTER GA" -> 70278
      [] name = "MULTANI LETTER GHA" -> 70280
      [] name = "MULTANI LETTER CA" -> 70282
      [] name = "MULTANI LETTER CHA" -> 70283
      [] name = "MULTANI LETTER JA" -> 70284
      [] name = "MULTANI LETTER JJA" -> 70285
      [] name = "MULTANI LETTER NYA" -> 70287
      [] name = "MULTANI LETTER TTA" -> 70288
      [] name = "MULTANI LETTER TTHA" -> 70289
      [] name = "MULTANI LETTER DDA" -> 70290
      [] name = "MULTANI LETTER DDDA" -> 70291
      [] name = "MULTANI LETTER DDHA" -> 70292
      [] name = "MULTANI LETTER NNA" -> 70293
      [] name = "MULTANI LETTER TA" -> 70294
      [] name = "MULTANI LETTER THA" -> 70295
      [] name = "MULTANI LETTER DA" -> 70296
      [] name = "MULTANI LETTER DHA" -> 70297
      [] name = "MULTANI LETTER NA" -> 70298
      [] name = "MULTANI LETTER PA" -> 70299
      [] name = "MULTANI LETTER PHA" -> 70300
      [] name = "MULTANI LETTER BA" -> 70301
      [] name = "MULTANI LETTER BHA" -> 70303
      [] name = "MULTANI LETTER MA" -> 70304
      [] name = "MULTANI LETTER YA" -> 70305
      [] name = "MULTANI LETTER RA" -> 70306
      [] name = "MULTANI LETTER LA" -> 70307
      [] name = "MULTANI LETTER VA" -> 70308
      [] name = "MULTANI LETTER SA" -> 70309
      [] name = "MULTANI LETTER HA" -> 70310
      [] name = "MULTANI LETTER RRA" -> 70311
      [] name = "MULTANI LETTER RHA" -> 70312
      [] name = "MULTANI SECTION MARK" -> 70313
      [] name = "KHUDAWADI LETTER A" -> 70320
      [] name = "KHUDAWADI LETTER AA" -> 70321
      [] name = "KHUDAWADI LETTER I" -> 70322
      [] name = "KHUDAWADI LETTER II" -> 70323
      [] name = "KHUDAWADI LETTER U" -> 70324
      [] name = "KHUDAWADI LETTER UU" -> 70325
      [] name = "KHUDAWADI LETTER E" -> 70326
      [] name = "KHUDAWADI LETTER AI" -> 70327
      [] name = "KHUDAWADI LETTER O" -> 70328
      [] name = "KHUDAWADI LETTER AU" -> 70329
      [] name = "KHUDAWADI LETTER KA" -> 70330
      [] name = "KHUDAWADI LETTER KHA" -> 70331
      [] name = "KHUDAWADI LETTER GA" -> 70332
      [] name = "KHUDAWADI LETTER GGA" -> 70333
      [] name = "KHUDAWADI LETTER GHA" -> 70334
      [] name = "KHUDAWADI LETTER NGA" -> 70335
      [] name = "KHUDAWADI LETTER CA" -> 70336
      [] name = "KHUDAWADI LETTER CHA" -> 70337
      [] name = "KHUDAWADI LETTER JA" -> 70338
      [] name = "KHUDAWADI LETTER JJA" -> 70339
      [] name = "KHUDAWADI LETTER JHA" -> 70340
      [] name = "KHUDAWADI LETTER NYA" -> 70341
      [] name = "KHUDAWADI LETTER TTA" -> 70342
      [] name = "KHUDAWADI LETTER TTHA" -> 70343
      [] name = "KHUDAWADI LETTER DDA" -> 70344
      [] name = "KHUDAWADI LETTER DDDA" -> 70345
      [] name = "KHUDAWADI LETTER RRA" -> 70346
      [] name = "KHUDAWADI LETTER DDHA" -> 70347
      [] name = "KHUDAWADI LETTER NNA" -> 70348
      [] name = "KHUDAWADI LETTER TA" -> 70349
      [] name = "KHUDAWADI LETTER THA" -> 70350
      [] name = "KHUDAWADI LETTER DA" -> 70351
      [] name = "KHUDAWADI LETTER DHA" -> 70352
      [] name = "KHUDAWADI LETTER NA" -> 70353
      [] name = "KHUDAWADI LETTER PA" -> 70354
      [] name = "KHUDAWADI LETTER PHA" -> 70355
      [] name = "KHUDAWADI LETTER BA" -> 70356
      [] name = "KHUDAWADI LETTER BBA" -> 70357
      [] name = "KHUDAWADI LETTER BHA" -> 70358
      [] name = "KHUDAWADI LETTER MA" -> 70359
      [] name = "KHUDAWADI LETTER YA" -> 70360
      [] name = "KHUDAWADI LETTER RA" -> 70361
      [] name = "KHUDAWADI LETTER LA" -> 70362
      [] name = "KHUDAWADI LETTER VA" -> 70363
      [] name = "KHUDAWADI LETTER SHA" -> 70364
      [] name = "KHUDAWADI LETTER SA" -> 70365
      [] name = "KHUDAWADI LETTER HA" -> 70366
      [] name = "KHUDAWADI SIGN ANUSVARA" -> 70367
      [] name = "KHUDAWADI VOWEL SIGN AA" -> 70368
      [] name = "KHUDAWADI VOWEL SIGN I" -> 70369
      [] name = "KHUDAWADI VOWEL SIGN II" -> 70370
      [] name = "KHUDAWADI VOWEL SIGN U" -> 70371
      [] name = "KHUDAWADI VOWEL SIGN UU" -> 70372
      [] name = "KHUDAWADI VOWEL SIGN E" -> 70373
      [] name = "KHUDAWADI VOWEL SIGN AI" -> 70374
      [] name = "KHUDAWADI VOWEL SIGN O" -> 70375
      [] name = "KHUDAWADI VOWEL SIGN AU" -> 70376
      [] name = "KHUDAWADI SIGN NUKTA" -> 70377
      [] name = "KHUDAWADI SIGN VIRAMA" -> 70378
      [] name = "KHUDAWADI DIGIT ZERO" -> 70384
      [] name = "KHUDAWADI DIGIT ONE" -> 70385
      [] name = "KHUDAWADI DIGIT TWO" -> 70386
      [] name = "KHUDAWADI DIGIT THREE" -> 70387
      [] name = "KHUDAWADI DIGIT FOUR" -> 70388
      [] name = "KHUDAWADI DIGIT FIVE" -> 70389
      [] name = "KHUDAWADI DIGIT SIX" -> 70390
      [] name = "KHUDAWADI DIGIT SEVEN" -> 70391
      [] name = "KHUDAWADI DIGIT EIGHT" -> 70392
      [] name = "KHUDAWADI DIGIT NINE" -> 70393
      [] name = "GRANTHA SIGN COMBINING ANUSVARA ABOVE" -> 70400
      [] name = "GRANTHA SIGN CANDRABINDU" -> 70401
      [] name = "GRANTHA SIGN ANUSVARA" -> 70402
      [] name = "GRANTHA SIGN VISARGA" -> 70403
      [] name = "GRANTHA LETTER A" -> 70405
      [] name = "GRANTHA LETTER AA" -> 70406
      [] name = "GRANTHA LETTER I" -> 70407
      [] name = "GRANTHA LETTER II" -> 70408
      [] name = "GRANTHA LETTER U" -> 70409
      [] name = "GRANTHA LETTER UU" -> 70410
      [] name = "GRANTHA LETTER VOCALIC R" -> 70411
      [] name = "GRANTHA LETTER VOCALIC L" -> 70412
      [] name = "GRANTHA LETTER EE" -> 70415
      [] name = "GRANTHA LETTER AI" -> 70416
      [] name = "GRANTHA LETTER OO" -> 70419
      [] name = "GRANTHA LETTER AU" -> 70420
      [] name = "GRANTHA LETTER KA" -> 70421
      [] name = "GRANTHA LETTER KHA" -> 70422
      [] name = "GRANTHA LETTER GA" -> 70423
      [] name = "GRANTHA LETTER GHA" -> 70424
      [] name = "GRANTHA LETTER NGA" -> 70425
      [] name = "GRANTHA LETTER CA" -> 70426
      [] name = "GRANTHA LETTER CHA" -> 70427
      [] name = "GRANTHA LETTER JA" -> 70428
      [] name = "GRANTHA LETTER JHA" -> 70429
      [] name = "GRANTHA LETTER NYA" -> 70430
      [] name = "GRANTHA LETTER TTA" -> 70431
      [] name = "GRANTHA LETTER TTHA" -> 70432
      [] name = "GRANTHA LETTER DDA" -> 70433
      [] name = "GRANTHA LETTER DDHA" -> 70434
      [] name = "GRANTHA LETTER NNA" -> 70435
      [] name = "GRANTHA LETTER TA" -> 70436
      [] name = "GRANTHA LETTER THA" -> 70437
      [] name = "GRANTHA LETTER DA" -> 70438
      [] name = "GRANTHA LETTER DHA" -> 70439
      [] name = "GRANTHA LETTER NA" -> 70440
      [] name = "GRANTHA LETTER PA" -> 70442
      [] name = "GRANTHA LETTER PHA" -> 70443
      [] name = "GRANTHA LETTER BA" -> 70444
      [] name = "GRANTHA LETTER BHA" -> 70445
      [] name = "GRANTHA LETTER MA" -> 70446
      [] name = "GRANTHA LETTER YA" -> 70447
      [] name = "GRANTHA LETTER RA" -> 70448
      [] name = "GRANTHA LETTER LA" -> 70450
      [] name = "GRANTHA LETTER LLA" -> 70451
      [] name = "GRANTHA LETTER VA" -> 70453
      [] name = "GRANTHA LETTER SHA" -> 70454
      [] name = "GRANTHA LETTER SSA" -> 70455
      [] name = "GRANTHA LETTER SA" -> 70456
      [] name = "GRANTHA LETTER HA" -> 70457
      [] name = "COMBINING BINDU BELOW" -> 70459
      [] name = "GRANTHA SIGN NUKTA" -> 70460
      [] name = "GRANTHA SIGN AVAGRAHA" -> 70461
      [] name = "GRANTHA VOWEL SIGN AA" -> 70462
      [] name = "GRANTHA VOWEL SIGN I" -> 70463
      [] name = "GRANTHA VOWEL SIGN II" -> 70464
      [] name = "GRANTHA VOWEL SIGN U" -> 70465
      [] name = "GRANTHA VOWEL SIGN UU" -> 70466
      [] name = "GRANTHA VOWEL SIGN VOCALIC R" -> 70467
      [] name = "GRANTHA VOWEL SIGN VOCALIC RR" -> 70468
      [] name = "GRANTHA VOWEL SIGN EE" -> 70471
      [] name = "GRANTHA VOWEL SIGN AI" -> 70472
      [] name = "GRANTHA VOWEL SIGN OO" -> 70475
      [] name = "GRANTHA VOWEL SIGN AU" -> 70476
      [] name = "GRANTHA SIGN VIRAMA" -> 70477
      [] name = "GRANTHA OM" -> 70480
      [] name = "GRANTHA AU LENGTH MARK" -> 70487
      [] name = "GRANTHA SIGN PLUTA" -> 70493
      [] name = "GRANTHA LETTER VEDIC ANUSVARA" -> 70494
      [] name = "GRANTHA LETTER VEDIC DOUBLE ANUSVARA" -> 70495
      [] name = "GRANTHA LETTER VOCALIC RR" -> 70496
      [] name = "GRANTHA LETTER VOCALIC LL" -> 70497
      [] name = "GRANTHA VOWEL SIGN VOCALIC L" -> 70498
      [] name = "GRANTHA VOWEL SIGN VOCALIC LL" -> 70499
      [] name = "COMBINING GRANTHA DIGIT ZERO" -> 70502
      [] name = "COMBINING GRANTHA DIGIT ONE" -> 70503
      [] name = "COMBINING GRANTHA DIGIT TWO" -> 70504
      [] name = "COMBINING GRANTHA DIGIT THREE" -> 70505
      [] name = "COMBINING GRANTHA DIGIT FOUR" -> 70506
      [] name = "COMBINING GRANTHA DIGIT FIVE" -> 70507
      [] name = "COMBINING GRANTHA DIGIT SIX" -> 70508
      [] name = "COMBINING GRANTHA LETTER A" -> 70512
      [] name = "COMBINING GRANTHA LETTER KA" -> 70513
      [] name = "COMBINING GRANTHA LETTER NA" -> 70514
      [] name = "COMBINING GRANTHA LETTER VI" -> 70515
      [] name = "COMBINING GRANTHA LETTER PA" -> 70516
      [] name = "NEWA LETTER A" -> 70656
      [] name = "NEWA LETTER AA" -> 70657
      [] name = "NEWA LETTER I" -> 70658
      [] name = "NEWA LETTER II" -> 70659
      [] name = "NEWA LETTER U" -> 70660
      [] name = "NEWA LETTER UU" -> 70661
      [] name = "NEWA LETTER VOCALIC R" -> 70662
      [] name = "NEWA LETTER VOCALIC RR" -> 70663
      [] name = "NEWA LETTER VOCALIC L" -> 70664
      [] name = "NEWA LETTER VOCALIC LL" -> 70665
      [] name = "NEWA LETTER E" -> 70666
      [] name = "NEWA LETTER AI" -> 70667
      [] name = "NEWA LETTER O" -> 70668
      [] name = "NEWA LETTER AU" -> 70669
      [] name = "NEWA LETTER KA" -> 70670
      [] name = "NEWA LETTER KHA" -> 70671
      [] name = "NEWA LETTER GA" -> 70672
      [] name = "NEWA LETTER GHA" -> 70673
      [] name = "NEWA LETTER NGA" -> 70674
      [] name = "NEWA LETTER NGHA" -> 70675
      [] name = "NEWA LETTER CA" -> 70676
      [] name = "NEWA LETTER CHA" -> 70677
      [] name = "NEWA LETTER JA" -> 70678
      [] name = "NEWA LETTER JHA" -> 70679
      [] name = "NEWA LETTER NYA" -> 70680
      [] name = "NEWA LETTER NYHA" -> 70681
      [] name = "NEWA LETTER TTA" -> 70682
      [] name = "NEWA LETTER TTHA" -> 70683
      [] name = "NEWA LETTER DDA" -> 70684
      [] name = "NEWA LETTER DDHA" -> 70685
      [] name = "NEWA LETTER NNA" -> 70686
      [] name = "NEWA LETTER TA" -> 70687
      [] name = "NEWA LETTER THA" -> 70688
      [] name = "NEWA LETTER DA" -> 70689
      [] name = "NEWA LETTER DHA" -> 70690
      [] name = "NEWA LETTER NA" -> 70691
      [] name = "NEWA LETTER NHA" -> 70692
      [] name = "NEWA LETTER PA" -> 70693
      [] name = "NEWA LETTER PHA" -> 70694
      [] name = "NEWA LETTER BA" -> 70695
      [] name = "NEWA LETTER BHA" -> 70696
      [] name = "NEWA LETTER MA" -> 70697
      [] name = "NEWA LETTER MHA" -> 70698
      [] name = "NEWA LETTER YA" -> 70699
      [] name = "NEWA LETTER RA" -> 70700
      [] name = "NEWA LETTER RHA" -> 70701
      [] name = "NEWA LETTER LA" -> 70702
      [] name = "NEWA LETTER LHA" -> 70703
      [] name = "NEWA LETTER WA" -> 70704
      [] name = "NEWA LETTER SHA" -> 70705
      [] name = "NEWA LETTER SSA" -> 70706
      [] name = "NEWA LETTER SA" -> 70707
      [] name = "NEWA LETTER HA" -> 70708
      [] name = "NEWA VOWEL SIGN AA" -> 70709
      [] name = "NEWA VOWEL SIGN I" -> 70710
      [] name = "NEWA VOWEL SIGN II" -> 70711
      [] name = "NEWA VOWEL SIGN U" -> 70712
      [] name = "NEWA VOWEL SIGN UU" -> 70713
      [] name = "NEWA VOWEL SIGN VOCALIC R" -> 70714
      [] name = "NEWA VOWEL SIGN VOCALIC RR" -> 70715
      [] name = "NEWA VOWEL SIGN VOCALIC L" -> 70716
      [] name = "NEWA VOWEL SIGN VOCALIC LL" -> 70717
      [] name = "NEWA VOWEL SIGN E" -> 70718
      [] name = "NEWA VOWEL SIGN AI" -> 70719
      [] name = "NEWA VOWEL SIGN O" -> 70720
      [] name = "NEWA VOWEL SIGN AU" -> 70721
      [] name = "NEWA SIGN VIRAMA" -> 70722
      [] name = "NEWA SIGN CANDRABINDU" -> 70723
      [] name = "NEWA SIGN ANUSVARA" -> 70724
      [] name = "NEWA SIGN VISARGA" -> 70725
      [] name = "NEWA SIGN NUKTA" -> 70726
      [] name = "NEWA SIGN AVAGRAHA" -> 70727
      [] name = "NEWA SIGN FINAL ANUSVARA" -> 70728
      [] name = "NEWA OM" -> 70729
      [] name = "NEWA SIDDHI" -> 70730
      [] name = "NEWA DANDA" -> 70731
      [] name = "NEWA DOUBLE DANDA" -> 70732
      [] name = "NEWA COMMA" -> 70733
      [] name = "NEWA GAP FILLER" -> 70734
      [] name = "NEWA ABBREVIATION SIGN" -> 70735
      [] name = "NEWA DIGIT ZERO" -> 70736
      [] name = "NEWA DIGIT ONE" -> 70737
      [] name = "NEWA DIGIT TWO" -> 70738
      [] name = "NEWA DIGIT THREE" -> 70739
      [] name = "NEWA DIGIT FOUR" -> 70740
      [] name = "NEWA DIGIT FIVE" -> 70741
      [] name = "NEWA DIGIT SIX" -> 70742
      [] name = "NEWA DIGIT SEVEN" -> 70743
      [] name = "NEWA DIGIT EIGHT" -> 70744
      [] name = "NEWA DIGIT NINE" -> 70745
      [] name = "NEWA DOUBLE COMMA" -> 70746
      [] name = "NEWA PLACEHOLDER MARK" -> 70747
      [] name = "NEWA INSERTION SIGN" -> 70749
      [] name = "NEWA SANDHI MARK" -> 70750
      [] name = "NEWA LETTER VEDIC ANUSVARA" -> 70751
      [] name = "NEWA SIGN JIHVAMULIYA" -> 70752
      [] name = "NEWA SIGN UPADHMANIYA" -> 70753
      [] name = "TIRHUTA ANJI" -> 70784
      [] name = "TIRHUTA LETTER A" -> 70785
      [] name = "TIRHUTA LETTER AA" -> 70786
      [] name = "TIRHUTA LETTER I" -> 70787
      [] name = "TIRHUTA LETTER II" -> 70788
      [] name = "TIRHUTA LETTER U" -> 70789
      [] name = "TIRHUTA LETTER UU" -> 70790
      [] name = "TIRHUTA LETTER VOCALIC R" -> 70791
      [] name = "TIRHUTA LETTER VOCALIC RR" -> 70792
      [] name = "TIRHUTA LETTER VOCALIC L" -> 70793
      [] name = "TIRHUTA LETTER VOCALIC LL" -> 70794
      [] name = "TIRHUTA LETTER E" -> 70795
      [] name = "TIRHUTA LETTER AI" -> 70796
      [] name = "TIRHUTA LETTER O" -> 70797
      [] name = "TIRHUTA LETTER AU" -> 70798
      [] name = "TIRHUTA LETTER KA" -> 70799
      [] name = "TIRHUTA LETTER KHA" -> 70800
      [] name = "TIRHUTA LETTER GA" -> 70801
      [] name = "TIRHUTA LETTER GHA" -> 70802
      [] name = "TIRHUTA LETTER NGA" -> 70803
      [] name = "TIRHUTA LETTER CA" -> 70804
      [] name = "TIRHUTA LETTER CHA" -> 70805
      [] name = "TIRHUTA LETTER JA" -> 70806
      [] name = "TIRHUTA LETTER JHA" -> 70807
      [] name = "TIRHUTA LETTER NYA" -> 70808
      [] name = "TIRHUTA LETTER TTA" -> 70809
      [] name = "TIRHUTA LETTER TTHA" -> 70810
      [] name = "TIRHUTA LETTER DDA" -> 70811
      [] name = "TIRHUTA LETTER DDHA" -> 70812
      [] name = "TIRHUTA LETTER NNA" -> 70813
      [] name = "TIRHUTA LETTER TA" -> 70814
      [] name = "TIRHUTA LETTER THA" -> 70815
      [] name = "TIRHUTA LETTER DA" -> 70816
      [] name = "TIRHUTA LETTER DHA" -> 70817
      [] name = "TIRHUTA LETTER NA" -> 70818
      [] name = "TIRHUTA LETTER PA" -> 70819
      [] name = "TIRHUTA LETTER PHA" -> 70820
      [] name = "TIRHUTA LETTER BA" -> 70821
      [] name = "TIRHUTA LETTER BHA" -> 70822
      [] name = "TIRHUTA LETTER MA" -> 70823
      [] name = "TIRHUTA LETTER YA" -> 70824
      [] name = "TIRHUTA LETTER RA" -> 70825
      [] name = "TIRHUTA LETTER LA" -> 70826
      [] name = "TIRHUTA LETTER VA" -> 70827
      [] name = "TIRHUTA LETTER SHA" -> 70828
      [] name = "TIRHUTA LETTER SSA" -> 70829
      [] name = "TIRHUTA LETTER SA" -> 70830
      [] name = "TIRHUTA LETTER HA" -> 70831
      [] name = "TIRHUTA VOWEL SIGN AA" -> 70832
      [] name = "TIRHUTA VOWEL SIGN I" -> 70833
      [] name = "TIRHUTA VOWEL SIGN II" -> 70834
      [] name = "TIRHUTA VOWEL SIGN U" -> 70835
      [] name = "TIRHUTA VOWEL SIGN UU" -> 70836
      [] name = "TIRHUTA VOWEL SIGN VOCALIC R" -> 70837
      [] name = "TIRHUTA VOWEL SIGN VOCALIC RR" -> 70838
      [] name = "TIRHUTA VOWEL SIGN VOCALIC L" -> 70839
      [] name = "TIRHUTA VOWEL SIGN VOCALIC LL" -> 70840
      [] name = "TIRHUTA VOWEL SIGN E" -> 70841
      [] name = "TIRHUTA VOWEL SIGN SHORT E" -> 70842
      [] name = "TIRHUTA VOWEL SIGN AI" -> 70843
      [] name = "TIRHUTA VOWEL SIGN O" -> 70844
      [] name = "TIRHUTA VOWEL SIGN SHORT O" -> 70845
      [] name = "TIRHUTA VOWEL SIGN AU" -> 70846
      [] name = "TIRHUTA SIGN CANDRABINDU" -> 70847
      [] name = "TIRHUTA SIGN ANUSVARA" -> 70848
      [] name = "TIRHUTA SIGN VISARGA" -> 70849
      [] name = "TIRHUTA SIGN VIRAMA" -> 70850
      [] name = "TIRHUTA SIGN NUKTA" -> 70851
      [] name = "TIRHUTA SIGN AVAGRAHA" -> 70852
      [] name = "TIRHUTA GVANG" -> 70853
      [] name = "TIRHUTA ABBREVIATION SIGN" -> 70854
      [] name = "TIRHUTA OM" -> 70855
      [] name = "TIRHUTA DIGIT ZERO" -> 70864
      [] name = "TIRHUTA DIGIT ONE" -> 70865
      [] name = "TIRHUTA DIGIT TWO" -> 70866
      [] name = "TIRHUTA DIGIT THREE" -> 70867
      [] name = "TIRHUTA DIGIT FOUR" -> 70868
      [] name = "TIRHUTA DIGIT FIVE" -> 70869
      [] name = "TIRHUTA DIGIT SIX" -> 70870
      [] name = "TIRHUTA DIGIT SEVEN" -> 70871
      [] name = "TIRHUTA DIGIT EIGHT" -> 70872
      [] name = "TIRHUTA DIGIT NINE" -> 70873
      [] name = "SIDDHAM LETTER A" -> 71040
      [] name = "SIDDHAM LETTER AA" -> 71041
      [] name = "SIDDHAM LETTER I" -> 71042
      [] name = "SIDDHAM LETTER II" -> 71043
      [] name = "SIDDHAM LETTER U" -> 71044
      [] name = "SIDDHAM LETTER UU" -> 71045
      [] name = "SIDDHAM LETTER VOCALIC R" -> 71046
      [] name = "SIDDHAM LETTER VOCALIC RR" -> 71047
      [] name = "SIDDHAM LETTER VOCALIC L" -> 71048
      [] name = "SIDDHAM LETTER VOCALIC LL" -> 71049
      [] name = "SIDDHAM LETTER E" -> 71050
      [] name = "SIDDHAM LETTER AI" -> 71051
      [] name = "SIDDHAM LETTER O" -> 71052
      [] name = "SIDDHAM LETTER AU" -> 71053
      [] name = "SIDDHAM LETTER KA" -> 71054
      [] name = "SIDDHAM LETTER KHA" -> 71055
      [] name = "SIDDHAM LETTER GA" -> 71056
      [] name = "SIDDHAM LETTER GHA" -> 71057
      [] name = "SIDDHAM LETTER NGA" -> 71058
      [] name = "SIDDHAM LETTER CA" -> 71059
      [] name = "SIDDHAM LETTER CHA" -> 71060
      [] name = "SIDDHAM LETTER JA" -> 71061
      [] name = "SIDDHAM LETTER JHA" -> 71062
      [] name = "SIDDHAM LETTER NYA" -> 71063
      [] name = "SIDDHAM LETTER TTA" -> 71064
      [] name = "SIDDHAM LETTER TTHA" -> 71065
      [] name = "SIDDHAM LETTER DDA" -> 71066
      [] name = "SIDDHAM LETTER DDHA" -> 71067
      [] name = "SIDDHAM LETTER NNA" -> 71068
      [] name = "SIDDHAM LETTER TA" -> 71069
      [] name = "SIDDHAM LETTER THA" -> 71070
      [] name = "SIDDHAM LETTER DA" -> 71071
      [] name = "SIDDHAM LETTER DHA" -> 71072
      [] name = "SIDDHAM LETTER NA" -> 71073
      [] name = "SIDDHAM LETTER PA" -> 71074
      [] name = "SIDDHAM LETTER PHA" -> 71075
      [] name = "SIDDHAM LETTER BA" -> 71076
      [] name = "SIDDHAM LETTER BHA" -> 71077
      [] name = "SIDDHAM LETTER MA" -> 71078
      [] name = "SIDDHAM LETTER YA" -> 71079
      [] name = "SIDDHAM LETTER RA" -> 71080
      [] name = "SIDDHAM LETTER LA" -> 71081
      [] name = "SIDDHAM LETTER VA" -> 71082
      [] name = "SIDDHAM LETTER SHA" -> 71083
      [] name = "SIDDHAM LETTER SSA" -> 71084
      [] name = "SIDDHAM LETTER SA" -> 71085
      [] name = "SIDDHAM LETTER HA" -> 71086
      [] name = "SIDDHAM VOWEL SIGN AA" -> 71087
      [] name = "SIDDHAM VOWEL SIGN I" -> 71088
      [] name = "SIDDHAM VOWEL SIGN II" -> 71089
      [] name = "SIDDHAM VOWEL SIGN U" -> 71090
      [] name = "SIDDHAM VOWEL SIGN UU" -> 71091
      [] name = "SIDDHAM VOWEL SIGN VOCALIC R" -> 71092
      [] name = "SIDDHAM VOWEL SIGN VOCALIC RR" -> 71093
      [] name = "SIDDHAM VOWEL SIGN E" -> 71096
      [] name = "SIDDHAM VOWEL SIGN AI" -> 71097
      [] name = "SIDDHAM VOWEL SIGN O" -> 71098
      [] name = "SIDDHAM VOWEL SIGN AU" -> 71099
      [] name = "SIDDHAM SIGN CANDRABINDU" -> 71100
      [] name = "SIDDHAM SIGN ANUSVARA" -> 71101
      [] name = "SIDDHAM SIGN VISARGA" -> 71102
      [] name = "SIDDHAM SIGN VIRAMA" -> 71103
      [] name = "SIDDHAM SIGN NUKTA" -> 71104
      [] name = "SIDDHAM SIGN SIDDHAM" -> 71105
      [] name = "SIDDHAM DANDA" -> 71106
      [] name = "SIDDHAM DOUBLE DANDA" -> 71107
      [] name = "SIDDHAM SEPARATOR DOT" -> 71108
      [] name = "SIDDHAM SEPARATOR BAR" -> 71109
      [] name = "SIDDHAM REPETITION MARK-1" -> 71110
      [] name = "SIDDHAM REPETITION MARK-2" -> 71111
      [] name = "SIDDHAM REPETITION MARK-3" -> 71112
      [] name = "SIDDHAM END OF TEXT MARK" -> 71113
      [] name = "SIDDHAM SECTION MARK WITH TRIDENT AND U-SHAPED ORNAMENTS" -> 71114
      [] name = "SIDDHAM SECTION MARK WITH TRIDENT AND DOTTED CRESCENTS" -> 71115
      [] name = "SIDDHAM SECTION MARK WITH RAYS AND DOTTED CRESCENTS" -> 71116
      [] name = "SIDDHAM SECTION MARK WITH RAYS AND DOTTED DOUBLE CRESCENTS" -> 71117
      [] name = "SIDDHAM SECTION MARK WITH RAYS AND DOTTED TRIPLE CRESCENTS" -> 71118
      [] name = "SIDDHAM SECTION MARK DOUBLE RING" -> 71119
      [] name = "SIDDHAM SECTION MARK DOUBLE RING WITH RAYS" -> 71120
      [] name = "SIDDHAM SECTION MARK WITH DOUBLE CRESCENTS" -> 71121
      [] name = "SIDDHAM SECTION MARK WITH TRIPLE CRESCENTS" -> 71122
      [] name = "SIDDHAM SECTION MARK WITH QUADRUPLE CRESCENTS" -> 71123
      [] name = "SIDDHAM SECTION MARK WITH SEPTUPLE CRESCENTS" -> 71124
      [] name = "SIDDHAM SECTION MARK WITH CIRCLES AND RAYS" -> 71125
      [] name = "SIDDHAM SECTION MARK WITH CIRCLES AND TWO ENCLOSURES" -> 71126
      [] name = "SIDDHAM SECTION MARK WITH CIRCLES AND FOUR ENCLOSURES" -> 71127
      [] name = "SIDDHAM LETTER THREE-CIRCLE ALTERNATE I" -> 71128
      [] name = "SIDDHAM LETTER TWO-CIRCLE ALTERNATE I" -> 71129
      [] name = "SIDDHAM LETTER TWO-CIRCLE ALTERNATE II" -> 71130
      [] name = "SIDDHAM LETTER ALTERNATE U" -> 71131
      [] name = "SIDDHAM VOWEL SIGN ALTERNATE U" -> 71132
      [] name = "SIDDHAM VOWEL SIGN ALTERNATE UU" -> 71133
      [] name = "MODI LETTER A" -> 71168
      [] name = "MODI LETTER AA" -> 71169
      [] name = "MODI LETTER I" -> 71170
      [] name = "MODI LETTER II" -> 71171
      [] name = "MODI LETTER U" -> 71172
      [] name = "MODI LETTER UU" -> 71173
      [] name = "MODI LETTER VOCALIC R" -> 71174
      [] name = "MODI LETTER VOCALIC RR" -> 71175
      [] name = "MODI LETTER VOCALIC L" -> 71176
      [] name = "MODI LETTER VOCALIC LL" -> 71177
      [] name = "MODI LETTER E" -> 71178
      [] name = "MODI LETTER AI" -> 71179
      [] name = "MODI LETTER O" -> 71180
      [] name = "MODI LETTER AU" -> 71181
      [] name = "MODI LETTER KA" -> 71182
      [] name = "MODI LETTER KHA" -> 71183
      [] name = "MODI LETTER GA" -> 71184
      [] name = "MODI LETTER GHA" -> 71185
      [] name = "MODI LETTER NGA" -> 71186
      [] name = "MODI LETTER CA" -> 71187
      [] name = "MODI LETTER CHA" -> 71188
      [] name = "MODI LETTER JA" -> 71189
      [] name = "MODI LETTER JHA" -> 71190
      [] name = "MODI LETTER NYA" -> 71191
      [] name = "MODI LETTER TTA" -> 71192
      [] name = "MODI LETTER TTHA" -> 71193
      [] name = "MODI LETTER DDA" -> 71194
      [] name = "MODI LETTER DDHA" -> 71195
      [] name = "MODI LETTER NNA" -> 71196
      [] name = "MODI LETTER TA" -> 71197
      [] name = "MODI LETTER THA" -> 71198
      [] name = "MODI LETTER DA" -> 71199
      [] name = "MODI LETTER DHA" -> 71200
      [] name = "MODI LETTER NA" -> 71201
      [] name = "MODI LETTER PA" -> 71202
      [] name = "MODI LETTER PHA" -> 71203
      [] name = "MODI LETTER BA" -> 71204
      [] name = "MODI LETTER BHA" -> 71205
      [] name = "MODI LETTER MA" -> 71206
      [] name = "MODI LETTER YA" -> 71207
      [] name = "MODI LETTER RA" -> 71208
      [] name = "MODI LETTER LA" -> 71209
      [] name = "MODI LETTER VA" -> 71210
      [] name = "MODI LETTER SHA" -> 71211
      [] name = "MODI LETTER SSA" -> 71212
      [] name = "MODI LETTER SA" -> 71213
      [] name = "MODI LETTER HA" -> 71214
      [] name = "MODI LETTER LLA" -> 71215
      [] name = "MODI VOWEL SIGN AA" -> 71216
      [] name = "MODI VOWEL SIGN I" -> 71217
      [] name = "MODI VOWEL SIGN II" -> 71218
      [] name = "MODI VOWEL SIGN U" -> 71219
      [] name = "MODI VOWEL SIGN UU" -> 71220
      [] name = "MODI VOWEL SIGN VOCALIC R" -> 71221
      [] name = "MODI VOWEL SIGN VOCALIC RR" -> 71222
      [] name = "MODI VOWEL SIGN VOCALIC L" -> 71223
      [] name = "MODI VOWEL SIGN VOCALIC LL" -> 71224
      [] name = "MODI VOWEL SIGN E" -> 71225
      [] name = "MODI VOWEL SIGN AI" -> 71226
      [] name = "MODI VOWEL SIGN O" -> 71227
      [] name = "MODI VOWEL SIGN AU" -> 71228
      [] name = "MODI SIGN ANUSVARA" -> 71229
      [] name = "MODI SIGN VISARGA" -> 71230
      [] name = "MODI SIGN VIRAMA" -> 71231
      [] name = "MODI SIGN ARDHACANDRA" -> 71232
      [] name = "MODI DANDA" -> 71233
      [] name = "MODI DOUBLE DANDA" -> 71234
      [] name = "MODI ABBREVIATION SIGN" -> 71235
      [] name = "MODI SIGN HUVA" -> 71236
      [] name = "MODI DIGIT ZERO" -> 71248
      [] name = "MODI DIGIT ONE" -> 71249
      [] name = "MODI DIGIT TWO" -> 71250
      [] name = "MODI DIGIT THREE" -> 71251
      [] name = "MODI DIGIT FOUR" -> 71252
      [] name = "MODI DIGIT FIVE" -> 71253
      [] name = "MODI DIGIT SIX" -> 71254
      [] name = "MODI DIGIT SEVEN" -> 71255
      [] name = "MODI DIGIT EIGHT" -> 71256
      [] name = "MODI DIGIT NINE" -> 71257
      [] name = "MONGOLIAN BIRGA WITH ORNAMENT" -> 71264
      [] name = "MONGOLIAN ROTATED BIRGA" -> 71265
      [] name = "MONGOLIAN DOUBLE BIRGA WITH ORNAMENT" -> 71266
      [] name = "MONGOLIAN TRIPLE BIRGA WITH ORNAMENT" -> 71267
      [] name = "MONGOLIAN BIRGA WITH DOUBLE ORNAMENT" -> 71268
      [] name = "MONGOLIAN ROTATED BIRGA WITH ORNAMENT" -> 71269
      [] name = "MONGOLIAN ROTATED BIRGA WITH DOUBLE ORNAMENT" -> 71270
      [] name = "MONGOLIAN INVERTED BIRGA" -> 71271
      [] name = "MONGOLIAN INVERTED BIRGA WITH DOUBLE ORNAMENT" -> 71272
      [] name = "MONGOLIAN SWIRL BIRGA" -> 71273
      [] name = "MONGOLIAN SWIRL BIRGA WITH ORNAMENT" -> 71274
      [] name = "MONGOLIAN SWIRL BIRGA WITH DOUBLE ORNAMENT" -> 71275
      [] name = "MONGOLIAN TURNED SWIRL BIRGA WITH DOUBLE ORNAMENT" -> 71276
      [] name = "TAKRI LETTER A" -> 71296
      [] name = "TAKRI LETTER AA" -> 71297
      [] name = "TAKRI LETTER I" -> 71298
      [] name = "TAKRI LETTER II" -> 71299
      [] name = "TAKRI LETTER U" -> 71300
      [] name = "TAKRI LETTER UU" -> 71301
      [] name = "TAKRI LETTER E" -> 71302
      [] name = "TAKRI LETTER AI" -> 71303
      [] name = "TAKRI LETTER O" -> 71304
      [] name = "TAKRI LETTER AU" -> 71305
      [] name = "TAKRI LETTER KA" -> 71306
      [] name = "TAKRI LETTER KHA" -> 71307
      [] name = "TAKRI LETTER GA" -> 71308
      [] name = "TAKRI LETTER GHA" -> 71309
      [] name = "TAKRI LETTER NGA" -> 71310
      [] name = "TAKRI LETTER CA" -> 71311
      [] name = "TAKRI LETTER CHA" -> 71312
      [] name = "TAKRI LETTER JA" -> 71313
      [] name = "TAKRI LETTER JHA" -> 71314
      [] name = "TAKRI LETTER NYA" -> 71315
      [] name = "TAKRI LETTER TTA" -> 71316
      [] name = "TAKRI LETTER TTHA" -> 71317
      [] name = "TAKRI LETTER DDA" -> 71318
      [] name = "TAKRI LETTER DDHA" -> 71319
      [] name = "TAKRI LETTER NNA" -> 71320
      [] name = "TAKRI LETTER TA" -> 71321
      [] name = "TAKRI LETTER THA" -> 71322
      [] name = "TAKRI LETTER DA" -> 71323
      [] name = "TAKRI LETTER DHA" -> 71324
      [] name = "TAKRI LETTER NA" -> 71325
      [] name = "TAKRI LETTER PA" -> 71326
      [] name = "TAKRI LETTER PHA" -> 71327
      [] name = "TAKRI LETTER BA" -> 71328
      [] name = "TAKRI LETTER BHA" -> 71329
      [] name = "TAKRI LETTER MA" -> 71330
      [] name = "TAKRI LETTER YA" -> 71331
      [] name = "TAKRI LETTER RA" -> 71332
      [] name = "TAKRI LETTER LA" -> 71333
      [] name = "TAKRI LETTER VA" -> 71334
      [] name = "TAKRI LETTER SHA" -> 71335
      [] name = "TAKRI LETTER SA" -> 71336
      [] name = "TAKRI LETTER HA" -> 71337
      [] name = "TAKRI LETTER RRA" -> 71338
      [] name = "TAKRI SIGN ANUSVARA" -> 71339
      [] name = "TAKRI SIGN VISARGA" -> 71340
      [] name = "TAKRI VOWEL SIGN AA" -> 71341
      [] name = "TAKRI VOWEL SIGN I" -> 71342
      [] name = "TAKRI VOWEL SIGN II" -> 71343
      [] name = "TAKRI VOWEL SIGN U" -> 71344
      [] name = "TAKRI VOWEL SIGN UU" -> 71345
      [] name = "TAKRI VOWEL SIGN E" -> 71346
      [] name = "TAKRI VOWEL SIGN AI" -> 71347
      [] name = "TAKRI VOWEL SIGN O" -> 71348
      [] name = "TAKRI VOWEL SIGN AU" -> 71349
      [] name = "TAKRI SIGN VIRAMA" -> 71350
      [] name = "TAKRI SIGN NUKTA" -> 71351
      [] name = "TAKRI LETTER ARCHAIC KHA" -> 71352
      [] name = "TAKRI ABBREVIATION SIGN" -> 71353
      [] name = "TAKRI DIGIT ZERO" -> 71360
      [] name = "TAKRI DIGIT ONE" -> 71361
      [] name = "TAKRI DIGIT TWO" -> 71362
      [] name = "TAKRI DIGIT THREE" -> 71363
      [] name = "TAKRI DIGIT FOUR" -> 71364
      [] name = "TAKRI DIGIT FIVE" -> 71365
      [] name = "TAKRI DIGIT SIX" -> 71366
      [] name = "TAKRI DIGIT SEVEN" -> 71367
      [] name = "TAKRI DIGIT EIGHT" -> 71368
      [] name = "TAKRI DIGIT NINE" -> 71369
      [] name = "AHOM LETTER KA" -> 71424
      [] name = "AHOM LETTER KHA" -> 71425
      [] name = "AHOM LETTER NGA" -> 71426
      [] name = "AHOM LETTER NA" -> 71427
      [] name = "AHOM LETTER TA" -> 71428
      [] name = "AHOM LETTER ALTERNATE TA" -> 71429
      [] name = "AHOM LETTER PA" -> 71430
      [] name = "AHOM LETTER PHA" -> 71431
      [] name = "AHOM LETTER BA" -> 71432
      [] name = "AHOM LETTER MA" -> 71433
      [] name = "AHOM LETTER JA" -> 71434
      [] name = "AHOM LETTER CHA" -> 71435
      [] name = "AHOM LETTER THA" -> 71436
      [] name = "AHOM LETTER RA" -> 71437
      [] name = "AHOM LETTER LA" -> 71438
      [] name = "AHOM LETTER SA" -> 71439
      [] name = "AHOM LETTER NYA" -> 71440
      [] name = "AHOM LETTER HA" -> 71441
      [] name = "AHOM LETTER A" -> 71442
      [] name = "AHOM LETTER DA" -> 71443
      [] name = "AHOM LETTER DHA" -> 71444
      [] name = "AHOM LETTER GA" -> 71445
      [] name = "AHOM LETTER ALTERNATE GA" -> 71446
      [] name = "AHOM LETTER GHA" -> 71447
      [] name = "AHOM LETTER BHA" -> 71448
      [] name = "AHOM LETTER JHA" -> 71449
      [] name = "AHOM LETTER ALTERNATE BA" -> 71450
      [] name = "AHOM CONSONANT SIGN MEDIAL LA" -> 71453
      [] name = "AHOM CONSONANT SIGN MEDIAL RA" -> 71454
      [] name = "AHOM CONSONANT SIGN MEDIAL LIGATING RA" -> 71455
      [] name = "AHOM VOWEL SIGN A" -> 71456
      [] name = "AHOM VOWEL SIGN AA" -> 71457
      [] name = "AHOM VOWEL SIGN I" -> 71458
      [] name = "AHOM VOWEL SIGN II" -> 71459
      [] name = "AHOM VOWEL SIGN U" -> 71460
      [] name = "AHOM VOWEL SIGN UU" -> 71461
      [] name = "AHOM VOWEL SIGN E" -> 71462
      [] name = "AHOM VOWEL SIGN AW" -> 71463
      [] name = "AHOM VOWEL SIGN O" -> 71464
      [] name = "AHOM VOWEL SIGN AI" -> 71465
      [] name = "AHOM VOWEL SIGN AM" -> 71466
      [] name = "AHOM SIGN KILLER" -> 71467
      [] name = "AHOM DIGIT ZERO" -> 71472
      [] name = "AHOM DIGIT ONE" -> 71473
      [] name = "AHOM DIGIT TWO" -> 71474
      [] name = "AHOM DIGIT THREE" -> 71475
      [] name = "AHOM DIGIT FOUR" -> 71476
      [] name = "AHOM DIGIT FIVE" -> 71477
      [] name = "AHOM DIGIT SIX" -> 71478
      [] name = "AHOM DIGIT SEVEN" -> 71479
      [] name = "AHOM DIGIT EIGHT" -> 71480
      [] name = "AHOM DIGIT NINE" -> 71481
      [] name = "AHOM NUMBER TEN" -> 71482
      [] name = "AHOM NUMBER TWENTY" -> 71483
      [] name = "AHOM SIGN SMALL SECTION" -> 71484
      [] name = "AHOM SIGN SECTION" -> 71485
      [] name = "AHOM SIGN RULAI" -> 71486
      [] name = "AHOM SYMBOL VI" -> 71487
      [] name = "AHOM LETTER CA" -> 71488
      [] name = "AHOM LETTER TTA" -> 71489
      [] name = "AHOM LETTER TTHA" -> 71490
      [] name = "AHOM LETTER DDA" -> 71491
      [] name = "AHOM LETTER DDHA" -> 71492
      [] name = "AHOM LETTER NNA" -> 71493
      [] name = "AHOM LETTER LLA" -> 71494
      [] name = "DOGRA LETTER A" -> 71680
      [] name = "DOGRA LETTER AA" -> 71681
      [] name = "DOGRA LETTER I" -> 71682
      [] name = "DOGRA LETTER II" -> 71683
      [] name = "DOGRA LETTER U" -> 71684
      [] name = "DOGRA LETTER UU" -> 71685
      [] name = "DOGRA LETTER E" -> 71686
      [] name = "DOGRA LETTER AI" -> 71687
      [] name = "DOGRA LETTER O" -> 71688
      [] name = "DOGRA LETTER AU" -> 71689
      [] name = "DOGRA LETTER KA" -> 71690
      [] name = "DOGRA LETTER KHA" -> 71691
      [] name = "DOGRA LETTER GA" -> 71692
      [] name = "DOGRA LETTER GHA" -> 71693
      [] name = "DOGRA LETTER NGA" -> 71694
      [] name = "DOGRA LETTER CA" -> 71695
      [] name = "DOGRA LETTER CHA" -> 71696
      [] name = "DOGRA LETTER JA" -> 71697
      [] name = "DOGRA LETTER JHA" -> 71698
      [] name = "DOGRA LETTER NYA" -> 71699
      [] name = "DOGRA LETTER TTA" -> 71700
      [] name = "DOGRA LETTER TTHA" -> 71701
      [] name = "DOGRA LETTER DDA" -> 71702
      [] name = "DOGRA LETTER DDHA" -> 71703
      [] name = "DOGRA LETTER NNA" -> 71704
      [] name = "DOGRA LETTER TA" -> 71705
      [] name = "DOGRA LETTER THA" -> 71706
      [] name = "DOGRA LETTER DA" -> 71707
      [] name = "DOGRA LETTER DHA" -> 71708
      [] name = "DOGRA LETTER NA" -> 71709
      [] name = "DOGRA LETTER PA" -> 71710
      [] name = "DOGRA LETTER PHA" -> 71711
      [] name = "DOGRA LETTER BA" -> 71712
      [] name = "DOGRA LETTER BHA" -> 71713
      [] name = "DOGRA LETTER MA" -> 71714
      [] name = "DOGRA LETTER YA" -> 71715
      [] name = "DOGRA LETTER RA" -> 71716
      [] name = "DOGRA LETTER LA" -> 71717
      [] name = "DOGRA LETTER VA" -> 71718
      [] name = "DOGRA LETTER SHA" -> 71719
      [] name = "DOGRA LETTER SSA" -> 71720
      [] name = "DOGRA LETTER SA" -> 71721
      [] name = "DOGRA LETTER HA" -> 71722
      [] name = "DOGRA LETTER RRA" -> 71723
      [] name = "DOGRA VOWEL SIGN AA" -> 71724
      [] name = "DOGRA VOWEL SIGN I" -> 71725
      [] name = "DOGRA VOWEL SIGN II" -> 71726
      [] name = "DOGRA VOWEL SIGN U" -> 71727
      [] name = "DOGRA VOWEL SIGN UU" -> 71728
      [] name = "DOGRA VOWEL SIGN VOCALIC R" -> 71729
      [] name = "DOGRA VOWEL SIGN VOCALIC RR" -> 71730
      [] name = "DOGRA VOWEL SIGN E" -> 71731
      [] name = "DOGRA VOWEL SIGN AI" -> 71732
      [] name = "DOGRA VOWEL SIGN O" -> 71733
      [] name = "DOGRA VOWEL SIGN AU" -> 71734
      [] name = "DOGRA SIGN ANUSVARA" -> 71735
      [] name = "DOGRA SIGN VISARGA" -> 71736
      [] name = "DOGRA SIGN VIRAMA" -> 71737
      [] name = "DOGRA SIGN NUKTA" -> 71738
      [] name = "DOGRA ABBREVIATION SIGN" -> 71739
      [] name = "WARANG CITI CAPITAL LETTER NGAA" -> 71840
      [] name = "WARANG CITI CAPITAL LETTER A" -> 71841
      [] name = "WARANG CITI CAPITAL LETTER WI" -> 71842
      [] name = "WARANG CITI CAPITAL LETTER YU" -> 71843
      [] name = "WARANG CITI CAPITAL LETTER YA" -> 71844
      [] name = "WARANG CITI CAPITAL LETTER YO" -> 71845
      [] name = "WARANG CITI CAPITAL LETTER II" -> 71846
      [] name = "WARANG CITI CAPITAL LETTER UU" -> 71847
      [] name = "WARANG CITI CAPITAL LETTER E" -> 71848
      [] name = "WARANG CITI CAPITAL LETTER O" -> 71849
      [] name = "WARANG CITI CAPITAL LETTER ANG" -> 71850
      [] name = "WARANG CITI CAPITAL LETTER GA" -> 71851
      [] name = "WARANG CITI CAPITAL LETTER KO" -> 71852
      [] name = "WARANG CITI CAPITAL LETTER ENY" -> 71853
      [] name = "WARANG CITI CAPITAL LETTER YUJ" -> 71854
      [] name = "WARANG CITI CAPITAL LETTER UC" -> 71855
      [] name = "WARANG CITI CAPITAL LETTER ENN" -> 71856
      [] name = "WARANG CITI CAPITAL LETTER ODD" -> 71857
      [] name = "WARANG CITI CAPITAL LETTER TTE" -> 71858
      [] name = "WARANG CITI CAPITAL LETTER NUNG" -> 71859
      [] name = "WARANG CITI CAPITAL LETTER DA" -> 71860
      [] name = "WARANG CITI CAPITAL LETTER AT" -> 71861
      [] name = "WARANG CITI CAPITAL LETTER AM" -> 71862
      [] name = "WARANG CITI CAPITAL LETTER BU" -> 71863
      [] name = "WARANG CITI CAPITAL LETTER PU" -> 71864
      [] name = "WARANG CITI CAPITAL LETTER HIYO" -> 71865
      [] name = "WARANG CITI CAPITAL LETTER HOLO" -> 71866
      [] name = "WARANG CITI CAPITAL LETTER HORR" -> 71867
      [] name = "WARANG CITI CAPITAL LETTER HAR" -> 71868
      [] name = "WARANG CITI CAPITAL LETTER SSUU" -> 71869
      [] name = "WARANG CITI CAPITAL LETTER SII" -> 71870
      [] name = "WARANG CITI CAPITAL LETTER VIYO" -> 71871
      [] name = "WARANG CITI SMALL LETTER NGAA" -> 71872
      [] name = "WARANG CITI SMALL LETTER A" -> 71873
      [] name = "WARANG CITI SMALL LETTER WI" -> 71874
      [] name = "WARANG CITI SMALL LETTER YU" -> 71875
      [] name = "WARANG CITI SMALL LETTER YA" -> 71876
      [] name = "WARANG CITI SMALL LETTER YO" -> 71877
      [] name = "WARANG CITI SMALL LETTER II" -> 71878
      [] name = "WARANG CITI SMALL LETTER UU" -> 71879
      [] name = "WARANG CITI SMALL LETTER E" -> 71880
      [] name = "WARANG CITI SMALL LETTER O" -> 71881
      [] name = "WARANG CITI SMALL LETTER ANG" -> 71882
      [] name = "WARANG CITI SMALL LETTER GA" -> 71883
      [] name = "WARANG CITI SMALL LETTER KO" -> 71884
      [] name = "WARANG CITI SMALL LETTER ENY" -> 71885
      [] name = "WARANG CITI SMALL LETTER YUJ" -> 71886
      [] name = "WARANG CITI SMALL LETTER UC" -> 71887
      [] name = "WARANG CITI SMALL LETTER ENN" -> 71888
      [] name = "WARANG CITI SMALL LETTER ODD" -> 71889
      [] name = "WARANG CITI SMALL LETTER TTE" -> 71890
      [] name = "WARANG CITI SMALL LETTER NUNG" -> 71891
      [] name = "WARANG CITI SMALL LETTER DA" -> 71892
      [] name = "WARANG CITI SMALL LETTER AT" -> 71893
      [] name = "WARANG CITI SMALL LETTER AM" -> 71894
      [] name = "WARANG CITI SMALL LETTER BU" -> 71895
      [] name = "WARANG CITI SMALL LETTER PU" -> 71896
      [] name = "WARANG CITI SMALL LETTER HIYO" -> 71897
      [] name = "WARANG CITI SMALL LETTER HOLO" -> 71898
      [] name = "WARANG CITI SMALL LETTER HORR" -> 71899
      [] name = "WARANG CITI SMALL LETTER HAR" -> 71900
      [] name = "WARANG CITI SMALL LETTER SSUU" -> 71901
      [] name = "WARANG CITI SMALL LETTER SII" -> 71902
      [] name = "WARANG CITI SMALL LETTER VIYO" -> 71903
      [] name = "WARANG CITI DIGIT ZERO" -> 71904
      [] name = "WARANG CITI DIGIT ONE" -> 71905
      [] name = "WARANG CITI DIGIT TWO" -> 71906
      [] name = "WARANG CITI DIGIT THREE" -> 71907
      [] name = "WARANG CITI DIGIT FOUR" -> 71908
      [] name = "WARANG CITI DIGIT FIVE" -> 71909
      [] name = "WARANG CITI DIGIT SIX" -> 71910
      [] name = "WARANG CITI DIGIT SEVEN" -> 71911
      [] name = "WARANG CITI DIGIT EIGHT" -> 71912
      [] name = "WARANG CITI DIGIT NINE" -> 71913
      [] name = "WARANG CITI NUMBER TEN" -> 71914
      [] name = "WARANG CITI NUMBER TWENTY" -> 71915
      [] name = "WARANG CITI NUMBER THIRTY" -> 71916
      [] name = "WARANG CITI NUMBER FORTY" -> 71917
      [] name = "WARANG CITI NUMBER FIFTY" -> 71918
      [] name = "WARANG CITI NUMBER SIXTY" -> 71919
      [] name = "WARANG CITI NUMBER SEVENTY" -> 71920
      [] name = "WARANG CITI NUMBER EIGHTY" -> 71921
      [] name = "WARANG CITI NUMBER NINETY" -> 71922
      [] name = "WARANG CITI OM" -> 71935
      [] name = "DIVES AKURU LETTER A" -> 71936
      [] name = "DIVES AKURU LETTER AA" -> 71937
      [] name = "DIVES AKURU LETTER I" -> 71938
      [] name = "DIVES AKURU LETTER II" -> 71939
      [] name = "DIVES AKURU LETTER U" -> 71940
      [] name = "DIVES AKURU LETTER UU" -> 71941
      [] name = "DIVES AKURU LETTER E" -> 71942
      [] name = "DIVES AKURU LETTER O" -> 71945
      [] name = "DIVES AKURU LETTER KA" -> 71948
      [] name = "DIVES AKURU LETTER KHA" -> 71949
      [] name = "DIVES AKURU LETTER GA" -> 71950
      [] name = "DIVES AKURU LETTER GHA" -> 71951
      [] name = "DIVES AKURU LETTER NGA" -> 71952
      [] name = "DIVES AKURU LETTER CA" -> 71953
      [] name = "DIVES AKURU LETTER CHA" -> 71954
      [] name = "DIVES AKURU LETTER JA" -> 71955
      [] name = "DIVES AKURU LETTER NYA" -> 71957
      [] name = "DIVES AKURU LETTER TTA" -> 71958
      [] name = "DIVES AKURU LETTER DDA" -> 71960
      [] name = "DIVES AKURU LETTER DDHA" -> 71961
      [] name = "DIVES AKURU LETTER NNA" -> 71962
      [] name = "DIVES AKURU LETTER TA" -> 71963
      [] name = "DIVES AKURU LETTER THA" -> 71964
      [] name = "DIVES AKURU LETTER DA" -> 71965
      [] name = "DIVES AKURU LETTER DHA" -> 71966
      [] name = "DIVES AKURU LETTER NA" -> 71967
      [] name = "DIVES AKURU LETTER PA" -> 71968
      [] name = "DIVES AKURU LETTER PHA" -> 71969
      [] name = "DIVES AKURU LETTER BA" -> 71970
      [] name = "DIVES AKURU LETTER BHA" -> 71971
      [] name = "DIVES AKURU LETTER MA" -> 71972
      [] name = "DIVES AKURU LETTER YA" -> 71973
      [] name = "DIVES AKURU LETTER YYA" -> 71974
      [] name = "DIVES AKURU LETTER RA" -> 71975
      [] name = "DIVES AKURU LETTER LA" -> 71976
      [] name = "DIVES AKURU LETTER VA" -> 71977
      [] name = "DIVES AKURU LETTER SHA" -> 71978
      [] name = "DIVES AKURU LETTER SSA" -> 71979
      [] name = "DIVES AKURU LETTER SA" -> 71980
      [] name = "DIVES AKURU LETTER HA" -> 71981
      [] name = "DIVES AKURU LETTER LLA" -> 71982
      [] name = "DIVES AKURU LETTER ZA" -> 71983
      [] name = "DIVES AKURU VOWEL SIGN AA" -> 71984
      [] name = "DIVES AKURU VOWEL SIGN I" -> 71985
      [] name = "DIVES AKURU VOWEL SIGN II" -> 71986
      [] name = "DIVES AKURU VOWEL SIGN U" -> 71987
      [] name = "DIVES AKURU VOWEL SIGN UU" -> 71988
      [] name = "DIVES AKURU VOWEL SIGN E" -> 71989
      [] name = "DIVES AKURU VOWEL SIGN AI" -> 71991
      [] name = "DIVES AKURU VOWEL SIGN O" -> 71992
      [] name = "DIVES AKURU SIGN ANUSVARA" -> 71995
      [] name = "DIVES AKURU SIGN CANDRABINDU" -> 71996
      [] name = "DIVES AKURU SIGN HALANTA" -> 71997
      [] name = "DIVES AKURU VIRAMA" -> 71998
      [] name = "DIVES AKURU PREFIXED NASAL SIGN" -> 71999
      [] name = "DIVES AKURU MEDIAL YA" -> 72000
      [] name = "DIVES AKURU INITIAL RA" -> 72001
      [] name = "DIVES AKURU MEDIAL RA" -> 72002
      [] name = "DIVES AKURU SIGN NUKTA" -> 72003
      [] name = "DIVES AKURU DOUBLE DANDA" -> 72004
      [] name = "DIVES AKURU GAP FILLER" -> 72005
      [] name = "DIVES AKURU END OF TEXT MARK" -> 72006
      [] name = "DIVES AKURU DIGIT ZERO" -> 72016
      [] name = "DIVES AKURU DIGIT ONE" -> 72017
      [] name = "DIVES AKURU DIGIT TWO" -> 72018
      [] name = "DIVES AKURU DIGIT THREE" -> 72019
      [] name = "DIVES AKURU DIGIT FOUR" -> 72020
      [] name = "DIVES AKURU DIGIT FIVE" -> 72021
      [] name = "DIVES AKURU DIGIT SIX" -> 72022
      [] name = "DIVES AKURU DIGIT SEVEN" -> 72023
      [] name = "DIVES AKURU DIGIT EIGHT" -> 72024
      [] name = "DIVES AKURU DIGIT NINE" -> 72025
      [] name = "NANDINAGARI LETTER A" -> 72096
      [] name = "NANDINAGARI LETTER AA" -> 72097
      [] name = "NANDINAGARI LETTER I" -> 72098
      [] name = "NANDINAGARI LETTER II" -> 72099
      [] name = "NANDINAGARI LETTER U" -> 72100
      [] name = "NANDINAGARI LETTER UU" -> 72101
      [] name = "NANDINAGARI LETTER VOCALIC R" -> 72102
      [] name = "NANDINAGARI LETTER VOCALIC RR" -> 72103
      [] name = "NANDINAGARI LETTER E" -> 72106
      [] name = "NANDINAGARI LETTER AI" -> 72107
      [] name = "NANDINAGARI LETTER O" -> 72108
      [] name = "NANDINAGARI LETTER AU" -> 72109
      [] name = "NANDINAGARI LETTER KA" -> 72110
      [] name = "NANDINAGARI LETTER KHA" -> 72111
      [] name = "NANDINAGARI LETTER GA" -> 72112
      [] name = "NANDINAGARI LETTER GHA" -> 72113
      [] name = "NANDINAGARI LETTER NGA" -> 72114
      [] name = "NANDINAGARI LETTER CA" -> 72115
      [] name = "NANDINAGARI LETTER CHA" -> 72116
      [] name = "NANDINAGARI LETTER JA" -> 72117
      [] name = "NANDINAGARI LETTER JHA" -> 72118
      [] name = "NANDINAGARI LETTER NYA" -> 72119
      [] name = "NANDINAGARI LETTER TTA" -> 72120
      [] name = "NANDINAGARI LETTER TTHA" -> 72121
      [] name = "NANDINAGARI LETTER DDA" -> 72122
      [] name = "NANDINAGARI LETTER DDHA" -> 72123
      [] name = "NANDINAGARI LETTER NNA" -> 72124
      [] name = "NANDINAGARI LETTER TA" -> 72125
      [] name = "NANDINAGARI LETTER THA" -> 72126
      [] name = "NANDINAGARI LETTER DA" -> 72127
      [] name = "NANDINAGARI LETTER DHA" -> 72128
      [] name = "NANDINAGARI LETTER NA" -> 72129
      [] name = "NANDINAGARI LETTER PA" -> 72130
      [] name = "NANDINAGARI LETTER PHA" -> 72131
      [] name = "NANDINAGARI LETTER BA" -> 72132
      [] name = "NANDINAGARI LETTER BHA" -> 72133
      [] name = "NANDINAGARI LETTER MA" -> 72134
      [] name = "NANDINAGARI LETTER YA" -> 72135
      [] name = "NANDINAGARI LETTER RA" -> 72136
      [] name = "NANDINAGARI LETTER LA" -> 72137
      [] name = "NANDINAGARI LETTER VA" -> 72138
      [] name = "NANDINAGARI LETTER SHA" -> 72139
      [] name = "NANDINAGARI LETTER SSA" -> 72140
      [] name = "NANDINAGARI LETTER SA" -> 72141
      [] name = "NANDINAGARI LETTER HA" -> 72142
      [] name = "NANDINAGARI LETTER LLA" -> 72143
      [] name = "NANDINAGARI LETTER RRA" -> 72144
      [] name = "NANDINAGARI VOWEL SIGN AA" -> 72145
      [] name = "NANDINAGARI VOWEL SIGN I" -> 72146
      [] name = "NANDINAGARI VOWEL SIGN II" -> 72147
      [] name = "NANDINAGARI VOWEL SIGN U" -> 72148
      [] name = "NANDINAGARI VOWEL SIGN UU" -> 72149
      [] name = "NANDINAGARI VOWEL SIGN VOCALIC R" -> 72150
      [] name = "NANDINAGARI VOWEL SIGN VOCALIC RR" -> 72151
      [] name = "NANDINAGARI VOWEL SIGN E" -> 72154
      [] name = "NANDINAGARI VOWEL SIGN AI" -> 72155
      [] name = "NANDINAGARI VOWEL SIGN O" -> 72156
      [] name = "NANDINAGARI VOWEL SIGN AU" -> 72157
      [] name = "NANDINAGARI SIGN ANUSVARA" -> 72158
      [] name = "NANDINAGARI SIGN VISARGA" -> 72159
      [] name = "NANDINAGARI SIGN VIRAMA" -> 72160
      [] name = "NANDINAGARI SIGN AVAGRAHA" -> 72161
      [] name = "NANDINAGARI SIGN SIDDHAM" -> 72162
      [] name = "NANDINAGARI HEADSTROKE" -> 72163
      [] name = "NANDINAGARI VOWEL SIGN PRISHTHAMATRA E" -> 72164
      [] name = "ZANABAZAR SQUARE LETTER A" -> 72192
      [] name = "ZANABAZAR SQUARE VOWEL SIGN I" -> 72193
      [] name = "ZANABAZAR SQUARE VOWEL SIGN UE" -> 72194
      [] name = "ZANABAZAR SQUARE VOWEL SIGN U" -> 72195
      [] name = "ZANABAZAR SQUARE VOWEL SIGN E" -> 72196
      [] name = "ZANABAZAR SQUARE VOWEL SIGN OE" -> 72197
      [] name = "ZANABAZAR SQUARE VOWEL SIGN O" -> 72198
      [] name = "ZANABAZAR SQUARE VOWEL SIGN AI" -> 72199
      [] name = "ZANABAZAR SQUARE VOWEL SIGN AU" -> 72200
      [] name = "ZANABAZAR SQUARE VOWEL SIGN REVERSED I" -> 72201
      [] name = "ZANABAZAR SQUARE VOWEL LENGTH MARK" -> 72202
      [] name = "ZANABAZAR SQUARE LETTER KA" -> 72203
      [] name = "ZANABAZAR SQUARE LETTER KHA" -> 72204
      [] name = "ZANABAZAR SQUARE LETTER GA" -> 72205
      [] name = "ZANABAZAR SQUARE LETTER GHA" -> 72206
      [] name = "ZANABAZAR SQUARE LETTER NGA" -> 72207
      [] name = "ZANABAZAR SQUARE LETTER CA" -> 72208
      [] name = "ZANABAZAR SQUARE LETTER CHA" -> 72209
      [] name = "ZANABAZAR SQUARE LETTER JA" -> 72210
      [] name = "ZANABAZAR SQUARE LETTER NYA" -> 72211
      [] name = "ZANABAZAR SQUARE LETTER TTA" -> 72212
      [] name = "ZANABAZAR SQUARE LETTER TTHA" -> 72213
      [] name = "ZANABAZAR SQUARE LETTER DDA" -> 72214
      [] name = "ZANABAZAR SQUARE LETTER DDHA" -> 72215
      [] name = "ZANABAZAR SQUARE LETTER NNA" -> 72216
      [] name = "ZANABAZAR SQUARE LETTER TA" -> 72217
      [] name = "ZANABAZAR SQUARE LETTER THA" -> 72218
      [] name = "ZANABAZAR SQUARE LETTER DA" -> 72219
      [] name = "ZANABAZAR SQUARE LETTER DHA" -> 72220
      [] name = "ZANABAZAR SQUARE LETTER NA" -> 72221
      [] name = "ZANABAZAR SQUARE LETTER PA" -> 72222
      [] name = "ZANABAZAR SQUARE LETTER PHA" -> 72223
      [] name = "ZANABAZAR SQUARE LETTER BA" -> 72224
      [] name = "ZANABAZAR SQUARE LETTER BHA" -> 72225
      [] name = "ZANABAZAR SQUARE LETTER MA" -> 72226
      [] name = "ZANABAZAR SQUARE LETTER TSA" -> 72227
      [] name = "ZANABAZAR SQUARE LETTER TSHA" -> 72228
      [] name = "ZANABAZAR SQUARE LETTER DZA" -> 72229
      [] name = "ZANABAZAR SQUARE LETTER DZHA" -> 72230
      [] name = "ZANABAZAR SQUARE LETTER ZHA" -> 72231
      [] name = "ZANABAZAR SQUARE LETTER ZA" -> 72232
      [] name = "ZANABAZAR SQUARE LETTER -A" -> 72233
      [] name = "ZANABAZAR SQUARE LETTER YA" -> 72234
      [] name = "ZANABAZAR SQUARE LETTER RA" -> 72235
      [] name = "ZANABAZAR SQUARE LETTER LA" -> 72236
      [] name = "ZANABAZAR SQUARE LETTER VA" -> 72237
      [] name = "ZANABAZAR SQUARE LETTER SHA" -> 72238
      [] name = "ZANABAZAR SQUARE LETTER SSA" -> 72239
      [] name = "ZANABAZAR SQUARE LETTER SA" -> 72240
      [] name = "ZANABAZAR SQUARE LETTER HA" -> 72241
      [] name = "ZANABAZAR SQUARE LETTER KSSA" -> 72242
      [] name = "ZANABAZAR SQUARE FINAL CONSONANT MARK" -> 72243
      [] name = "ZANABAZAR SQUARE SIGN VIRAMA" -> 72244
      [] name = "ZANABAZAR SQUARE SIGN CANDRABINDU" -> 72245
      [] name = "ZANABAZAR SQUARE SIGN CANDRABINDU WITH ORNAMENT" -> 72246
      [] name = "ZANABAZAR SQUARE SIGN CANDRA WITH ORNAMENT" -> 72247
      [] name = "ZANABAZAR SQUARE SIGN ANUSVARA" -> 72248
      [] name = "ZANABAZAR SQUARE SIGN VISARGA" -> 72249
      [] name = "ZANABAZAR SQUARE CLUSTER-INITIAL LETTER RA" -> 72250
      [] name = "ZANABAZAR SQUARE CLUSTER-FINAL LETTER YA" -> 72251
      [] name = "ZANABAZAR SQUARE CLUSTER-FINAL LETTER RA" -> 72252
      [] name = "ZANABAZAR SQUARE CLUSTER-FINAL LETTER LA" -> 72253
      [] name = "ZANABAZAR SQUARE CLUSTER-FINAL LETTER VA" -> 72254
      [] name = "ZANABAZAR SQUARE INITIAL HEAD MARK" -> 72255
      [] name = "ZANABAZAR SQUARE CLOSING HEAD MARK" -> 72256
      [] name = "ZANABAZAR SQUARE MARK TSHEG" -> 72257
      [] name = "ZANABAZAR SQUARE MARK SHAD" -> 72258
      [] name = "ZANABAZAR SQUARE MARK DOUBLE SHAD" -> 72259
      [] name = "ZANABAZAR SQUARE MARK LONG TSHEG" -> 72260
      [] name = "ZANABAZAR SQUARE INITIAL DOUBLE-LINED HEAD MARK" -> 72261
      [] name = "ZANABAZAR SQUARE CLOSING DOUBLE-LINED HEAD MARK" -> 72262
      [] name = "ZANABAZAR SQUARE SUBJOINER" -> 72263
      [] name = "SOYOMBO LETTER A" -> 72272
      [] name = "SOYOMBO VOWEL SIGN I" -> 72273
      [] name = "SOYOMBO VOWEL SIGN UE" -> 72274
      [] name = "SOYOMBO VOWEL SIGN U" -> 72275
      [] name = "SOYOMBO VOWEL SIGN E" -> 72276
      [] name = "SOYOMBO VOWEL SIGN O" -> 72277
      [] name = "SOYOMBO VOWEL SIGN OE" -> 72278
      [] name = "SOYOMBO VOWEL SIGN AI" -> 72279
      [] name = "SOYOMBO VOWEL SIGN AU" -> 72280
      [] name = "SOYOMBO VOWEL SIGN VOCALIC R" -> 72281
      [] name = "SOYOMBO VOWEL SIGN VOCALIC L" -> 72282
      [] name = "SOYOMBO VOWEL LENGTH MARK" -> 72283
      [] name = "SOYOMBO LETTER KA" -> 72284
      [] name = "SOYOMBO LETTER KHA" -> 72285
      [] name = "SOYOMBO LETTER GA" -> 72286
      [] name = "SOYOMBO LETTER GHA" -> 72287
      [] name = "SOYOMBO LETTER NGA" -> 72288
      [] name = "SOYOMBO LETTER CA" -> 72289
      [] name = "SOYOMBO LETTER CHA" -> 72290
      [] name = "SOYOMBO LETTER JA" -> 72291
      [] name = "SOYOMBO LETTER JHA" -> 72292
      [] name = "SOYOMBO LETTER NYA" -> 72293
      [] name = "SOYOMBO LETTER TTA" -> 72294
      [] name = "SOYOMBO LETTER TTHA" -> 72295
      [] name = "SOYOMBO LETTER DDA" -> 72296
      [] name = "SOYOMBO LETTER DDHA" -> 72297
      [] name = "SOYOMBO LETTER NNA" -> 72298
      [] name = "SOYOMBO LETTER TA" -> 72299
      [] name = "SOYOMBO LETTER THA" -> 72300
      [] name = "SOYOMBO LETTER DA" -> 72301
      [] name = "SOYOMBO LETTER DHA" -> 72302
      [] name = "SOYOMBO LETTER NA" -> 72303
      [] name = "SOYOMBO LETTER PA" -> 72304
      [] name = "SOYOMBO LETTER PHA" -> 72305
      [] name = "SOYOMBO LETTER BA" -> 72306
      [] name = "SOYOMBO LETTER BHA" -> 72307
      [] name = "SOYOMBO LETTER MA" -> 72308
      [] name = "SOYOMBO LETTER TSA" -> 72309
      [] name = "SOYOMBO LETTER TSHA" -> 72310
      [] name = "SOYOMBO LETTER DZA" -> 72311
      [] name = "SOYOMBO LETTER ZHA" -> 72312
      [] name = "SOYOMBO LETTER ZA" -> 72313
      [] name = "SOYOMBO LETTER -A" -> 72314
      [] name = "SOYOMBO LETTER YA" -> 72315
      [] name = "SOYOMBO LETTER RA" -> 72316
      [] name = "SOYOMBO LETTER LA" -> 72317
      [] name = "SOYOMBO LETTER VA" -> 72318
      [] name = "SOYOMBO LETTER SHA" -> 72319
      [] name = "SOYOMBO LETTER SSA" -> 72320
      [] name = "SOYOMBO LETTER SA" -> 72321
      [] name = "SOYOMBO LETTER HA" -> 72322
      [] name = "SOYOMBO LETTER KSSA" -> 72323
      [] name = "SOYOMBO SIGN JIHVAMULIYA" -> 72324
      [] name = "SOYOMBO SIGN UPADHMANIYA" -> 72325
      [] name = "SOYOMBO CLUSTER-INITIAL LETTER RA" -> 72326
      [] name = "SOYOMBO CLUSTER-INITIAL LETTER LA" -> 72327
      [] name = "SOYOMBO CLUSTER-INITIAL LETTER SHA" -> 72328
      [] name = "SOYOMBO CLUSTER-INITIAL LETTER SA" -> 72329
      [] name = "SOYOMBO FINAL CONSONANT SIGN G" -> 72330
      [] name = "SOYOMBO FINAL CONSONANT SIGN K" -> 72331
      [] name = "SOYOMBO FINAL CONSONANT SIGN NG" -> 72332
      [] name = "SOYOMBO FINAL CONSONANT SIGN D" -> 72333
      [] name = "SOYOMBO FINAL CONSONANT SIGN N" -> 72334
      [] name = "SOYOMBO FINAL CONSONANT SIGN B" -> 72335
      [] name = "SOYOMBO FINAL CONSONANT SIGN M" -> 72336
      [] name = "SOYOMBO FINAL CONSONANT SIGN R" -> 72337
      [] name = "SOYOMBO FINAL CONSONANT SIGN L" -> 72338
      [] name = "SOYOMBO FINAL CONSONANT SIGN SH" -> 72339
      [] name = "SOYOMBO FINAL CONSONANT SIGN S" -> 72340
      [] name = "SOYOMBO FINAL CONSONANT SIGN -A" -> 72341
      [] name = "SOYOMBO SIGN ANUSVARA" -> 72342
      [] name = "SOYOMBO SIGN VISARGA" -> 72343
      [] name = "SOYOMBO GEMINATION MARK" -> 72344
      [] name = "SOYOMBO SUBJOINER" -> 72345
      [] name = "SOYOMBO MARK TSHEG" -> 72346
      [] name = "SOYOMBO MARK SHAD" -> 72347
      [] name = "SOYOMBO MARK DOUBLE SHAD" -> 72348
      [] name = "SOYOMBO MARK PLUTA" -> 72349
      [] name = "SOYOMBO HEAD MARK WITH MOON AND SUN AND TRIPLE FLAME" -> 72350
      [] name = "SOYOMBO HEAD MARK WITH MOON AND SUN AND FLAME" -> 72351
      [] name = "SOYOMBO HEAD MARK WITH MOON AND SUN" -> 72352
      [] name = "SOYOMBO TERMINAL MARK-1" -> 72353
      [] name = "SOYOMBO TERMINAL MARK-2" -> 72354
      [] name = "CANADIAN SYLLABICS NATTILIK HI" -> 72368
      [] name = "CANADIAN SYLLABICS NATTILIK HII" -> 72369
      [] name = "CANADIAN SYLLABICS NATTILIK HO" -> 72370
      [] name = "CANADIAN SYLLABICS NATTILIK HOO" -> 72371
      [] name = "CANADIAN SYLLABICS NATTILIK HA" -> 72372
      [] name = "CANADIAN SYLLABICS NATTILIK HAA" -> 72373
      [] name = "CANADIAN SYLLABICS NATTILIK SHRI" -> 72374
      [] name = "CANADIAN SYLLABICS NATTILIK SHRII" -> 72375
      [] name = "CANADIAN SYLLABICS NATTILIK SHRO" -> 72376
      [] name = "CANADIAN SYLLABICS NATTILIK SHROO" -> 72377
      [] name = "CANADIAN SYLLABICS NATTILIK SHRA" -> 72378
      [] name = "CANADIAN SYLLABICS NATTILIK SHRAA" -> 72379
      [] name = "CANADIAN SYLLABICS SPE" -> 72380
      [] name = "CANADIAN SYLLABICS SPI" -> 72381
      [] name = "CANADIAN SYLLABICS SPO" -> 72382
      [] name = "CANADIAN SYLLABICS SPA" -> 72383
      [] name = "PAU CIN HAU LETTER PA" -> 72384
      [] name = "PAU CIN HAU LETTER KA" -> 72385
      [] name = "PAU CIN HAU LETTER LA" -> 72386
      [] name = "PAU CIN HAU LETTER MA" -> 72387
      [] name = "PAU CIN HAU LETTER DA" -> 72388
      [] name = "PAU CIN HAU LETTER ZA" -> 72389
      [] name = "PAU CIN HAU LETTER VA" -> 72390
      [] name = "PAU CIN HAU LETTER NGA" -> 72391
      [] name = "PAU CIN HAU LETTER HA" -> 72392
      [] name = "PAU CIN HAU LETTER GA" -> 72393
      [] name = "PAU CIN HAU LETTER KHA" -> 72394
      [] name = "PAU CIN HAU LETTER SA" -> 72395
      [] name = "PAU CIN HAU LETTER BA" -> 72396
      [] name = "PAU CIN HAU LETTER CA" -> 72397
      [] name = "PAU CIN HAU LETTER TA" -> 72398
      [] name = "PAU CIN HAU LETTER THA" -> 72399
      [] name = "PAU CIN HAU LETTER NA" -> 72400
      [] name = "PAU CIN HAU LETTER PHA" -> 72401
      [] name = "PAU CIN HAU LETTER RA" -> 72402
      [] name = "PAU CIN HAU LETTER FA" -> 72403
      [] name = "PAU CIN HAU LETTER CHA" -> 72404
      [] name = "PAU CIN HAU LETTER A" -> 72405
      [] name = "PAU CIN HAU LETTER E" -> 72406
      [] name = "PAU CIN HAU LETTER I" -> 72407
      [] name = "PAU CIN HAU LETTER O" -> 72408
      [] name = "PAU CIN HAU LETTER U" -> 72409
      [] name = "PAU CIN HAU LETTER UA" -> 72410
      [] name = "PAU CIN HAU LETTER IA" -> 72411
      [] name = "PAU CIN HAU LETTER FINAL P" -> 72412
      [] name = "PAU CIN HAU LETTER FINAL K" -> 72413
      [] name = "PAU CIN HAU LETTER FINAL T" -> 72414
      [] name = "PAU CIN HAU LETTER FINAL M" -> 72415
      [] name = "PAU CIN HAU LETTER FINAL N" -> 72416
      [] name = "PAU CIN HAU LETTER FINAL L" -> 72417
      [] name = "PAU CIN HAU LETTER FINAL W" -> 72418
      [] name = "PAU CIN HAU LETTER FINAL NG" -> 72419
      [] name = "PAU CIN HAU LETTER FINAL Y" -> 72420
      [] name = "PAU CIN HAU RISING TONE LONG" -> 72421
      [] name = "PAU CIN HAU RISING TONE" -> 72422
      [] name = "PAU CIN HAU SANDHI GLOTTAL STOP" -> 72423
      [] name = "PAU CIN HAU RISING TONE LONG FINAL" -> 72424
      [] name = "PAU CIN HAU RISING TONE FINAL" -> 72425
      [] name = "PAU CIN HAU SANDHI GLOTTAL STOP FINAL" -> 72426
      [] name = "PAU CIN HAU SANDHI TONE LONG" -> 72427
      [] name = "PAU CIN HAU SANDHI TONE" -> 72428
      [] name = "PAU CIN HAU SANDHI TONE LONG FINAL" -> 72429
      [] name = "PAU CIN HAU SANDHI TONE FINAL" -> 72430
      [] name = "PAU CIN HAU MID-LEVEL TONE" -> 72431
      [] name = "PAU CIN HAU GLOTTAL STOP VARIANT" -> 72432
      [] name = "PAU CIN HAU MID-LEVEL TONE LONG FINAL" -> 72433
      [] name = "PAU CIN HAU MID-LEVEL TONE FINAL" -> 72434
      [] name = "PAU CIN HAU LOW-FALLING TONE LONG" -> 72435
      [] name = "PAU CIN HAU LOW-FALLING TONE" -> 72436
      [] name = "PAU CIN HAU GLOTTAL STOP" -> 72437
      [] name = "PAU CIN HAU LOW-FALLING TONE LONG FINAL" -> 72438
      [] name = "PAU CIN HAU LOW-FALLING TONE FINAL" -> 72439
      [] name = "PAU CIN HAU GLOTTAL STOP FINAL" -> 72440
      [] name = "BHAIKSUKI LETTER A" -> 72704
      [] name = "BHAIKSUKI LETTER AA" -> 72705
      [] name = "BHAIKSUKI LETTER I" -> 72706
      [] name = "BHAIKSUKI LETTER II" -> 72707
      [] name = "BHAIKSUKI LETTER U" -> 72708
      [] name = "BHAIKSUKI LETTER UU" -> 72709
      [] name = "BHAIKSUKI LETTER VOCALIC R" -> 72710
      [] name = "BHAIKSUKI LETTER VOCALIC RR" -> 72711
      [] name = "BHAIKSUKI LETTER VOCALIC L" -> 72712
      [] name = "BHAIKSUKI LETTER E" -> 72714
      [] name = "BHAIKSUKI LETTER AI" -> 72715
      [] name = "BHAIKSUKI LETTER O" -> 72716
      [] name = "BHAIKSUKI LETTER AU" -> 72717
      [] name = "BHAIKSUKI LETTER KA" -> 72718
      [] name = "BHAIKSUKI LETTER KHA" -> 72719
      [] name = "BHAIKSUKI LETTER GA" -> 72720
      [] name = "BHAIKSUKI LETTER GHA" -> 72721
      [] name = "BHAIKSUKI LETTER NGA" -> 72722
      [] name = "BHAIKSUKI LETTER CA" -> 72723
      [] name = "BHAIKSUKI LETTER CHA" -> 72724
      [] name = "BHAIKSUKI LETTER JA" -> 72725
      [] name = "BHAIKSUKI LETTER JHA" -> 72726
      [] name = "BHAIKSUKI LETTER NYA" -> 72727
      [] name = "BHAIKSUKI LETTER TTA" -> 72728
      [] name = "BHAIKSUKI LETTER TTHA" -> 72729
      [] name = "BHAIKSUKI LETTER DDA" -> 72730
      [] name = "BHAIKSUKI LETTER DDHA" -> 72731
      [] name = "BHAIKSUKI LETTER NNA" -> 72732
      [] name = "BHAIKSUKI LETTER TA" -> 72733
      [] name = "BHAIKSUKI LETTER THA" -> 72734
      [] name = "BHAIKSUKI LETTER DA" -> 72735
      [] name = "BHAIKSUKI LETTER DHA" -> 72736
      [] name = "BHAIKSUKI LETTER NA" -> 72737
      [] name = "BHAIKSUKI LETTER PA" -> 72738
      [] name = "BHAIKSUKI LETTER PHA" -> 72739
      [] name = "BHAIKSUKI LETTER BA" -> 72740
      [] name = "BHAIKSUKI LETTER BHA" -> 72741
      [] name = "BHAIKSUKI LETTER MA" -> 72742
      [] name = "BHAIKSUKI LETTER YA" -> 72743
      [] name = "BHAIKSUKI LETTER RA" -> 72744
      [] name = "BHAIKSUKI LETTER LA" -> 72745
      [] name = "BHAIKSUKI LETTER VA" -> 72746
      [] name = "BHAIKSUKI LETTER SHA" -> 72747
      [] name = "BHAIKSUKI LETTER SSA" -> 72748
      [] name = "BHAIKSUKI LETTER SA" -> 72749
      [] name = "BHAIKSUKI LETTER HA" -> 72750
      [] name = "BHAIKSUKI VOWEL SIGN AA" -> 72751
      [] name = "BHAIKSUKI VOWEL SIGN I" -> 72752
      [] name = "BHAIKSUKI VOWEL SIGN II" -> 72753
      [] name = "BHAIKSUKI VOWEL SIGN U" -> 72754
      [] name = "BHAIKSUKI VOWEL SIGN UU" -> 72755
      [] name = "BHAIKSUKI VOWEL SIGN VOCALIC R" -> 72756
      [] name = "BHAIKSUKI VOWEL SIGN VOCALIC RR" -> 72757
      [] name = "BHAIKSUKI VOWEL SIGN VOCALIC L" -> 72758
      [] name = "BHAIKSUKI VOWEL SIGN E" -> 72760
      [] name = "BHAIKSUKI VOWEL SIGN AI" -> 72761
      [] name = "BHAIKSUKI VOWEL SIGN O" -> 72762
      [] name = "BHAIKSUKI VOWEL SIGN AU" -> 72763
      [] name = "BHAIKSUKI SIGN CANDRABINDU" -> 72764
      [] name = "BHAIKSUKI SIGN ANUSVARA" -> 72765
      [] name = "BHAIKSUKI SIGN VISARGA" -> 72766
      [] name = "BHAIKSUKI SIGN VIRAMA" -> 72767
      [] name = "BHAIKSUKI SIGN AVAGRAHA" -> 72768
      [] name = "BHAIKSUKI DANDA" -> 72769
      [] name = "BHAIKSUKI DOUBLE DANDA" -> 72770
      [] name = "BHAIKSUKI WORD SEPARATOR" -> 72771
      [] name = "BHAIKSUKI GAP FILLER-1" -> 72772
      [] name = "BHAIKSUKI GAP FILLER-2" -> 72773
      [] name = "BHAIKSUKI DIGIT ZERO" -> 72784
      [] name = "BHAIKSUKI DIGIT ONE" -> 72785
      [] name = "BHAIKSUKI DIGIT TWO" -> 72786
      [] name = "BHAIKSUKI DIGIT THREE" -> 72787
      [] name = "BHAIKSUKI DIGIT FOUR" -> 72788
      [] name = "BHAIKSUKI DIGIT FIVE" -> 72789
      [] name = "BHAIKSUKI DIGIT SIX" -> 72790
      [] name = "BHAIKSUKI DIGIT SEVEN" -> 72791
      [] name = "BHAIKSUKI DIGIT EIGHT" -> 72792
      [] name = "BHAIKSUKI DIGIT NINE" -> 72793
      [] name = "BHAIKSUKI NUMBER ONE" -> 72794
      [] name = "BHAIKSUKI NUMBER TWO" -> 72795
      [] name = "BHAIKSUKI NUMBER THREE" -> 72796
      [] name = "BHAIKSUKI NUMBER FOUR" -> 72797
      [] name = "BHAIKSUKI NUMBER FIVE" -> 72798
      [] name = "BHAIKSUKI NUMBER SIX" -> 72799
      [] name = "BHAIKSUKI NUMBER SEVEN" -> 72800
      [] name = "BHAIKSUKI NUMBER EIGHT" -> 72801
      [] name = "BHAIKSUKI NUMBER NINE" -> 72802
      [] name = "BHAIKSUKI NUMBER TEN" -> 72803
      [] name = "BHAIKSUKI NUMBER TWENTY" -> 72804
      [] name = "BHAIKSUKI NUMBER THIRTY" -> 72805
      [] name = "BHAIKSUKI NUMBER FORTY" -> 72806
      [] name = "BHAIKSUKI NUMBER FIFTY" -> 72807
      [] name = "BHAIKSUKI NUMBER SIXTY" -> 72808
      [] name = "BHAIKSUKI NUMBER SEVENTY" -> 72809
      [] name = "BHAIKSUKI NUMBER EIGHTY" -> 72810
      [] name = "BHAIKSUKI NUMBER NINETY" -> 72811
      [] name = "BHAIKSUKI HUNDREDS UNIT MARK" -> 72812
      [] name = "MARCHEN HEAD MARK" -> 72816
      [] name = "MARCHEN MARK SHAD" -> 72817
      [] name = "MARCHEN LETTER KA" -> 72818
      [] name = "MARCHEN LETTER KHA" -> 72819
      [] name = "MARCHEN LETTER GA" -> 72820
      [] name = "MARCHEN LETTER NGA" -> 72821
      [] name = "MARCHEN LETTER CA" -> 72822
      [] name = "MARCHEN LETTER CHA" -> 72823
      [] name = "MARCHEN LETTER JA" -> 72824
      [] name = "MARCHEN LETTER NYA" -> 72825
      [] name = "MARCHEN LETTER TA" -> 72826
      [] name = "MARCHEN LETTER THA" -> 72827
      [] name = "MARCHEN LETTER DA" -> 72828
      [] name = "MARCHEN LETTER NA" -> 72829
      [] name = "MARCHEN LETTER PA" -> 72830
      [] name = "MARCHEN LETTER PHA" -> 72831
      [] name = "MARCHEN LETTER BA" -> 72832
      [] name = "MARCHEN LETTER MA" -> 72833
      [] name = "MARCHEN LETTER TSA" -> 72834
      [] name = "MARCHEN LETTER TSHA" -> 72835
      [] name = "MARCHEN LETTER DZA" -> 72836
      [] name = "MARCHEN LETTER WA" -> 72837
      [] name = "MARCHEN LETTER ZHA" -> 72838
      [] name = "MARCHEN LETTER ZA" -> 72839
      [] name = "MARCHEN LETTER -A" -> 72840
      [] name = "MARCHEN LETTER YA" -> 72841
      [] name = "MARCHEN LETTER RA" -> 72842
      [] name = "MARCHEN LETTER LA" -> 72843
      [] name = "MARCHEN LETTER SHA" -> 72844
      [] name = "MARCHEN LETTER SA" -> 72845
      [] name = "MARCHEN LETTER HA" -> 72846
      [] name = "MARCHEN LETTER A" -> 72847
      [] name = "MARCHEN SUBJOINED LETTER KA" -> 72850
      [] name = "MARCHEN SUBJOINED LETTER KHA" -> 72851
      [] name = "MARCHEN SUBJOINED LETTER GA" -> 72852
      [] name = "MARCHEN SUBJOINED LETTER NGA" -> 72853
      [] name = "MARCHEN SUBJOINED LETTER CA" -> 72854
      [] name = "MARCHEN SUBJOINED LETTER CHA" -> 72855
      [] name = "MARCHEN SUBJOINED LETTER JA" -> 72856
      [] name = "MARCHEN SUBJOINED LETTER NYA" -> 72857
      [] name = "MARCHEN SUBJOINED LETTER TA" -> 72858
      [] name = "MARCHEN SUBJOINED LETTER THA" -> 72859
      [] name = "MARCHEN SUBJOINED LETTER DA" -> 72860
      [] name = "MARCHEN SUBJOINED LETTER NA" -> 72861
      [] name = "MARCHEN SUBJOINED LETTER PA" -> 72862
      [] name = "MARCHEN SUBJOINED LETTER PHA" -> 72863
      [] name = "MARCHEN SUBJOINED LETTER BA" -> 72864
      [] name = "MARCHEN SUBJOINED LETTER MA" -> 72865
      [] name = "MARCHEN SUBJOINED LETTER TSA" -> 72866
      [] name = "MARCHEN SUBJOINED LETTER TSHA" -> 72867
      [] name = "MARCHEN SUBJOINED LETTER DZA" -> 72868
      [] name = "MARCHEN SUBJOINED LETTER WA" -> 72869
      [] name = "MARCHEN SUBJOINED LETTER ZHA" -> 72870
      [] name = "MARCHEN SUBJOINED LETTER ZA" -> 72871
      [] name = "MARCHEN SUBJOINED LETTER YA" -> 72873
      [] name = "MARCHEN SUBJOINED LETTER RA" -> 72874
      [] name = "MARCHEN SUBJOINED LETTER LA" -> 72875
      [] name = "MARCHEN SUBJOINED LETTER SHA" -> 72876
      [] name = "MARCHEN SUBJOINED LETTER SA" -> 72877
      [] name = "MARCHEN SUBJOINED LETTER HA" -> 72878
      [] name = "MARCHEN SUBJOINED LETTER A" -> 72879
      [] name = "MARCHEN VOWEL SIGN AA" -> 72880
      [] name = "MARCHEN VOWEL SIGN I" -> 72881
      [] name = "MARCHEN VOWEL SIGN U" -> 72882
      [] name = "MARCHEN VOWEL SIGN E" -> 72883
      [] name = "MARCHEN VOWEL SIGN O" -> 72884
      [] name = "MARCHEN SIGN ANUSVARA" -> 72885
      [] name = "MARCHEN SIGN CANDRABINDU" -> 72886
      [] name = "MASARAM GONDI LETTER A" -> 72960
      [] name = "MASARAM GONDI LETTER AA" -> 72961
      [] name = "MASARAM GONDI LETTER I" -> 72962
      [] name = "MASARAM GONDI LETTER II" -> 72963
      [] name = "MASARAM GONDI LETTER U" -> 72964
      [] name = "MASARAM GONDI LETTER UU" -> 72965
      [] name = "MASARAM GONDI LETTER E" -> 72966
      [] name = "MASARAM GONDI LETTER AI" -> 72968
      [] name = "MASARAM GONDI LETTER O" -> 72969
      [] name = "MASARAM GONDI LETTER AU" -> 72971
      [] name = "MASARAM GONDI LETTER KA" -> 72972
      [] name = "MASARAM GONDI LETTER KHA" -> 72973
      [] name = "MASARAM GONDI LETTER GA" -> 72974
      [] name = "MASARAM GONDI LETTER GHA" -> 72975
      [] name = "MASARAM GONDI LETTER NGA" -> 72976
      [] name = "MASARAM GONDI LETTER CA" -> 72977
      [] name = "MASARAM GONDI LETTER CHA" -> 72978
      [] name = "MASARAM GONDI LETTER JA" -> 72979
      [] name = "MASARAM GONDI LETTER JHA" -> 72980
      [] name = "MASARAM GONDI LETTER NYA" -> 72981
      [] name = "MASARAM GONDI LETTER TTA" -> 72982
      [] name = "MASARAM GONDI LETTER TTHA" -> 72983
      [] name = "MASARAM GONDI LETTER DDA" -> 72984
      [] name = "MASARAM GONDI LETTER DDHA" -> 72985
      [] name = "MASARAM GONDI LETTER NNA" -> 72986
      [] name = "MASARAM GONDI LETTER TA" -> 72987
      [] name = "MASARAM GONDI LETTER THA" -> 72988
      [] name = "MASARAM GONDI LETTER DA" -> 72989
      [] name = "MASARAM GONDI LETTER DHA" -> 72990
      [] name = "MASARAM GONDI LETTER NA" -> 72991
      [] name = "MASARAM GONDI LETTER PA" -> 72992
      [] name = "MASARAM GONDI LETTER PHA" -> 72993
      [] name = "MASARAM GONDI LETTER BA" -> 72994
      [] name = "MASARAM GONDI LETTER BHA" -> 72995
      [] name = "MASARAM GONDI LETTER MA" -> 72996
      [] name = "MASARAM GONDI LETTER YA" -> 72997
      [] name = "MASARAM GONDI LETTER RA" -> 72998
      [] name = "MASARAM GONDI LETTER LA" -> 72999
      [] name = "MASARAM GONDI LETTER VA" -> 73000
      [] name = "MASARAM GONDI LETTER SHA" -> 73001
      [] name = "MASARAM GONDI LETTER SSA" -> 73002
      [] name = "MASARAM GONDI LETTER SA" -> 73003
      [] name = "MASARAM GONDI LETTER HA" -> 73004
      [] name = "MASARAM GONDI LETTER LLA" -> 73005
      [] name = "MASARAM GONDI LETTER KSSA" -> 73006
      [] name = "MASARAM GONDI LETTER JNYA" -> 73007
      [] name = "MASARAM GONDI LETTER TRA" -> 73008
      [] name = "MASARAM GONDI VOWEL SIGN AA" -> 73009
      [] name = "MASARAM GONDI VOWEL SIGN I" -> 73010
      [] name = "MASARAM GONDI VOWEL SIGN II" -> 73011
      [] name = "MASARAM GONDI VOWEL SIGN U" -> 73012
      [] name = "MASARAM GONDI VOWEL SIGN UU" -> 73013
      [] name = "MASARAM GONDI VOWEL SIGN VOCALIC R" -> 73014
      [] name = "MASARAM GONDI VOWEL SIGN E" -> 73018
      [] name = "MASARAM GONDI VOWEL SIGN AI" -> 73020
      [] name = "MASARAM GONDI VOWEL SIGN O" -> 73021
      [] name = "MASARAM GONDI VOWEL SIGN AU" -> 73023
      [] name = "MASARAM GONDI SIGN ANUSVARA" -> 73024
      [] name = "MASARAM GONDI SIGN VISARGA" -> 73025
      [] name = "MASARAM GONDI SIGN NUKTA" -> 73026
      [] name = "MASARAM GONDI SIGN CANDRA" -> 73027
      [] name = "MASARAM GONDI SIGN HALANTA" -> 73028
      [] name = "MASARAM GONDI VIRAMA" -> 73029
      [] name = "MASARAM GONDI REPHA" -> 73030
      [] name = "MASARAM GONDI RA-KARA" -> 73031
      [] name = "MASARAM GONDI DIGIT ZERO" -> 73040
      [] name = "MASARAM GONDI DIGIT ONE" -> 73041
      [] name = "MASARAM GONDI DIGIT TWO" -> 73042
      [] name = "MASARAM GONDI DIGIT THREE" -> 73043
      [] name = "MASARAM GONDI DIGIT FOUR" -> 73044
      [] name = "MASARAM GONDI DIGIT FIVE" -> 73045
      [] name = "MASARAM GONDI DIGIT SIX" -> 73046
      [] name = "MASARAM GONDI DIGIT SEVEN" -> 73047
      [] name = "MASARAM GONDI DIGIT EIGHT" -> 73048
      [] name = "MASARAM GONDI DIGIT NINE" -> 73049
      [] name = "GUNJALA GONDI LETTER A" -> 73056
      [] name = "GUNJALA GONDI LETTER AA" -> 73057
      [] name = "GUNJALA GONDI LETTER I" -> 73058
      [] name = "GUNJALA GONDI LETTER II" -> 73059
      [] name = "GUNJALA GONDI LETTER U" -> 73060
      [] name = "GUNJALA GONDI LETTER UU" -> 73061
      [] name = "GUNJALA GONDI LETTER EE" -> 73063
      [] name = "GUNJALA GONDI LETTER AI" -> 73064
      [] name = "GUNJALA GONDI LETTER OO" -> 73066
      [] name = "GUNJALA GONDI LETTER AU" -> 73067
      [] name = "GUNJALA GONDI LETTER YA" -> 73068
      [] name = "GUNJALA GONDI LETTER VA" -> 73069
      [] name = "GUNJALA GONDI LETTER BA" -> 73070
      [] name = "GUNJALA GONDI LETTER BHA" -> 73071
      [] name = "GUNJALA GONDI LETTER MA" -> 73072
      [] name = "GUNJALA GONDI LETTER KA" -> 73073
      [] name = "GUNJALA GONDI LETTER KHA" -> 73074
      [] name = "GUNJALA GONDI LETTER TA" -> 73075
      [] name = "GUNJALA GONDI LETTER THA" -> 73076
      [] name = "GUNJALA GONDI LETTER LA" -> 73077
      [] name = "GUNJALA GONDI LETTER GA" -> 73078
      [] name = "GUNJALA GONDI LETTER GHA" -> 73079
      [] name = "GUNJALA GONDI LETTER DA" -> 73080
      [] name = "GUNJALA GONDI LETTER DHA" -> 73081
      [] name = "GUNJALA GONDI LETTER NA" -> 73082
      [] name = "GUNJALA GONDI LETTER CA" -> 73083
      [] name = "GUNJALA GONDI LETTER CHA" -> 73084
      [] name = "GUNJALA GONDI LETTER TTA" -> 73085
      [] name = "GUNJALA GONDI LETTER TTHA" -> 73086
      [] name = "GUNJALA GONDI LETTER LLA" -> 73087
      [] name = "GUNJALA GONDI LETTER JA" -> 73088
      [] name = "GUNJALA GONDI LETTER JHA" -> 73089
      [] name = "GUNJALA GONDI LETTER DDA" -> 73090
      [] name = "GUNJALA GONDI LETTER DDHA" -> 73091
      [] name = "GUNJALA GONDI LETTER NGA" -> 73092
      [] name = "GUNJALA GONDI LETTER PA" -> 73093
      [] name = "GUNJALA GONDI LETTER PHA" -> 73094
      [] name = "GUNJALA GONDI LETTER HA" -> 73095
      [] name = "GUNJALA GONDI LETTER RA" -> 73096
      [] name = "GUNJALA GONDI LETTER SA" -> 73097
      [] name = "GUNJALA GONDI VOWEL SIGN AA" -> 73098
      [] name = "GUNJALA GONDI VOWEL SIGN I" -> 73099
      [] name = "GUNJALA GONDI VOWEL SIGN II" -> 73100
      [] name = "GUNJALA GONDI VOWEL SIGN U" -> 73101
      [] name = "GUNJALA GONDI VOWEL SIGN UU" -> 73102
      [] name = "GUNJALA GONDI VOWEL SIGN EE" -> 73104
      [] name = "GUNJALA GONDI VOWEL SIGN AI" -> 73105
      [] name = "GUNJALA GONDI VOWEL SIGN OO" -> 73107
      [] name = "GUNJALA GONDI VOWEL SIGN AU" -> 73108
      [] name = "GUNJALA GONDI SIGN ANUSVARA" -> 73109
      [] name = "GUNJALA GONDI SIGN VISARGA" -> 73110
      [] name = "GUNJALA GONDI VIRAMA" -> 73111
      [] name = "GUNJALA GONDI OM" -> 73112
      [] name = "GUNJALA GONDI DIGIT ZERO" -> 73120
      [] name = "GUNJALA GONDI DIGIT ONE" -> 73121
      [] name = "GUNJALA GONDI DIGIT TWO" -> 73122
      [] name = "GUNJALA GONDI DIGIT THREE" -> 73123
      [] name = "GUNJALA GONDI DIGIT FOUR" -> 73124
      [] name = "GUNJALA GONDI DIGIT FIVE" -> 73125
      [] name = "GUNJALA GONDI DIGIT SIX" -> 73126
      [] name = "GUNJALA GONDI DIGIT SEVEN" -> 73127
      [] name = "GUNJALA GONDI DIGIT EIGHT" -> 73128
      [] name = "GUNJALA GONDI DIGIT NINE" -> 73129
      [] name = "MAKASAR LETTER KA" -> 73440
      [] name = "MAKASAR LETTER GA" -> 73441
      [] name = "MAKASAR LETTER NGA" -> 73442
      [] name = "MAKASAR LETTER PA" -> 73443
      [] name = "MAKASAR LETTER BA" -> 73444
      [] name = "MAKASAR LETTER MA" -> 73445
      [] name = "MAKASAR LETTER TA" -> 73446
      [] name = "MAKASAR LETTER DA" -> 73447
      [] name = "MAKASAR LETTER NA" -> 73448
      [] name = "MAKASAR LETTER CA" -> 73449
      [] name = "MAKASAR LETTER JA" -> 73450
      [] name = "MAKASAR LETTER NYA" -> 73451
      [] name = "MAKASAR LETTER YA" -> 73452
      [] name = "MAKASAR LETTER RA" -> 73453
      [] name = "MAKASAR LETTER LA" -> 73454
      [] name = "MAKASAR LETTER VA" -> 73455
      [] name = "MAKASAR LETTER SA" -> 73456
      [] name = "MAKASAR LETTER A" -> 73457
      [] name = "MAKASAR ANGKA" -> 73458
      [] name = "MAKASAR VOWEL SIGN I" -> 73459
      [] name = "MAKASAR VOWEL SIGN U" -> 73460
      [] name = "MAKASAR VOWEL SIGN E" -> 73461
      [] name = "MAKASAR VOWEL SIGN O" -> 73462
      [] name = "MAKASAR PASSIMBANG" -> 73463
      [] name = "MAKASAR END OF SECTION" -> 73464
      [] name = "LISU LETTER YHA" -> 73648
      [] name = "TAMIL FRACTION ONE THREE-HUNDRED-AND-TWENTIETH" -> 73664
      [] name = "TAMIL FRACTION ONE ONE-HUNDRED-AND-SIXTIETH" -> 73665
      [] name = "TAMIL FRACTION ONE EIGHTIETH" -> 73666
      [] name = "TAMIL FRACTION ONE SIXTY-FOURTH" -> 73667
      [] name = "TAMIL FRACTION ONE FORTIETH" -> 73668
      [] name = "TAMIL FRACTION ONE THIRTY-SECOND" -> 73669
      [] name = "TAMIL FRACTION THREE EIGHTIETHS" -> 73670
      [] name = "TAMIL FRACTION THREE SIXTY-FOURTHS" -> 73671
      [] name = "TAMIL FRACTION ONE TWENTIETH" -> 73672
      [] name = "TAMIL FRACTION ONE SIXTEENTH-1" -> 73673
      [] name = "TAMIL FRACTION ONE SIXTEENTH-2" -> 73674
      [] name = "TAMIL FRACTION ONE TENTH" -> 73675
      [] name = "TAMIL FRACTION ONE EIGHTH" -> 73676
      [] name = "TAMIL FRACTION THREE TWENTIETHS" -> 73677
      [] name = "TAMIL FRACTION THREE SIXTEENTHS" -> 73678
      [] name = "TAMIL FRACTION ONE FIFTH" -> 73679
      [] name = "TAMIL FRACTION ONE QUARTER" -> 73680
      [] name = "TAMIL FRACTION ONE HALF-1" -> 73681
      [] name = "TAMIL FRACTION ONE HALF-2" -> 73682
      [] name = "TAMIL FRACTION THREE QUARTERS" -> 73683
      [] name = "TAMIL FRACTION DOWNSCALING FACTOR KIIZH" -> 73684
      [] name = "TAMIL SIGN NEL" -> 73685
      [] name = "TAMIL SIGN CEVITU" -> 73686
      [] name = "TAMIL SIGN AAZHAAKKU" -> 73687
      [] name = "TAMIL SIGN UZHAKKU" -> 73688
      [] name = "TAMIL SIGN MUUVUZHAKKU" -> 73689
      [] name = "TAMIL SIGN KURUNI" -> 73690
      [] name = "TAMIL SIGN PATHAKKU" -> 73691
      [] name = "TAMIL SIGN MUKKURUNI" -> 73692
      [] name = "TAMIL SIGN KAACU" -> 73693
      [] name = "TAMIL SIGN PANAM" -> 73694
      [] name = "TAMIL SIGN PON" -> 73695
      [] name = "TAMIL SIGN VARAAKAN" -> 73696
      [] name = "TAMIL SIGN PAARAM" -> 73697
      [] name = "TAMIL SIGN KUZHI" -> 73698
      [] name = "TAMIL SIGN VELI" -> 73699
      [] name = "TAMIL WET CULTIVATION SIGN" -> 73700
      [] name = "TAMIL DRY CULTIVATION SIGN" -> 73701
      [] name = "TAMIL LAND SIGN" -> 73702
      [] name = "TAMIL SALT PAN SIGN" -> 73703
      [] name = "TAMIL TRADITIONAL CREDIT SIGN" -> 73704
      [] name = "TAMIL TRADITIONAL NUMBER SIGN" -> 73705
      [] name = "TAMIL CURRENT SIGN" -> 73706
      [] name = "TAMIL AND ODD SIGN" -> 73707
      [] name = "TAMIL SPENT SIGN" -> 73708
      [] name = "TAMIL TOTAL SIGN" -> 73709
      [] name = "TAMIL IN POSSESSION SIGN" -> 73710
      [] name = "TAMIL STARTING FROM SIGN" -> 73711
      [] name = "TAMIL SIGN MUTHALIYA" -> 73712
      [] name = "TAMIL SIGN VAKAIYARAA" -> 73713
      [] name = "TAMIL PUNCTUATION END OF TEXT" -> 73727
      [] name = "CUNEIFORM SIGN A" -> 73728
      [] name = "CUNEIFORM SIGN A TIMES A" -> 73729
      [] name = "CUNEIFORM SIGN A TIMES BAD" -> 73730
      [] name = "CUNEIFORM SIGN A TIMES GAN2 TENU" -> 73731
      [] name = "CUNEIFORM SIGN A TIMES HA" -> 73732
      [] name = "CUNEIFORM SIGN A TIMES IGI" -> 73733
      [] name = "CUNEIFORM SIGN A TIMES LAGAR GUNU" -> 73734
      [] name = "CUNEIFORM SIGN A TIMES MUSH" -> 73735
      [] name = "CUNEIFORM SIGN A TIMES SAG" -> 73736
      [] name = "CUNEIFORM SIGN A2" -> 73737
      [] name = "CUNEIFORM SIGN AB" -> 73738
      [] name = "CUNEIFORM SIGN AB TIMES ASH2" -> 73739
      [] name = "CUNEIFORM SIGN AB TIMES DUN3 GUNU" -> 73740
      [] name = "CUNEIFORM SIGN AB TIMES GAL" -> 73741
      [] name = "CUNEIFORM SIGN AB TIMES GAN2 TENU" -> 73742
      [] name = "CUNEIFORM SIGN AB TIMES HA" -> 73743
      [] name = "CUNEIFORM SIGN AB TIMES IGI GUNU" -> 73744
      [] name = "CUNEIFORM SIGN AB TIMES IMIN" -> 73745
      [] name = "CUNEIFORM SIGN AB TIMES LAGAB" -> 73746
      [] name = "CUNEIFORM SIGN AB TIMES SHESH" -> 73747
      [] name = "CUNEIFORM SIGN AB TIMES U PLUS U PLUS U" -> 73748
      [] name = "CUNEIFORM SIGN AB GUNU" -> 73749
      [] name = "CUNEIFORM SIGN AB2" -> 73750
      [] name = "CUNEIFORM SIGN AB2 TIMES BALAG" -> 73751
      [] name = "CUNEIFORM SIGN AB2 TIMES GAN2 TENU" -> 73752
      [] name = "CUNEIFORM SIGN AB2 TIMES ME PLUS EN" -> 73753
      [] name = "CUNEIFORM SIGN AB2 TIMES SHA3" -> 73754
      [] name = "CUNEIFORM SIGN AB2 TIMES TAK4" -> 73755
      [] name = "CUNEIFORM SIGN AD" -> 73756
      [] name = "CUNEIFORM SIGN AK" -> 73757
      [] name = "CUNEIFORM SIGN AK TIMES ERIN2" -> 73758
      [] name = "CUNEIFORM SIGN AK TIMES SHITA PLUS GISH" -> 73759
      [] name = "CUNEIFORM SIGN AL" -> 73760
      [] name = "CUNEIFORM SIGN AL TIMES AL" -> 73761
      [] name = "CUNEIFORM SIGN AL TIMES DIM2" -> 73762
      [] name = "CUNEIFORM SIGN AL TIMES GISH" -> 73763
      [] name = "CUNEIFORM SIGN AL TIMES HA" -> 73764
      [] name = "CUNEIFORM SIGN AL TIMES KAD3" -> 73765
      [] name = "CUNEIFORM SIGN AL TIMES KI" -> 73766
      [] name = "CUNEIFORM SIGN AL TIMES SHE" -> 73767
      [] name = "CUNEIFORM SIGN AL TIMES USH" -> 73768
      [] name = "CUNEIFORM SIGN ALAN" -> 73769
      [] name = "CUNEIFORM SIGN ALEPH" -> 73770
      [] name = "CUNEIFORM SIGN AMAR" -> 73771
      [] name = "CUNEIFORM SIGN AMAR TIMES SHE" -> 73772
      [] name = "CUNEIFORM SIGN AN" -> 73773
      [] name = "CUNEIFORM SIGN AN OVER AN" -> 73774
      [] name = "CUNEIFORM SIGN AN THREE TIMES" -> 73775
      [] name = "CUNEIFORM SIGN AN PLUS NAGA OPPOSING AN PLUS NAGA" -> 73776
      [] name = "CUNEIFORM SIGN AN PLUS NAGA SQUARED" -> 73777
      [] name = "CUNEIFORM SIGN ANSHE" -> 73778
      [] name = "CUNEIFORM SIGN APIN" -> 73779
      [] name = "CUNEIFORM SIGN ARAD" -> 73780
      [] name = "CUNEIFORM SIGN ARAD TIMES KUR" -> 73781
      [] name = "CUNEIFORM SIGN ARKAB" -> 73782
      [] name = "CUNEIFORM SIGN ASAL2" -> 73783
      [] name = "CUNEIFORM SIGN ASH" -> 73784
      [] name = "CUNEIFORM SIGN ASH ZIDA TENU" -> 73785
      [] name = "CUNEIFORM SIGN ASH KABA TENU" -> 73786
      [] name = "CUNEIFORM SIGN ASH OVER ASH TUG2 OVER TUG2 TUG2 OVER TUG2 PAP" -> 73787
      [] name = "CUNEIFORM SIGN ASH OVER ASH OVER ASH" -> 73788
      [] name = "CUNEIFORM SIGN ASH OVER ASH OVER ASH CROSSING ASH OVER ASH OVER ASH" -> 73789
      [] name = "CUNEIFORM SIGN ASH2" -> 73790
      [] name = "CUNEIFORM SIGN ASHGAB" -> 73791
      [] name = "CUNEIFORM SIGN BA" -> 73792
      [] name = "CUNEIFORM SIGN BAD" -> 73793
      [] name = "CUNEIFORM SIGN BAG3" -> 73794
      [] name = "CUNEIFORM SIGN BAHAR2" -> 73795
      [] name = "CUNEIFORM SIGN BAL" -> 73796
      [] name = "CUNEIFORM SIGN BAL OVER BAL" -> 73797
      [] name = "CUNEIFORM SIGN BALAG" -> 73798
      [] name = "CUNEIFORM SIGN BAR" -> 73799
      [] name = "CUNEIFORM SIGN BARA2" -> 73800
      [] name = "CUNEIFORM SIGN BI" -> 73801
      [] name = "CUNEIFORM SIGN BI TIMES A" -> 73802
      [] name = "CUNEIFORM SIGN BI TIMES GAR" -> 73803
      [] name = "CUNEIFORM SIGN BI TIMES IGI GUNU" -> 73804
      [] name = "CUNEIFORM SIGN BU" -> 73805
      [] name = "CUNEIFORM SIGN BU OVER BU AB" -> 73806
      [] name = "CUNEIFORM SIGN BU OVER BU UN" -> 73807
      [] name = "CUNEIFORM SIGN BU CROSSING BU" -> 73808
      [] name = "CUNEIFORM SIGN BULUG" -> 73809
      [] name = "CUNEIFORM SIGN BULUG OVER BULUG" -> 73810
      [] name = "CUNEIFORM SIGN BUR" -> 73811
      [] name = "CUNEIFORM SIGN BUR2" -> 73812
      [] name = "CUNEIFORM SIGN DA" -> 73813
      [] name = "CUNEIFORM SIGN DAG" -> 73814
      [] name = "CUNEIFORM SIGN DAG KISIM5 TIMES A PLUS MASH" -> 73815
      [] name = "CUNEIFORM SIGN DAG KISIM5 TIMES AMAR" -> 73816
      [] name = "CUNEIFORM SIGN DAG KISIM5 TIMES BALAG" -> 73817
      [] name = "CUNEIFORM SIGN DAG KISIM5 TIMES BI" -> 73818
      [] name = "CUNEIFORM SIGN DAG KISIM5 TIMES GA" -> 73819
      [] name = "CUNEIFORM SIGN DAG KISIM5 TIMES GA PLUS MASH" -> 73820
      [] name = "CUNEIFORM SIGN DAG KISIM5 TIMES GI" -> 73821
      [] name = "CUNEIFORM SIGN DAG KISIM5 TIMES GIR2" -> 73822
      [] name = "CUNEIFORM SIGN DAG KISIM5 TIMES GUD" -> 73823
      [] name = "CUNEIFORM SIGN DAG KISIM5 TIMES HA" -> 73824
      [] name = "CUNEIFORM SIGN DAG KISIM5 TIMES IR" -> 73825
      [] name = "CUNEIFORM SIGN DAG KISIM5 TIMES IR PLUS LU" -> 73826
      [] name = "CUNEIFORM SIGN DAG KISIM5 TIMES KAK" -> 73827
      [] name = "CUNEIFORM SIGN DAG KISIM5 TIMES LA" -> 73828
      [] name = "CUNEIFORM SIGN DAG KISIM5 TIMES LU" -> 73829
      [] name = "CUNEIFORM SIGN DAG KISIM5 TIMES LU PLUS MASH2" -> 73830
      [] name = "CUNEIFORM SIGN DAG KISIM5 TIMES LUM" -> 73831
      [] name = "CUNEIFORM SIGN DAG KISIM5 TIMES NE" -> 73832
      [] name = "CUNEIFORM SIGN DAG KISIM5 TIMES PAP PLUS PAP" -> 73833
      [] name = "CUNEIFORM SIGN DAG KISIM5 TIMES SI" -> 73834
      [] name = "CUNEIFORM SIGN DAG KISIM5 TIMES TAK4" -> 73835
      [] name = "CUNEIFORM SIGN DAG KISIM5 TIMES U2 PLUS GIR2" -> 73836
      [] name = "CUNEIFORM SIGN DAG KISIM5 TIMES USH" -> 73837
      [] name = "CUNEIFORM SIGN DAM" -> 73838
      [] name = "CUNEIFORM SIGN DAR" -> 73839
      [] name = "CUNEIFORM SIGN DARA3" -> 73840
      [] name = "CUNEIFORM SIGN DARA4" -> 73841
      [] name = "CUNEIFORM SIGN DI" -> 73842
      [] name = "CUNEIFORM SIGN DIB" -> 73843
      [] name = "CUNEIFORM SIGN DIM" -> 73844
      [] name = "CUNEIFORM SIGN DIM TIMES SHE" -> 73845
      [] name = "CUNEIFORM SIGN DIM2" -> 73846
      [] name = "CUNEIFORM SIGN DIN" -> 73847
      [] name = "CUNEIFORM SIGN DIN KASKAL U GUNU DISH" -> 73848
      [] name = "CUNEIFORM SIGN DISH" -> 73849
      [] name = "CUNEIFORM SIGN DU" -> 73850
      [] name = "CUNEIFORM SIGN DU OVER DU" -> 73851
      [] name = "CUNEIFORM SIGN DU GUNU" -> 73852
      [] name = "CUNEIFORM SIGN DU SHESHIG" -> 73853
      [] name = "CUNEIFORM SIGN DUB" -> 73854
      [] name = "CUNEIFORM SIGN DUB TIMES ESH2" -> 73855
      [] name = "CUNEIFORM SIGN DUB2" -> 73856
      [] name = "CUNEIFORM SIGN DUG" -> 73857
      [] name = "CUNEIFORM SIGN DUGUD" -> 73858
      [] name = "CUNEIFORM SIGN DUH" -> 73859
      [] name = "CUNEIFORM SIGN DUN" -> 73860
      [] name = "CUNEIFORM SIGN DUN3" -> 73861
      [] name = "CUNEIFORM SIGN DUN3 GUNU" -> 73862
      [] name = "CUNEIFORM SIGN DUN3 GUNU GUNU" -> 73863
      [] name = "CUNEIFORM SIGN DUN4" -> 73864
      [] name = "CUNEIFORM SIGN DUR2" -> 73865
      [] name = "CUNEIFORM SIGN E" -> 73866
      [] name = "CUNEIFORM SIGN E TIMES PAP" -> 73867
      [] name = "CUNEIFORM SIGN E OVER E NUN OVER NUN" -> 73868
      [] name = "CUNEIFORM SIGN E2" -> 73869
      [] name = "CUNEIFORM SIGN E2 TIMES A PLUS HA PLUS DA" -> 73870
      [] name = "CUNEIFORM SIGN E2 TIMES GAR" -> 73871
      [] name = "CUNEIFORM SIGN E2 TIMES MI" -> 73872
      [] name = "CUNEIFORM SIGN E2 TIMES SAL" -> 73873
      [] name = "CUNEIFORM SIGN E2 TIMES SHE" -> 73874
      [] name = "CUNEIFORM SIGN E2 TIMES U" -> 73875
      [] name = "CUNEIFORM SIGN EDIN" -> 73876
      [] name = "CUNEIFORM SIGN EGIR" -> 73877
      [] name = "CUNEIFORM SIGN EL" -> 73878
      [] name = "CUNEIFORM SIGN EN" -> 73879
      [] name = "CUNEIFORM SIGN EN TIMES GAN2" -> 73880
      [] name = "CUNEIFORM SIGN EN TIMES GAN2 TENU" -> 73881
      [] name = "CUNEIFORM SIGN EN TIMES ME" -> 73882
      [] name = "CUNEIFORM SIGN EN CROSSING EN" -> 73883
      [] name = "CUNEIFORM SIGN EN OPPOSING EN" -> 73884
      [] name = "CUNEIFORM SIGN EN SQUARED" -> 73885
      [] name = "CUNEIFORM SIGN EREN" -> 73886
      [] name = "CUNEIFORM SIGN ERIN2" -> 73887
      [] name = "CUNEIFORM SIGN ESH2" -> 73888
      [] name = "CUNEIFORM SIGN EZEN" -> 73889
      [] name = "CUNEIFORM SIGN EZEN TIMES A" -> 73890
      [] name = "CUNEIFORM SIGN EZEN TIMES A PLUS LAL" -> 73891
      [] name = "CUNEIFORM SIGN EZEN TIMES A PLUS LAL TIMES LAL" -> 73892
      [] name = "CUNEIFORM SIGN EZEN TIMES AN" -> 73893
      [] name = "CUNEIFORM SIGN EZEN TIMES BAD" -> 73894
      [] name = "CUNEIFORM SIGN EZEN TIMES DUN3 GUNU" -> 73895
      [] name = "CUNEIFORM SIGN EZEN TIMES DUN3 GUNU GUNU" -> 73896
      [] name = "CUNEIFORM SIGN EZEN TIMES HA" -> 73897
      [] name = "CUNEIFORM SIGN EZEN TIMES HA GUNU" -> 73898
      [] name = "CUNEIFORM SIGN EZEN TIMES IGI GUNU" -> 73899
      [] name = "CUNEIFORM SIGN EZEN TIMES KASKAL" -> 73900
      [] name = "CUNEIFORM SIGN EZEN TIMES KASKAL SQUARED" -> 73901
      [] name = "CUNEIFORM SIGN EZEN TIMES KU3" -> 73902
      [] name = "CUNEIFORM SIGN EZEN TIMES LA" -> 73903
      [] name = "CUNEIFORM SIGN EZEN TIMES LAL TIMES LAL" -> 73904
      [] name = "CUNEIFORM SIGN EZEN TIMES LI" -> 73905
      [] name = "CUNEIFORM SIGN EZEN TIMES LU" -> 73906
      [] name = "CUNEIFORM SIGN EZEN TIMES U2" -> 73907
      [] name = "CUNEIFORM SIGN EZEN TIMES UD" -> 73908
      [] name = "CUNEIFORM SIGN GA" -> 73909
      [] name = "CUNEIFORM SIGN GA GUNU" -> 73910
      [] name = "CUNEIFORM SIGN GA2" -> 73911
      [] name = "CUNEIFORM SIGN GA2 TIMES A PLUS DA PLUS HA" -> 73912
      [] name = "CUNEIFORM SIGN GA2 TIMES A PLUS HA" -> 73913
      [] name = "CUNEIFORM SIGN GA2 TIMES A PLUS IGI" -> 73914
      [] name = "CUNEIFORM SIGN GA2 TIMES AB2 TENU PLUS TAB" -> 73915
      [] name = "CUNEIFORM SIGN GA2 TIMES AN" -> 73916
      [] name = "CUNEIFORM SIGN GA2 TIMES ASH" -> 73917
      [] name = "CUNEIFORM SIGN GA2 TIMES ASH2 PLUS GAL" -> 73918
      [] name = "CUNEIFORM SIGN GA2 TIMES BAD" -> 73919
      [] name = "CUNEIFORM SIGN GA2 TIMES BAR PLUS RA" -> 73920
      [] name = "CUNEIFORM SIGN GA2 TIMES BUR" -> 73921
      [] name = "CUNEIFORM SIGN GA2 TIMES BUR PLUS RA" -> 73922
      [] name = "CUNEIFORM SIGN GA2 TIMES DA" -> 73923
      [] name = "CUNEIFORM SIGN GA2 TIMES DI" -> 73924
      [] name = "CUNEIFORM SIGN GA2 TIMES DIM TIMES SHE" -> 73925
      [] name = "CUNEIFORM SIGN GA2 TIMES DUB" -> 73926
      [] name = "CUNEIFORM SIGN GA2 TIMES EL" -> 73927
      [] name = "CUNEIFORM SIGN GA2 TIMES EL PLUS LA" -> 73928
      [] name = "CUNEIFORM SIGN GA2 TIMES EN" -> 73929
      [] name = "CUNEIFORM SIGN GA2 TIMES EN TIMES GAN2 TENU" -> 73930
      [] name = "CUNEIFORM SIGN GA2 TIMES GAN2 TENU" -> 73931
      [] name = "CUNEIFORM SIGN GA2 TIMES GAR" -> 73932
      [] name = "CUNEIFORM SIGN GA2 TIMES GI" -> 73933
      [] name = "CUNEIFORM SIGN GA2 TIMES GI4" -> 73934
      [] name = "CUNEIFORM SIGN GA2 TIMES GI4 PLUS A" -> 73935
      [] name = "CUNEIFORM SIGN GA2 TIMES GIR2 PLUS SU" -> 73936
      [] name = "CUNEIFORM SIGN GA2 TIMES HA PLUS LU PLUS ESH2" -> 73937
      [] name = "CUNEIFORM SIGN GA2 TIMES HAL" -> 73938
      [] name = "CUNEIFORM SIGN GA2 TIMES HAL PLUS LA" -> 73939
      [] name = "CUNEIFORM SIGN GA2 TIMES HI PLUS LI" -> 73940
      [] name = "CUNEIFORM SIGN GA2 TIMES HUB2" -> 73941
      [] name = "CUNEIFORM SIGN GA2 TIMES IGI GUNU" -> 73942
      [] name = "CUNEIFORM SIGN GA2 TIMES ISH PLUS HU PLUS ASH" -> 73943
      [] name = "CUNEIFORM SIGN GA2 TIMES KAK" -> 73944
      [] name = "CUNEIFORM SIGN GA2 TIMES KASKAL" -> 73945
      [] name = "CUNEIFORM SIGN GA2 TIMES KID" -> 73946
      [] name = "CUNEIFORM SIGN GA2 TIMES KID PLUS LAL" -> 73947
      [] name = "CUNEIFORM SIGN GA2 TIMES KU3 PLUS AN" -> 73948
      [] name = "CUNEIFORM SIGN GA2 TIMES LA" -> 73949
      [] name = "CUNEIFORM SIGN GA2 TIMES ME PLUS EN" -> 73950
      [] name = "CUNEIFORM SIGN GA2 TIMES MI" -> 73951
      [] name = "CUNEIFORM SIGN GA2 TIMES NUN" -> 73952
      [] name = "CUNEIFORM SIGN GA2 TIMES NUN OVER NUN" -> 73953
      [] name = "CUNEIFORM SIGN GA2 TIMES PA" -> 73954
      [] name = "CUNEIFORM SIGN GA2 TIMES SAL" -> 73955
      [] name = "CUNEIFORM SIGN GA2 TIMES SAR" -> 73956
      [] name = "CUNEIFORM SIGN GA2 TIMES SHE" -> 73957
      [] name = "CUNEIFORM SIGN GA2 TIMES SHE PLUS TUR" -> 73958
      [] name = "CUNEIFORM SIGN GA2 TIMES SHID" -> 73959
      [] name = "CUNEIFORM SIGN GA2 TIMES SUM" -> 73960
      [] name = "CUNEIFORM SIGN GA2 TIMES TAK4" -> 73961
      [] name = "CUNEIFORM SIGN GA2 TIMES U" -> 73962
      [] name = "CUNEIFORM SIGN GA2 TIMES UD" -> 73963
      [] name = "CUNEIFORM SIGN GA2 TIMES UD PLUS DU" -> 73964
      [] name = "CUNEIFORM SIGN GA2 OVER GA2" -> 73965
      [] name = "CUNEIFORM SIGN GABA" -> 73966
      [] name = "CUNEIFORM SIGN GABA CROSSING GABA" -> 73967
      [] name = "CUNEIFORM SIGN GAD" -> 73968
      [] name = "CUNEIFORM SIGN GAD OVER GAD GAR OVER GAR" -> 73969
      [] name = "CUNEIFORM SIGN GAL" -> 73970
      [] name = "CUNEIFORM SIGN GAL GAD OVER GAD GAR OVER GAR" -> 73971
      [] name = "CUNEIFORM SIGN GALAM" -> 73972
      [] name = "CUNEIFORM SIGN GAM" -> 73973
      [] name = "CUNEIFORM SIGN GAN" -> 73974
      [] name = "CUNEIFORM SIGN GAN2" -> 73975
      [] name = "CUNEIFORM SIGN GAN2 TENU" -> 73976
      [] name = "CUNEIFORM SIGN GAN2 OVER GAN2" -> 73977
      [] name = "CUNEIFORM SIGN GAN2 CROSSING GAN2" -> 73978
      [] name = "CUNEIFORM SIGN GAR" -> 73979
      [] name = "CUNEIFORM SIGN GAR3" -> 73980
      [] name = "CUNEIFORM SIGN GASHAN" -> 73981
      [] name = "CUNEIFORM SIGN GESHTIN" -> 73982
      [] name = "CUNEIFORM SIGN GESHTIN TIMES KUR" -> 73983
      [] name = "CUNEIFORM SIGN GI" -> 73984
      [] name = "CUNEIFORM SIGN GI TIMES E" -> 73985
      [] name = "CUNEIFORM SIGN GI TIMES U" -> 73986
      [] name = "CUNEIFORM SIGN GI CROSSING GI" -> 73987
      [] name = "CUNEIFORM SIGN GI4" -> 73988
      [] name = "CUNEIFORM SIGN GI4 OVER GI4" -> 73989
      [] name = "CUNEIFORM SIGN GI4 CROSSING GI4" -> 73990
      [] name = "CUNEIFORM SIGN GIDIM" -> 73991
      [] name = "CUNEIFORM SIGN GIR2" -> 73992
      [] name = "CUNEIFORM SIGN GIR2 GUNU" -> 73993
      [] name = "CUNEIFORM SIGN GIR3" -> 73994
      [] name = "CUNEIFORM SIGN GIR3 TIMES A PLUS IGI" -> 73995
      [] name = "CUNEIFORM SIGN GIR3 TIMES GAN2 TENU" -> 73996
      [] name = "CUNEIFORM SIGN GIR3 TIMES IGI" -> 73997
      [] name = "CUNEIFORM SIGN GIR3 TIMES LU PLUS IGI" -> 73998
      [] name = "CUNEIFORM SIGN GIR3 TIMES PA" -> 73999
      [] name = "CUNEIFORM SIGN GISAL" -> 74000
      [] name = "CUNEIFORM SIGN GISH" -> 74001
      [] name = "CUNEIFORM SIGN GISH CROSSING GISH" -> 74002
      [] name = "CUNEIFORM SIGN GISH TIMES BAD" -> 74003
      [] name = "CUNEIFORM SIGN GISH TIMES TAK4" -> 74004
      [] name = "CUNEIFORM SIGN GISH TENU" -> 74005
      [] name = "CUNEIFORM SIGN GU" -> 74006
      [] name = "CUNEIFORM SIGN GU CROSSING GU" -> 74007
      [] name = "CUNEIFORM SIGN GU2" -> 74008
      [] name = "CUNEIFORM SIGN GU2 TIMES KAK" -> 74009
      [] name = "CUNEIFORM SIGN GU2 TIMES KAK TIMES IGI GUNU" -> 74010
      [] name = "CUNEIFORM SIGN GU2 TIMES NUN" -> 74011
      [] name = "CUNEIFORM SIGN GU2 TIMES SAL PLUS TUG2" -> 74012
      [] name = "CUNEIFORM SIGN GU2 GUNU" -> 74013
      [] name = "CUNEIFORM SIGN GUD" -> 74014
      [] name = "CUNEIFORM SIGN GUD TIMES A PLUS KUR" -> 74015
      [] name = "CUNEIFORM SIGN GUD TIMES KUR" -> 74016
      [] name = "CUNEIFORM SIGN GUD OVER GUD LUGAL" -> 74017
      [] name = "CUNEIFORM SIGN GUL" -> 74018
      [] name = "CUNEIFORM SIGN GUM" -> 74019
      [] name = "CUNEIFORM SIGN GUM TIMES SHE" -> 74020
      [] name = "CUNEIFORM SIGN GUR" -> 74021
      [] name = "CUNEIFORM SIGN GUR7" -> 74022
      [] name = "CUNEIFORM SIGN GURUN" -> 74023
      [] name = "CUNEIFORM SIGN GURUSH" -> 74024
      [] name = "CUNEIFORM SIGN HA" -> 74025
      [] name = "CUNEIFORM SIGN HA TENU" -> 74026
      [] name = "CUNEIFORM SIGN HA GUNU" -> 74027
      [] name = "CUNEIFORM SIGN HAL" -> 74028
      [] name = "CUNEIFORM SIGN HI" -> 74029
      [] name = "CUNEIFORM SIGN HI TIMES ASH" -> 74030
      [] name = "CUNEIFORM SIGN HI TIMES ASH2" -> 74031
      [] name = "CUNEIFORM SIGN HI TIMES BAD" -> 74032
      [] name = "CUNEIFORM SIGN HI TIMES DISH" -> 74033
      [] name = "CUNEIFORM SIGN HI TIMES GAD" -> 74034
      [] name = "CUNEIFORM SIGN HI TIMES KIN" -> 74035
      [] name = "CUNEIFORM SIGN HI TIMES NUN" -> 74036
      [] name = "CUNEIFORM SIGN HI TIMES SHE" -> 74037
      [] name = "CUNEIFORM SIGN HI TIMES U" -> 74038
      [] name = "CUNEIFORM SIGN HU" -> 74039
      [] name = "CUNEIFORM SIGN HUB2" -> 74040
      [] name = "CUNEIFORM SIGN HUB2 TIMES AN" -> 74041
      [] name = "CUNEIFORM SIGN HUB2 TIMES HAL" -> 74042
      [] name = "CUNEIFORM SIGN HUB2 TIMES KASKAL" -> 74043
      [] name = "CUNEIFORM SIGN HUB2 TIMES LISH" -> 74044
      [] name = "CUNEIFORM SIGN HUB2 TIMES UD" -> 74045
      [] name = "CUNEIFORM SIGN HUL2" -> 74046
      [] name = "CUNEIFORM SIGN I" -> 74047
      [] name = "CUNEIFORM SIGN I A" -> 74048
      [] name = "CUNEIFORM SIGN IB" -> 74049
      [] name = "CUNEIFORM SIGN IDIM" -> 74050
      [] name = "CUNEIFORM SIGN IDIM OVER IDIM BUR" -> 74051
      [] name = "CUNEIFORM SIGN IDIM OVER IDIM SQUARED" -> 74052
      [] name = "CUNEIFORM SIGN IG" -> 74053
      [] name = "CUNEIFORM SIGN IGI" -> 74054
      [] name = "CUNEIFORM SIGN IGI DIB" -> 74055
      [] name = "CUNEIFORM SIGN IGI RI" -> 74056
      [] name = "CUNEIFORM SIGN IGI OVER IGI SHIR OVER SHIR UD OVER UD" -> 74057
      [] name = "CUNEIFORM SIGN IGI GUNU" -> 74058
      [] name = "CUNEIFORM SIGN IL" -> 74059
      [] name = "CUNEIFORM SIGN IL TIMES GAN2 TENU" -> 74060
      [] name = "CUNEIFORM SIGN IL2" -> 74061
      [] name = "CUNEIFORM SIGN IM" -> 74062
      [] name = "CUNEIFORM SIGN IM TIMES TAK4" -> 74063
      [] name = "CUNEIFORM SIGN IM CROSSING IM" -> 74064
      [] name = "CUNEIFORM SIGN IM OPPOSING IM" -> 74065
      [] name = "CUNEIFORM SIGN IM SQUARED" -> 74066
      [] name = "CUNEIFORM SIGN IMIN" -> 74067
      [] name = "CUNEIFORM SIGN IN" -> 74068
      [] name = "CUNEIFORM SIGN IR" -> 74069
      [] name = "CUNEIFORM SIGN ISH" -> 74070
      [] name = "CUNEIFORM SIGN KA" -> 74071
      [] name = "CUNEIFORM SIGN KA TIMES A" -> 74072
      [] name = "CUNEIFORM SIGN KA TIMES AD" -> 74073
      [] name = "CUNEIFORM SIGN KA TIMES AD PLUS KU3" -> 74074
      [] name = "CUNEIFORM SIGN KA TIMES ASH2" -> 74075
      [] name = "CUNEIFORM SIGN KA TIMES BAD" -> 74076
      [] name = "CUNEIFORM SIGN KA TIMES BALAG" -> 74077
      [] name = "CUNEIFORM SIGN KA TIMES BAR" -> 74078
      [] name = "CUNEIFORM SIGN KA TIMES BI" -> 74079
      [] name = "CUNEIFORM SIGN KA TIMES ERIN2" -> 74080
      [] name = "CUNEIFORM SIGN KA TIMES ESH2" -> 74081
      [] name = "CUNEIFORM SIGN KA TIMES GA" -> 74082
      [] name = "CUNEIFORM SIGN KA TIMES GAL" -> 74083
      [] name = "CUNEIFORM SIGN KA TIMES GAN2 TENU" -> 74084
      [] name = "CUNEIFORM SIGN KA TIMES GAR" -> 74085
      [] name = "CUNEIFORM SIGN KA TIMES GAR PLUS SHA3 PLUS A" -> 74086
      [] name = "CUNEIFORM SIGN KA TIMES GI" -> 74087
      [] name = "CUNEIFORM SIGN KA TIMES GIR2" -> 74088
      [] name = "CUNEIFORM SIGN KA TIMES GISH PLUS SAR" -> 74089
      [] name = "CUNEIFORM SIGN KA TIMES GISH CROSSING GISH" -> 74090
      [] name = "CUNEIFORM SIGN KA TIMES GU" -> 74091
      [] name = "CUNEIFORM SIGN KA TIMES GUR7" -> 74092
      [] name = "CUNEIFORM SIGN KA TIMES IGI" -> 74093
      [] name = "CUNEIFORM SIGN KA TIMES IM" -> 74094
      [] name = "CUNEIFORM SIGN KA TIMES KAK" -> 74095
      [] name = "CUNEIFORM SIGN KA TIMES KI" -> 74096
      [] name = "CUNEIFORM SIGN KA TIMES KID" -> 74097
      [] name = "CUNEIFORM SIGN KA TIMES LI" -> 74098
      [] name = "CUNEIFORM SIGN KA TIMES LU" -> 74099
      [] name = "CUNEIFORM SIGN KA TIMES ME" -> 74100
      [] name = "CUNEIFORM SIGN KA TIMES ME PLUS DU" -> 74101
      [] name = "CUNEIFORM SIGN KA TIMES ME PLUS GI" -> 74102
      [] name = "CUNEIFORM SIGN KA TIMES ME PLUS TE" -> 74103
      [] name = "CUNEIFORM SIGN KA TIMES MI" -> 74104
      [] name = "CUNEIFORM SIGN KA TIMES MI PLUS NUNUZ" -> 74105
      [] name = "CUNEIFORM SIGN KA TIMES NE" -> 74106
      [] name = "CUNEIFORM SIGN KA TIMES NUN" -> 74107
      [] name = "CUNEIFORM SIGN KA TIMES PI" -> 74108
      [] name = "CUNEIFORM SIGN KA TIMES RU" -> 74109
      [] name = "CUNEIFORM SIGN KA TIMES SA" -> 74110
      [] name = "CUNEIFORM SIGN KA TIMES SAR" -> 74111
      [] name = "CUNEIFORM SIGN KA TIMES SHA" -> 74112
      [] name = "CUNEIFORM SIGN KA TIMES SHE" -> 74113
      [] name = "CUNEIFORM SIGN KA TIMES SHID" -> 74114
      [] name = "CUNEIFORM SIGN KA TIMES SHU" -> 74115
      [] name = "CUNEIFORM SIGN KA TIMES SIG" -> 74116
      [] name = "CUNEIFORM SIGN KA TIMES SUHUR" -> 74117
      [] name = "CUNEIFORM SIGN KA TIMES TAR" -> 74118
      [] name = "CUNEIFORM SIGN KA TIMES U" -> 74119
      [] name = "CUNEIFORM SIGN KA TIMES U2" -> 74120
      [] name = "CUNEIFORM SIGN KA TIMES UD" -> 74121
      [] name = "CUNEIFORM SIGN KA TIMES UMUM TIMES PA" -> 74122
      [] name = "CUNEIFORM SIGN KA TIMES USH" -> 74123
      [] name = "CUNEIFORM SIGN KA TIMES ZI" -> 74124
      [] name = "CUNEIFORM SIGN KA2" -> 74125
      [] name = "CUNEIFORM SIGN KA2 CROSSING KA2" -> 74126
      [] name = "CUNEIFORM SIGN KAB" -> 74127
      [] name = "CUNEIFORM SIGN KAD2" -> 74128
      [] name = "CUNEIFORM SIGN KAD3" -> 74129
      [] name = "CUNEIFORM SIGN KAD4" -> 74130
      [] name = "CUNEIFORM SIGN KAD5" -> 74131
      [] name = "CUNEIFORM SIGN KAD5 OVER KAD5" -> 74132
      [] name = "CUNEIFORM SIGN KAK" -> 74133
      [] name = "CUNEIFORM SIGN KAK TIMES IGI GUNU" -> 74134
      [] name = "CUNEIFORM SIGN KAL" -> 74135
      [] name = "CUNEIFORM SIGN KAL TIMES BAD" -> 74136
      [] name = "CUNEIFORM SIGN KAL CROSSING KAL" -> 74137
      [] name = "CUNEIFORM SIGN KAM2" -> 74138
      [] name = "CUNEIFORM SIGN KAM4" -> 74139
      [] name = "CUNEIFORM SIGN KASKAL" -> 74140
      [] name = "CUNEIFORM SIGN KASKAL LAGAB TIMES U OVER LAGAB TIMES U" -> 74141
      [] name = "CUNEIFORM SIGN KASKAL OVER KASKAL LAGAB TIMES U OVER LAGAB TIMES U" -> 74142
      [] name = "CUNEIFORM SIGN KESH2" -> 74143
      [] name = "CUNEIFORM SIGN KI" -> 74144
      [] name = "CUNEIFORM SIGN KI TIMES BAD" -> 74145
      [] name = "CUNEIFORM SIGN KI TIMES U" -> 74146
      [] name = "CUNEIFORM SIGN KI TIMES UD" -> 74147
      [] name = "CUNEIFORM SIGN KID" -> 74148
      [] name = "CUNEIFORM SIGN KIN" -> 74149
      [] name = "CUNEIFORM SIGN KISAL" -> 74150
      [] name = "CUNEIFORM SIGN KISH" -> 74151
      [] name = "CUNEIFORM SIGN KISIM5" -> 74152
      [] name = "CUNEIFORM SIGN KISIM5 OVER KISIM5" -> 74153
      [] name = "CUNEIFORM SIGN KU" -> 74154
      [] name = "CUNEIFORM SIGN KU OVER HI TIMES ASH2 KU OVER HI TIMES ASH2" -> 74155
      [] name = "CUNEIFORM SIGN KU3" -> 74156
      [] name = "CUNEIFORM SIGN KU4" -> 74157
      [] name = "CUNEIFORM SIGN KU4 VARIANT FORM" -> 74158
      [] name = "CUNEIFORM SIGN KU7" -> 74159
      [] name = "CUNEIFORM SIGN KUL" -> 74160
      [] name = "CUNEIFORM SIGN KUL GUNU" -> 74161
      [] name = "CUNEIFORM SIGN KUN" -> 74162
      [] name = "CUNEIFORM SIGN KUR" -> 74163
      [] name = "CUNEIFORM SIGN KUR OPPOSING KUR" -> 74164
      [] name = "CUNEIFORM SIGN KUSHU2" -> 74165
      [] name = "CUNEIFORM SIGN KWU318" -> 74166
      [] name = "CUNEIFORM SIGN LA" -> 74167
      [] name = "CUNEIFORM SIGN LAGAB" -> 74168
      [] name = "CUNEIFORM SIGN LAGAB TIMES A" -> 74169
      [] name = "CUNEIFORM SIGN LAGAB TIMES A PLUS DA PLUS HA" -> 74170
      [] name = "CUNEIFORM SIGN LAGAB TIMES A PLUS GAR" -> 74171
      [] name = "CUNEIFORM SIGN LAGAB TIMES A PLUS LAL" -> 74172
      [] name = "CUNEIFORM SIGN LAGAB TIMES AL" -> 74173
      [] name = "CUNEIFORM SIGN LAGAB TIMES AN" -> 74174
      [] name = "CUNEIFORM SIGN LAGAB TIMES ASH ZIDA TENU" -> 74175
      [] name = "CUNEIFORM SIGN LAGAB TIMES BAD" -> 74176
      [] name = "CUNEIFORM SIGN LAGAB TIMES BI" -> 74177
      [] name = "CUNEIFORM SIGN LAGAB TIMES DAR" -> 74178
      [] name = "CUNEIFORM SIGN LAGAB TIMES EN" -> 74179
      [] name = "CUNEIFORM SIGN LAGAB TIMES GA" -> 74180
      [] name = "CUNEIFORM SIGN LAGAB TIMES GAR" -> 74181
      [] name = "CUNEIFORM SIGN LAGAB TIMES GUD" -> 74182
      [] name = "CUNEIFORM SIGN LAGAB TIMES GUD PLUS GUD" -> 74183
      [] name = "CUNEIFORM SIGN LAGAB TIMES HA" -> 74184
      [] name = "CUNEIFORM SIGN LAGAB TIMES HAL" -> 74185
      [] name = "CUNEIFORM SIGN LAGAB TIMES HI TIMES NUN" -> 74186
      [] name = "CUNEIFORM SIGN LAGAB TIMES IGI GUNU" -> 74187
      [] name = "CUNEIFORM SIGN LAGAB TIMES IM" -> 74188
      [] name = "CUNEIFORM SIGN LAGAB TIMES IM PLUS HA" -> 74189
      [] name = "CUNEIFORM SIGN LAGAB TIMES IM PLUS LU" -> 74190
      [] name = "CUNEIFORM SIGN LAGAB TIMES KI" -> 74191
      [] name = "CUNEIFORM SIGN LAGAB TIMES KIN" -> 74192
      [] name = "CUNEIFORM SIGN LAGAB TIMES KU3" -> 74193
      [] name = "CUNEIFORM SIGN LAGAB TIMES KUL" -> 74194
      [] name = "CUNEIFORM SIGN LAGAB TIMES KUL PLUS HI PLUS A" -> 74195
      [] name = "CUNEIFORM SIGN LAGAB TIMES LAGAB" -> 74196
      [] name = "CUNEIFORM SIGN LAGAB TIMES LISH" -> 74197
      [] name = "CUNEIFORM SIGN LAGAB TIMES LU" -> 74198
      [] name = "CUNEIFORM SIGN LAGAB TIMES LUL" -> 74199
      [] name = "CUNEIFORM SIGN LAGAB TIMES ME" -> 74200
      [] name = "CUNEIFORM SIGN LAGAB TIMES ME PLUS EN" -> 74201
      [] name = "CUNEIFORM SIGN LAGAB TIMES MUSH" -> 74202
      [] name = "CUNEIFORM SIGN LAGAB TIMES NE" -> 74203
      [] name = "CUNEIFORM SIGN LAGAB TIMES SHE PLUS SUM" -> 74204
      [] name = "CUNEIFORM SIGN LAGAB TIMES SHITA PLUS GISH PLUS ERIN2" -> 74205
      [] name = "CUNEIFORM SIGN LAGAB TIMES SHITA PLUS GISH TENU" -> 74206
      [] name = "CUNEIFORM SIGN LAGAB TIMES SHU2" -> 74207
      [] name = "CUNEIFORM SIGN LAGAB TIMES SHU2 PLUS SHU2" -> 74208
      [] name = "CUNEIFORM SIGN LAGAB TIMES SUM" -> 74209
      [] name = "CUNEIFORM SIGN LAGAB TIMES TAG" -> 74210
      [] name = "CUNEIFORM SIGN LAGAB TIMES TAK4" -> 74211
      [] name = "CUNEIFORM SIGN LAGAB TIMES TE PLUS A PLUS SU PLUS NA" -> 74212
      [] name = "CUNEIFORM SIGN LAGAB TIMES U" -> 74213
      [] name = "CUNEIFORM SIGN LAGAB TIMES U PLUS A" -> 74214
      [] name = "CUNEIFORM SIGN LAGAB TIMES U PLUS U PLUS U" -> 74215
      [] name = "CUNEIFORM SIGN LAGAB TIMES U2 PLUS ASH" -> 74216
      [] name = "CUNEIFORM SIGN LAGAB TIMES UD" -> 74217
      [] name = "CUNEIFORM SIGN LAGAB TIMES USH" -> 74218
      [] name = "CUNEIFORM SIGN LAGAB SQUARED" -> 74219
      [] name = "CUNEIFORM SIGN LAGAR" -> 74220
      [] name = "CUNEIFORM SIGN LAGAR TIMES SHE" -> 74221
      [] name = "CUNEIFORM SIGN LAGAR TIMES SHE PLUS SUM" -> 74222
      [] name = "CUNEIFORM SIGN LAGAR GUNU" -> 74223
      [] name = "CUNEIFORM SIGN LAGAR GUNU OVER LAGAR GUNU SHE" -> 74224
      [] name = "CUNEIFORM SIGN LAHSHU" -> 74225
      [] name = "CUNEIFORM SIGN LAL" -> 74226
      [] name = "CUNEIFORM SIGN LAL TIMES LAL" -> 74227
      [] name = "CUNEIFORM SIGN LAM" -> 74228
      [] name = "CUNEIFORM SIGN LAM TIMES KUR" -> 74229
      [] name = "CUNEIFORM SIGN LAM TIMES KUR PLUS RU" -> 74230
      [] name = "CUNEIFORM SIGN LI" -> 74231
      [] name = "CUNEIFORM SIGN LIL" -> 74232
      [] name = "CUNEIFORM SIGN LIMMU2" -> 74233
      [] name = "CUNEIFORM SIGN LISH" -> 74234
      [] name = "CUNEIFORM SIGN LU" -> 74235
      [] name = "CUNEIFORM SIGN LU TIMES BAD" -> 74236
      [] name = "CUNEIFORM SIGN LU2" -> 74237
      [] name = "CUNEIFORM SIGN LU2 TIMES AL" -> 74238
      [] name = "CUNEIFORM SIGN LU2 TIMES BAD" -> 74239
      [] name = "CUNEIFORM SIGN LU2 TIMES ESH2" -> 74240
      [] name = "CUNEIFORM SIGN LU2 TIMES ESH2 TENU" -> 74241
      [] name = "CUNEIFORM SIGN LU2 TIMES GAN2 TENU" -> 74242
      [] name = "CUNEIFORM SIGN LU2 TIMES HI TIMES BAD" -> 74243
      [] name = "CUNEIFORM SIGN LU2 TIMES IM" -> 74244
      [] name = "CUNEIFORM SIGN LU2 TIMES KAD2" -> 74245
      [] name = "CUNEIFORM SIGN LU2 TIMES KAD3" -> 74246
      [] name = "CUNEIFORM SIGN LU2 TIMES KAD3 PLUS ASH" -> 74247
      [] name = "CUNEIFORM SIGN LU2 TIMES KI" -> 74248
      [] name = "CUNEIFORM SIGN LU2 TIMES LA PLUS ASH" -> 74249
      [] name = "CUNEIFORM SIGN LU2 TIMES LAGAB" -> 74250
      [] name = "CUNEIFORM SIGN LU2 TIMES ME PLUS EN" -> 74251
      [] name = "CUNEIFORM SIGN LU2 TIMES NE" -> 74252
      [] name = "CUNEIFORM SIGN LU2 TIMES NU" -> 74253
      [] name = "CUNEIFORM SIGN LU2 TIMES SI PLUS ASH" -> 74254
      [] name = "CUNEIFORM SIGN LU2 TIMES SIK2 PLUS BU" -> 74255
      [] name = "CUNEIFORM SIGN LU2 TIMES TUG2" -> 74256
      [] name = "CUNEIFORM SIGN LU2 TENU" -> 74257
      [] name = "CUNEIFORM SIGN LU2 CROSSING LU2" -> 74258
      [] name = "CUNEIFORM SIGN LU2 OPPOSING LU2" -> 74259
      [] name = "CUNEIFORM SIGN LU2 SQUARED" -> 74260
      [] name = "CUNEIFORM SIGN LU2 SHESHIG" -> 74261
      [] name = "CUNEIFORM SIGN LU3" -> 74262
      [] name = "CUNEIFORM SIGN LUGAL" -> 74263
      [] name = "CUNEIFORM SIGN LUGAL OVER LUGAL" -> 74264
      [] name = "CUNEIFORM SIGN LUGAL OPPOSING LUGAL" -> 74265
      [] name = "CUNEIFORM SIGN LUGAL SHESHIG" -> 74266
      [] name = "CUNEIFORM SIGN LUH" -> 74267
      [] name = "CUNEIFORM SIGN LUL" -> 74268
      [] name = "CUNEIFORM SIGN LUM" -> 74269
      [] name = "CUNEIFORM SIGN LUM OVER LUM" -> 74270
      [] name = "CUNEIFORM SIGN LUM OVER LUM GAR OVER GAR" -> 74271
      [] name = "CUNEIFORM SIGN MA" -> 74272
      [] name = "CUNEIFORM SIGN MA TIMES TAK4" -> 74273
      [] name = "CUNEIFORM SIGN MA GUNU" -> 74274
      [] name = "CUNEIFORM SIGN MA2" -> 74275
      [] name = "CUNEIFORM SIGN MAH" -> 74276
      [] name = "CUNEIFORM SIGN MAR" -> 74277
      [] name = "CUNEIFORM SIGN MASH" -> 74278
      [] name = "CUNEIFORM SIGN MASH2" -> 74279
      [] name = "CUNEIFORM SIGN ME" -> 74280
      [] name = "CUNEIFORM SIGN MES" -> 74281
      [] name = "CUNEIFORM SIGN MI" -> 74282
      [] name = "CUNEIFORM SIGN MIN" -> 74283
      [] name = "CUNEIFORM SIGN MU" -> 74284
      [] name = "CUNEIFORM SIGN MU OVER MU" -> 74285
      [] name = "CUNEIFORM SIGN MUG" -> 74286
      [] name = "CUNEIFORM SIGN MUG GUNU" -> 74287
      [] name = "CUNEIFORM SIGN MUNSUB" -> 74288
      [] name = "CUNEIFORM SIGN MURGU2" -> 74289
      [] name = "CUNEIFORM SIGN MUSH" -> 74290
      [] name = "CUNEIFORM SIGN MUSH TIMES A" -> 74291
      [] name = "CUNEIFORM SIGN MUSH TIMES KUR" -> 74292
      [] name = "CUNEIFORM SIGN MUSH TIMES ZA" -> 74293
      [] name = "CUNEIFORM SIGN MUSH OVER MUSH" -> 74294
      [] name = "CUNEIFORM SIGN MUSH OVER MUSH TIMES A PLUS NA" -> 74295
      [] name = "CUNEIFORM SIGN MUSH CROSSING MUSH" -> 74296
      [] name = "CUNEIFORM SIGN MUSH3" -> 74297
      [] name = "CUNEIFORM SIGN MUSH3 TIMES A" -> 74298
      [] name = "CUNEIFORM SIGN MUSH3 TIMES A PLUS DI" -> 74299
      [] name = "CUNEIFORM SIGN MUSH3 TIMES DI" -> 74300
      [] name = "CUNEIFORM SIGN MUSH3 GUNU" -> 74301
      [] name = "CUNEIFORM SIGN NA" -> 74302
      [] name = "CUNEIFORM SIGN NA2" -> 74303
      [] name = "CUNEIFORM SIGN NAGA" -> 74304
      [] name = "CUNEIFORM SIGN NAGA INVERTED" -> 74305
      [] name = "CUNEIFORM SIGN NAGA TIMES SHU TENU" -> 74306
      [] name = "CUNEIFORM SIGN NAGA OPPOSING NAGA" -> 74307
      [] name = "CUNEIFORM SIGN NAGAR" -> 74308
      [] name = "CUNEIFORM SIGN NAM NUTILLU" -> 74309
      [] name = "CUNEIFORM SIGN NAM" -> 74310
      [] name = "CUNEIFORM SIGN NAM2" -> 74311
      [] name = "CUNEIFORM SIGN NE" -> 74312
      [] name = "CUNEIFORM SIGN NE TIMES A" -> 74313
      [] name = "CUNEIFORM SIGN NE TIMES UD" -> 74314
      [] name = "CUNEIFORM SIGN NE SHESHIG" -> 74315
      [] name = "CUNEIFORM SIGN NI" -> 74316
      [] name = "CUNEIFORM SIGN NI TIMES E" -> 74317
      [] name = "CUNEIFORM SIGN NI2" -> 74318
      [] name = "CUNEIFORM SIGN NIM" -> 74319
      [] name = "CUNEIFORM SIGN NIM TIMES GAN2 TENU" -> 74320
      [] name = "CUNEIFORM SIGN NIM TIMES GAR PLUS GAN2 TENU" -> 74321
      [] name = "CUNEIFORM SIGN NINDA2" -> 74322
      [] name = "CUNEIFORM SIGN NINDA2 TIMES AN" -> 74323
      [] name = "CUNEIFORM SIGN NINDA2 TIMES ASH" -> 74324
      [] name = "CUNEIFORM SIGN NINDA2 TIMES ASH PLUS ASH" -> 74325
      [] name = "CUNEIFORM SIGN NINDA2 TIMES GUD" -> 74326
      [] name = "CUNEIFORM SIGN NINDA2 TIMES ME PLUS GAN2 TENU" -> 74327
      [] name = "CUNEIFORM SIGN NINDA2 TIMES NE" -> 74328
      [] name = "CUNEIFORM SIGN NINDA2 TIMES NUN" -> 74329
      [] name = "CUNEIFORM SIGN NINDA2 TIMES SHE" -> 74330
      [] name = "CUNEIFORM SIGN NINDA2 TIMES SHE PLUS A AN" -> 74331
      [] name = "CUNEIFORM SIGN NINDA2 TIMES SHE PLUS ASH" -> 74332
      [] name = "CUNEIFORM SIGN NINDA2 TIMES SHE PLUS ASH PLUS ASH" -> 74333
      [] name = "CUNEIFORM SIGN NINDA2 TIMES U2 PLUS ASH" -> 74334
      [] name = "CUNEIFORM SIGN NINDA2 TIMES USH" -> 74335
      [] name = "CUNEIFORM SIGN NISAG" -> 74336
      [] name = "CUNEIFORM SIGN NU" -> 74337
      [] name = "CUNEIFORM SIGN NU11" -> 74338
      [] name = "CUNEIFORM SIGN NUN" -> 74339
      [] name = "CUNEIFORM SIGN NUN LAGAR TIMES GAR" -> 74340
      [] name = "CUNEIFORM SIGN NUN LAGAR TIMES MASH" -> 74341
      [] name = "CUNEIFORM SIGN NUN LAGAR TIMES SAL" -> 74342
      [] name = "CUNEIFORM SIGN NUN LAGAR TIMES SAL OVER NUN LAGAR TIMES SAL" -> 74343
      [] name = "CUNEIFORM SIGN NUN LAGAR TIMES USH" -> 74344
      [] name = "CUNEIFORM SIGN NUN TENU" -> 74345
      [] name = "CUNEIFORM SIGN NUN OVER NUN" -> 74346
      [] name = "CUNEIFORM SIGN NUN CROSSING NUN" -> 74347
      [] name = "CUNEIFORM SIGN NUN CROSSING NUN LAGAR OVER LAGAR" -> 74348
      [] name = "CUNEIFORM SIGN NUNUZ" -> 74349
      [] name = "CUNEIFORM SIGN NUNUZ AB2 TIMES ASHGAB" -> 74350
      [] name = "CUNEIFORM SIGN NUNUZ AB2 TIMES BI" -> 74351
      [] name = "CUNEIFORM SIGN NUNUZ AB2 TIMES DUG" -> 74352
      [] name = "CUNEIFORM SIGN NUNUZ AB2 TIMES GUD" -> 74353
      [] name = "CUNEIFORM SIGN NUNUZ AB2 TIMES IGI GUNU" -> 74354
      [] name = "CUNEIFORM SIGN NUNUZ AB2 TIMES KAD3" -> 74355
      [] name = "CUNEIFORM SIGN NUNUZ AB2 TIMES LA" -> 74356
      [] name = "CUNEIFORM SIGN NUNUZ AB2 TIMES NE" -> 74357
      [] name = "CUNEIFORM SIGN NUNUZ AB2 TIMES SILA3" -> 74358
      [] name = "CUNEIFORM SIGN NUNUZ AB2 TIMES U2" -> 74359
      [] name = "CUNEIFORM SIGN NUNUZ KISIM5 TIMES BI" -> 74360
      [] name = "CUNEIFORM SIGN NUNUZ KISIM5 TIMES BI U" -> 74361
      [] name = "CUNEIFORM SIGN PA" -> 74362
      [] name = "CUNEIFORM SIGN PAD" -> 74363
      [] name = "CUNEIFORM SIGN PAN" -> 74364
      [] name = "CUNEIFORM SIGN PAP" -> 74365
      [] name = "CUNEIFORM SIGN PESH2" -> 74366
      [] name = "CUNEIFORM SIGN PI" -> 74367
      [] name = "CUNEIFORM SIGN PI TIMES A" -> 74368
      [] name = "CUNEIFORM SIGN PI TIMES AB" -> 74369
      [] name = "CUNEIFORM SIGN PI TIMES BI" -> 74370
      [] name = "CUNEIFORM SIGN PI TIMES BU" -> 74371
      [] name = "CUNEIFORM SIGN PI TIMES E" -> 74372
      [] name = "CUNEIFORM SIGN PI TIMES I" -> 74373
      [] name = "CUNEIFORM SIGN PI TIMES IB" -> 74374
      [] name = "CUNEIFORM SIGN PI TIMES U" -> 74375
      [] name = "CUNEIFORM SIGN PI TIMES U2" -> 74376
      [] name = "CUNEIFORM SIGN PI CROSSING PI" -> 74377
      [] name = "CUNEIFORM SIGN PIRIG" -> 74378
      [] name = "CUNEIFORM SIGN PIRIG TIMES KAL" -> 74379
      [] name = "CUNEIFORM SIGN PIRIG TIMES UD" -> 74380
      [] name = "CUNEIFORM SIGN PIRIG TIMES ZA" -> 74381
      [] name = "CUNEIFORM SIGN PIRIG OPPOSING PIRIG" -> 74382
      [] name = "CUNEIFORM SIGN RA" -> 74383
      [] name = "CUNEIFORM SIGN RAB" -> 74384
      [] name = "CUNEIFORM SIGN RI" -> 74385
      [] name = "CUNEIFORM SIGN RU" -> 74386
      [] name = "CUNEIFORM SIGN SA" -> 74387
      [] name = "CUNEIFORM SIGN SAG NUTILLU" -> 74388
      [] name = "CUNEIFORM SIGN SAG" -> 74389
      [] name = "CUNEIFORM SIGN SAG TIMES A" -> 74390
      [] name = "CUNEIFORM SIGN SAG TIMES DU" -> 74391
      [] name = "CUNEIFORM SIGN SAG TIMES DUB" -> 74392
      [] name = "CUNEIFORM SIGN SAG TIMES HA" -> 74393
      [] name = "CUNEIFORM SIGN SAG TIMES KAK" -> 74394
      [] name = "CUNEIFORM SIGN SAG TIMES KUR" -> 74395
      [] name = "CUNEIFORM SIGN SAG TIMES LUM" -> 74396
      [] name = "CUNEIFORM SIGN SAG TIMES MI" -> 74397
      [] name = "CUNEIFORM SIGN SAG TIMES NUN" -> 74398
      [] name = "CUNEIFORM SIGN SAG TIMES SAL" -> 74399
      [] name = "CUNEIFORM SIGN SAG TIMES SHID" -> 74400
      [] name = "CUNEIFORM SIGN SAG TIMES TAB" -> 74401
      [] name = "CUNEIFORM SIGN SAG TIMES U2" -> 74402
      [] name = "CUNEIFORM SIGN SAG TIMES UB" -> 74403
      [] name = "CUNEIFORM SIGN SAG TIMES UM" -> 74404
      [] name = "CUNEIFORM SIGN SAG TIMES UR" -> 74405
      [] name = "CUNEIFORM SIGN SAG TIMES USH" -> 74406
      [] name = "CUNEIFORM SIGN SAG OVER SAG" -> 74407
      [] name = "CUNEIFORM SIGN SAG GUNU" -> 74408
      [] name = "CUNEIFORM SIGN SAL" -> 74409
      [] name = "CUNEIFORM SIGN SAL LAGAB TIMES ASH2" -> 74410
      [] name = "CUNEIFORM SIGN SANGA2" -> 74411
      [] name = "CUNEIFORM SIGN SAR" -> 74412
      [] name = "CUNEIFORM SIGN SHA" -> 74413
      [] name = "CUNEIFORM SIGN SHA3" -> 74414
      [] name = "CUNEIFORM SIGN SHA3 TIMES A" -> 74415
      [] name = "CUNEIFORM SIGN SHA3 TIMES BAD" -> 74416
      [] name = "CUNEIFORM SIGN SHA3 TIMES GISH" -> 74417
      [] name = "CUNEIFORM SIGN SHA3 TIMES NE" -> 74418
      [] name = "CUNEIFORM SIGN SHA3 TIMES SHU2" -> 74419
      [] name = "CUNEIFORM SIGN SHA3 TIMES TUR" -> 74420
      [] name = "CUNEIFORM SIGN SHA3 TIMES U" -> 74421
      [] name = "CUNEIFORM SIGN SHA3 TIMES U PLUS A" -> 74422
      [] name = "CUNEIFORM SIGN SHA6" -> 74423
      [] name = "CUNEIFORM SIGN SHAB6" -> 74424
      [] name = "CUNEIFORM SIGN SHAR2" -> 74425
      [] name = "CUNEIFORM SIGN SHE" -> 74426
      [] name = "CUNEIFORM SIGN SHE HU" -> 74427
      [] name = "CUNEIFORM SIGN SHE OVER SHE GAD OVER GAD GAR OVER GAR" -> 74428
      [] name = "CUNEIFORM SIGN SHE OVER SHE TAB OVER TAB GAR OVER GAR" -> 74429
      [] name = "CUNEIFORM SIGN SHEG9" -> 74430
      [] name = "CUNEIFORM SIGN SHEN" -> 74431
      [] name = "CUNEIFORM SIGN SHESH" -> 74432
      [] name = "CUNEIFORM SIGN SHESH2" -> 74433
      [] name = "CUNEIFORM SIGN SHESHLAM" -> 74434
      [] name = "CUNEIFORM SIGN SHID" -> 74435
      [] name = "CUNEIFORM SIGN SHID TIMES A" -> 74436
      [] name = "CUNEIFORM SIGN SHID TIMES IM" -> 74437
      [] name = "CUNEIFORM SIGN SHIM" -> 74438
      [] name = "CUNEIFORM SIGN SHIM TIMES A" -> 74439
      [] name = "CUNEIFORM SIGN SHIM TIMES BAL" -> 74440
      [] name = "CUNEIFORM SIGN SHIM TIMES BULUG" -> 74441
      [] name = "CUNEIFORM SIGN SHIM TIMES DIN" -> 74442
      [] name = "CUNEIFORM SIGN SHIM TIMES GAR" -> 74443
      [] name = "CUNEIFORM SIGN SHIM TIMES IGI" -> 74444
      [] name = "CUNEIFORM SIGN SHIM TIMES IGI GUNU" -> 74445
      [] name = "CUNEIFORM SIGN SHIM TIMES KUSHU2" -> 74446
      [] name = "CUNEIFORM SIGN SHIM TIMES LUL" -> 74447
      [] name = "CUNEIFORM SIGN SHIM TIMES MUG" -> 74448
      [] name = "CUNEIFORM SIGN SHIM TIMES SAL" -> 74449
      [] name = "CUNEIFORM SIGN SHINIG" -> 74450
      [] name = "CUNEIFORM SIGN SHIR" -> 74451
      [] name = "CUNEIFORM SIGN NU11 TENU" -> 74452
      [] name = "CUNEIFORM SIGN SHIR TENU" -> 74452
      [] name = "CUNEIFORM SIGN NU11 OVER NU11 BUR OVER BUR" -> 74453
      [] name = "CUNEIFORM SIGN SHIR OVER SHIR BUR OVER BUR" -> 74453
      [] name = "CUNEIFORM SIGN SHITA" -> 74454
      [] name = "CUNEIFORM SIGN SHU" -> 74455
      [] name = "CUNEIFORM SIGN SHU OVER INVERTED SHU" -> 74456
      [] name = "CUNEIFORM SIGN SHU2" -> 74457
      [] name = "CUNEIFORM SIGN SHUBUR" -> 74458
      [] name = "CUNEIFORM SIGN SI" -> 74459
      [] name = "CUNEIFORM SIGN SI GUNU" -> 74460
      [] name = "CUNEIFORM SIGN SIG" -> 74461
      [] name = "CUNEIFORM SIGN SIG4" -> 74462
      [] name = "CUNEIFORM SIGN SIG4 OVER SIG4 SHU2" -> 74463
      [] name = "CUNEIFORM SIGN SIK2" -> 74464
      [] name = "CUNEIFORM SIGN SILA3" -> 74465
      [] name = "CUNEIFORM SIGN SU" -> 74466
      [] name = "CUNEIFORM SIGN SU OVER SU" -> 74467
      [] name = "CUNEIFORM SIGN SUD" -> 74468
      [] name = "CUNEIFORM SIGN SUD2" -> 74469
      [] name = "CUNEIFORM SIGN SUHUR" -> 74470
      [] name = "CUNEIFORM SIGN SUM" -> 74471
      [] name = "CUNEIFORM SIGN SUMASH" -> 74472
      [] name = "CUNEIFORM SIGN SUR" -> 74473
      [] name = "CUNEIFORM SIGN SUR9" -> 74474
      [] name = "CUNEIFORM SIGN TA" -> 74475
      [] name = "CUNEIFORM SIGN TA ASTERISK" -> 74476
      [] name = "CUNEIFORM SIGN TA TIMES HI" -> 74477
      [] name = "CUNEIFORM SIGN TA TIMES MI" -> 74478
      [] name = "CUNEIFORM SIGN TA GUNU" -> 74479
      [] name = "CUNEIFORM SIGN TAB" -> 74480
      [] name = "CUNEIFORM SIGN TAB OVER TAB NI OVER NI DISH OVER DISH" -> 74481
      [] name = "CUNEIFORM SIGN TAB SQUARED" -> 74482
      [] name = "CUNEIFORM SIGN TAG" -> 74483
      [] name = "CUNEIFORM SIGN TAG TIMES BI" -> 74484
      [] name = "CUNEIFORM SIGN TAG TIMES GUD" -> 74485
      [] name = "CUNEIFORM SIGN TAG TIMES SHE" -> 74486
      [] name = "CUNEIFORM SIGN TAG TIMES SHU" -> 74487
      [] name = "CUNEIFORM SIGN TAG TIMES TUG2" -> 74488
      [] name = "CUNEIFORM SIGN TAG TIMES UD" -> 74489
      [] name = "CUNEIFORM SIGN TAK4" -> 74490
      [] name = "CUNEIFORM SIGN TAR" -> 74491
      [] name = "CUNEIFORM SIGN TE" -> 74492
      [] name = "CUNEIFORM SIGN TE GUNU" -> 74493
      [] name = "CUNEIFORM SIGN TI" -> 74494
      [] name = "CUNEIFORM SIGN TI TENU" -> 74495
      [] name = "CUNEIFORM SIGN TIL" -> 74496
      [] name = "CUNEIFORM SIGN TIR" -> 74497
      [] name = "CUNEIFORM SIGN TIR TIMES TAK4" -> 74498
      [] name = "CUNEIFORM SIGN TIR OVER TIR" -> 74499
      [] name = "CUNEIFORM SIGN TIR OVER TIR GAD OVER GAD GAR OVER GAR" -> 74500
      [] name = "CUNEIFORM SIGN TU" -> 74501
      [] name = "CUNEIFORM SIGN TUG2" -> 74502
      [] name = "CUNEIFORM SIGN TUK" -> 74503
      [] name = "CUNEIFORM SIGN TUM" -> 74504
      [] name = "CUNEIFORM SIGN TUR" -> 74505
      [] name = "CUNEIFORM SIGN TUR OVER TUR ZA OVER ZA" -> 74506
      [] name = "CUNEIFORM SIGN U" -> 74507
      [] name = "CUNEIFORM SIGN U GUD" -> 74508
      [] name = "CUNEIFORM SIGN U U U" -> 74509
      [] name = "CUNEIFORM SIGN U OVER U PA OVER PA GAR OVER GAR" -> 74510
      [] name = "CUNEIFORM SIGN U OVER U SUR OVER SUR" -> 74511
      [] name = "CUNEIFORM SIGN U OVER U U REVERSED OVER U REVERSED" -> 74512
      [] name = "CUNEIFORM SIGN U2" -> 74513
      [] name = "CUNEIFORM SIGN UB" -> 74514
      [] name = "CUNEIFORM SIGN UD" -> 74515
      [] name = "CUNEIFORM SIGN UD KUSHU2" -> 74516
      [] name = "CUNEIFORM SIGN UD TIMES BAD" -> 74517
      [] name = "CUNEIFORM SIGN UD TIMES MI" -> 74518
      [] name = "CUNEIFORM SIGN UD TIMES U PLUS U PLUS U" -> 74519
      [] name = "CUNEIFORM SIGN UD TIMES U PLUS U PLUS U GUNU" -> 74520
      [] name = "CUNEIFORM SIGN UD GUNU" -> 74521
      [] name = "CUNEIFORM SIGN UD SHESHIG" -> 74522
      [] name = "CUNEIFORM SIGN UD SHESHIG TIMES BAD" -> 74523
      [] name = "CUNEIFORM SIGN UDUG" -> 74524
      [] name = "CUNEIFORM SIGN UM" -> 74525
      [] name = "CUNEIFORM SIGN UM TIMES LAGAB" -> 74526
      [] name = "CUNEIFORM SIGN UM TIMES ME PLUS DA" -> 74527
      [] name = "CUNEIFORM SIGN UM TIMES SHA3" -> 74528
      [] name = "CUNEIFORM SIGN UM TIMES U" -> 74529
      [] name = "CUNEIFORM SIGN UMBIN" -> 74530
      [] name = "CUNEIFORM SIGN UMUM" -> 74531
      [] name = "CUNEIFORM SIGN UMUM TIMES KASKAL" -> 74532
      [] name = "CUNEIFORM SIGN UMUM TIMES PA" -> 74533
      [] name = "CUNEIFORM SIGN UN" -> 74534
      [] name = "CUNEIFORM SIGN UN GUNU" -> 74535
      [] name = "CUNEIFORM SIGN UR" -> 74536
      [] name = "CUNEIFORM SIGN UR CROSSING UR" -> 74537
      [] name = "CUNEIFORM SIGN UR SHESHIG" -> 74538
      [] name = "CUNEIFORM SIGN UR2" -> 74539
      [] name = "CUNEIFORM SIGN UR2 TIMES A PLUS HA" -> 74540
      [] name = "CUNEIFORM SIGN UR2 TIMES A PLUS NA" -> 74541
      [] name = "CUNEIFORM SIGN UR2 TIMES AL" -> 74542
      [] name = "CUNEIFORM SIGN UR2 TIMES HA" -> 74543
      [] name = "CUNEIFORM SIGN UR2 TIMES NUN" -> 74544
      [] name = "CUNEIFORM SIGN UR2 TIMES U2" -> 74545
      [] name = "CUNEIFORM SIGN UR2 TIMES U2 PLUS ASH" -> 74546
      [] name = "CUNEIFORM SIGN UR2 TIMES U2 PLUS BI" -> 74547
      [] name = "CUNEIFORM SIGN UR4" -> 74548
      [] name = "CUNEIFORM SIGN URI" -> 74549
      [] name = "CUNEIFORM SIGN URI3" -> 74550
      [] name = "CUNEIFORM SIGN URU" -> 74551
      [] name = "CUNEIFORM SIGN URU TIMES A" -> 74552
      [] name = "CUNEIFORM SIGN URU TIMES ASHGAB" -> 74553
      [] name = "CUNEIFORM SIGN URU TIMES BAR" -> 74554
      [] name = "CUNEIFORM SIGN URU TIMES DUN" -> 74555
      [] name = "CUNEIFORM SIGN URU TIMES GA" -> 74556
      [] name = "CUNEIFORM SIGN URU TIMES GAL" -> 74557
      [] name = "CUNEIFORM SIGN URU TIMES GAN2 TENU" -> 74558
      [] name = "CUNEIFORM SIGN URU TIMES GAR" -> 74559
      [] name = "CUNEIFORM SIGN URU TIMES GU" -> 74560
      [] name = "CUNEIFORM SIGN URU TIMES HA" -> 74561
      [] name = "CUNEIFORM SIGN URU TIMES IGI" -> 74562
      [] name = "CUNEIFORM SIGN URU TIMES IM" -> 74563
      [] name = "CUNEIFORM SIGN URU TIMES ISH" -> 74564
      [] name = "CUNEIFORM SIGN URU TIMES KI" -> 74565
      [] name = "CUNEIFORM SIGN URU TIMES LUM" -> 74566
      [] name = "CUNEIFORM SIGN URU TIMES MIN" -> 74567
      [] name = "CUNEIFORM SIGN URU TIMES PA" -> 74568
      [] name = "CUNEIFORM SIGN URU TIMES SHE" -> 74569
      [] name = "CUNEIFORM SIGN URU TIMES SIG4" -> 74570
      [] name = "CUNEIFORM SIGN URU TIMES TU" -> 74571
      [] name = "CUNEIFORM SIGN URU TIMES U PLUS GUD" -> 74572
      [] name = "CUNEIFORM SIGN URU TIMES UD" -> 74573
      [] name = "CUNEIFORM SIGN URU TIMES URUDA" -> 74574
      [] name = "CUNEIFORM SIGN URUDA" -> 74575
      [] name = "CUNEIFORM SIGN URUDA TIMES U" -> 74576
      [] name = "CUNEIFORM SIGN USH" -> 74577
      [] name = "CUNEIFORM SIGN USH TIMES A" -> 74578
      [] name = "CUNEIFORM SIGN USH TIMES KU" -> 74579
      [] name = "CUNEIFORM SIGN USH TIMES KUR" -> 74580
      [] name = "CUNEIFORM SIGN USH TIMES TAK4" -> 74581
      [] name = "CUNEIFORM SIGN USHX" -> 74582
      [] name = "CUNEIFORM SIGN USH2" -> 74583
      [] name = "CUNEIFORM SIGN USHUMX" -> 74584
      [] name = "CUNEIFORM SIGN UTUKI" -> 74585
      [] name = "CUNEIFORM SIGN UZ3" -> 74586
      [] name = "CUNEIFORM SIGN UZ3 TIMES KASKAL" -> 74587
      [] name = "CUNEIFORM SIGN UZU" -> 74588
      [] name = "CUNEIFORM SIGN ZA" -> 74589
      [] name = "CUNEIFORM SIGN ZA TENU" -> 74590
      [] name = "CUNEIFORM SIGN ZA SQUARED TIMES KUR" -> 74591
      [] name = "CUNEIFORM SIGN ZAG" -> 74592
      [] name = "CUNEIFORM SIGN ZAMX" -> 74593
      [] name = "CUNEIFORM SIGN ZE2" -> 74594
      [] name = "CUNEIFORM SIGN ZI" -> 74595
      [] name = "CUNEIFORM SIGN ZI OVER ZI" -> 74596
      [] name = "CUNEIFORM SIGN ZI3" -> 74597
      [] name = "CUNEIFORM SIGN ZIB" -> 74598
      [] name = "CUNEIFORM SIGN ZIB KABA TENU" -> 74599
      [] name = "CUNEIFORM SIGN ZIG" -> 74600
      [] name = "CUNEIFORM SIGN ZIZ2" -> 74601
      [] name = "CUNEIFORM SIGN ZU" -> 74602
      [] name = "CUNEIFORM SIGN ZU5" -> 74603
      [] name = "CUNEIFORM SIGN ZU5 TIMES A" -> 74604
      [] name = "CUNEIFORM SIGN ZUBUR" -> 74605
      [] name = "CUNEIFORM SIGN ZUM" -> 74606
      [] name = "CUNEIFORM SIGN KAP ELAMITE" -> 74607
      [] name = "CUNEIFORM SIGN AB TIMES NUN" -> 74608
      [] name = "CUNEIFORM SIGN AB2 TIMES A" -> 74609
      [] name = "CUNEIFORM SIGN AMAR TIMES KUG" -> 74610
      [] name = "CUNEIFORM SIGN DAG KISIM5 TIMES U2 PLUS MASH" -> 74611
      [] name = "CUNEIFORM SIGN DAG3" -> 74612
      [] name = "CUNEIFORM SIGN DISH PLUS SHU" -> 74613
      [] name = "CUNEIFORM SIGN DUB TIMES SHE" -> 74614
      [] name = "CUNEIFORM SIGN EZEN TIMES GUD" -> 74615
      [] name = "CUNEIFORM SIGN EZEN TIMES SHE" -> 74616
      [] name = "CUNEIFORM SIGN GA2 TIMES AN PLUS KAK PLUS A" -> 74617
      [] name = "CUNEIFORM SIGN GA2 TIMES ASH2" -> 74618
      [] name = "CUNEIFORM SIGN GE22" -> 74619
      [] name = "CUNEIFORM SIGN GIG" -> 74620
      [] name = "CUNEIFORM SIGN HUSH" -> 74621
      [] name = "CUNEIFORM SIGN KA TIMES ANSHE" -> 74622
      [] name = "CUNEIFORM SIGN KA TIMES ASH3" -> 74623
      [] name = "CUNEIFORM SIGN KA TIMES GISH" -> 74624
      [] name = "CUNEIFORM SIGN KA TIMES GUD" -> 74625
      [] name = "CUNEIFORM SIGN KA TIMES HI TIMES ASH2" -> 74626
      [] name = "CUNEIFORM SIGN KA TIMES LUM" -> 74627
      [] name = "CUNEIFORM SIGN KA TIMES PA" -> 74628
      [] name = "CUNEIFORM SIGN KA TIMES SHUL" -> 74629
      [] name = "CUNEIFORM SIGN KA TIMES TU" -> 74630
      [] name = "CUNEIFORM SIGN KA TIMES UR2" -> 74631
      [] name = "CUNEIFORM SIGN LAGAB TIMES GI" -> 74632
      [] name = "CUNEIFORM SIGN LU2 SHESHIG TIMES BAD" -> 74633
      [] name = "CUNEIFORM SIGN LU2 TIMES ESH2 PLUS LAL" -> 74634
      [] name = "CUNEIFORM SIGN LU2 TIMES SHU" -> 74635
      [] name = "CUNEIFORM SIGN MESH" -> 74636
      [] name = "CUNEIFORM SIGN MUSH3 TIMES ZA" -> 74637
      [] name = "CUNEIFORM SIGN NA4" -> 74638
      [] name = "CUNEIFORM SIGN NIN" -> 74639
      [] name = "CUNEIFORM SIGN NIN9" -> 74640
      [] name = "CUNEIFORM SIGN NINDA2 TIMES BAL" -> 74641
      [] name = "CUNEIFORM SIGN NINDA2 TIMES GI" -> 74642
      [] name = "CUNEIFORM SIGN NU11 ROTATED NINETY DEGREES" -> 74643
      [] name = "CUNEIFORM SIGN PESH2 ASTERISK" -> 74644
      [] name = "CUNEIFORM SIGN PIR2" -> 74645
      [] name = "CUNEIFORM SIGN SAG TIMES IGI GUNU" -> 74646
      [] name = "CUNEIFORM SIGN TI2" -> 74647
      [] name = "CUNEIFORM SIGN UM TIMES ME" -> 74648
      [] name = "CUNEIFORM SIGN U U" -> 74649
      [] name = "CUNEIFORM NUMERIC SIGN TWO ASH" -> 74752
      [] name = "CUNEIFORM NUMERIC SIGN THREE ASH" -> 74753
      [] name = "CUNEIFORM NUMERIC SIGN FOUR ASH" -> 74754
      [] name = "CUNEIFORM NUMERIC SIGN FIVE ASH" -> 74755
      [] name = "CUNEIFORM NUMERIC SIGN SIX ASH" -> 74756
      [] name = "CUNEIFORM NUMERIC SIGN SEVEN ASH" -> 74757
      [] name = "CUNEIFORM NUMERIC SIGN EIGHT ASH" -> 74758
      [] name = "CUNEIFORM NUMERIC SIGN NINE ASH" -> 74759
      [] name = "CUNEIFORM NUMERIC SIGN THREE DISH" -> 74760
      [] name = "CUNEIFORM NUMERIC SIGN FOUR DISH" -> 74761
      [] name = "CUNEIFORM NUMERIC SIGN FIVE DISH" -> 74762
      [] name = "CUNEIFORM NUMERIC SIGN SIX DISH" -> 74763
      [] name = "CUNEIFORM NUMERIC SIGN SEVEN DISH" -> 74764
      [] name = "CUNEIFORM NUMERIC SIGN EIGHT DISH" -> 74765
      [] name = "CUNEIFORM NUMERIC SIGN NINE DISH" -> 74766
      [] name = "CUNEIFORM NUMERIC SIGN FOUR U" -> 74767
      [] name = "CUNEIFORM NUMERIC SIGN FIVE U" -> 74768
      [] name = "CUNEIFORM NUMERIC SIGN SIX U" -> 74769
      [] name = "CUNEIFORM NUMERIC SIGN SEVEN U" -> 74770
      [] name = "CUNEIFORM NUMERIC SIGN EIGHT U" -> 74771
      [] name = "CUNEIFORM NUMERIC SIGN NINE U" -> 74772
      [] name = "CUNEIFORM NUMERIC SIGN ONE GESH2" -> 74773
      [] name = "CUNEIFORM NUMERIC SIGN TWO GESH2" -> 74774
      [] name = "CUNEIFORM NUMERIC SIGN THREE GESH2" -> 74775
      [] name = "CUNEIFORM NUMERIC SIGN FOUR GESH2" -> 74776
      [] name = "CUNEIFORM NUMERIC SIGN FIVE GESH2" -> 74777
      [] name = "CUNEIFORM NUMERIC SIGN SIX GESH2" -> 74778
      [] name = "CUNEIFORM NUMERIC SIGN SEVEN GESH2" -> 74779
      [] name = "CUNEIFORM NUMERIC SIGN EIGHT GESH2" -> 74780
      [] name = "CUNEIFORM NUMERIC SIGN NINE GESH2" -> 74781
      [] name = "CUNEIFORM NUMERIC SIGN ONE GESHU" -> 74782
      [] name = "CUNEIFORM NUMERIC SIGN TWO GESHU" -> 74783
      [] name = "CUNEIFORM NUMERIC SIGN THREE GESHU" -> 74784
      [] name = "CUNEIFORM NUMERIC SIGN FOUR GESHU" -> 74785
      [] name = "CUNEIFORM NUMERIC SIGN FIVE GESHU" -> 74786
      [] name = "CUNEIFORM NUMERIC SIGN TWO SHAR2" -> 74787
      [] name = "CUNEIFORM NUMERIC SIGN THREE SHAR2" -> 74788
      [] name = "CUNEIFORM NUMERIC SIGN THREE SHAR2 VARIANT FORM" -> 74789
      [] name = "CUNEIFORM NUMERIC SIGN FOUR SHAR2" -> 74790
      [] name = "CUNEIFORM NUMERIC SIGN FIVE SHAR2" -> 74791
      [] name = "CUNEIFORM NUMERIC SIGN SIX SHAR2" -> 74792
      [] name = "CUNEIFORM NUMERIC SIGN SEVEN SHAR2" -> 74793
      [] name = "CUNEIFORM NUMERIC SIGN EIGHT SHAR2" -> 74794
      [] name = "CUNEIFORM NUMERIC SIGN NINE SHAR2" -> 74795
      [] name = "CUNEIFORM NUMERIC SIGN ONE SHARU" -> 74796
      [] name = "CUNEIFORM NUMERIC SIGN TWO SHARU" -> 74797
      [] name = "CUNEIFORM NUMERIC SIGN THREE SHARU" -> 74798
      [] name = "CUNEIFORM NUMERIC SIGN THREE SHARU VARIANT FORM" -> 74799
      [] name = "CUNEIFORM NUMERIC SIGN FOUR SHARU" -> 74800
      [] name = "CUNEIFORM NUMERIC SIGN FIVE SHARU" -> 74801
      [] name = "CUNEIFORM NUMERIC SIGN SHAR2 TIMES GAL PLUS DISH" -> 74802
      [] name = "CUNEIFORM NUMERIC SIGN SHAR2 TIMES GAL PLUS MIN" -> 74803
      [] name = "CUNEIFORM NUMERIC SIGN ONE BURU" -> 74804
      [] name = "CUNEIFORM NUMERIC SIGN TWO BURU" -> 74805
      [] name = "CUNEIFORM NUMERIC SIGN THREE BURU" -> 74806
      [] name = "CUNEIFORM NUMERIC SIGN THREE BURU VARIANT FORM" -> 74807
      [] name = "CUNEIFORM NUMERIC SIGN FOUR BURU" -> 74808
      [] name = "CUNEIFORM NUMERIC SIGN FIVE BURU" -> 74809
      [] name = "CUNEIFORM NUMERIC SIGN THREE VARIANT FORM ESH16" -> 74810
      [] name = "CUNEIFORM NUMERIC SIGN THREE VARIANT FORM ESH21" -> 74811
      [] name = "CUNEIFORM NUMERIC SIGN FOUR VARIANT FORM LIMMU" -> 74812
      [] name = "CUNEIFORM NUMERIC SIGN FOUR VARIANT FORM LIMMU4" -> 74813
      [] name = "CUNEIFORM NUMERIC SIGN FOUR VARIANT FORM LIMMU A" -> 74814
      [] name = "CUNEIFORM NUMERIC SIGN FOUR VARIANT FORM LIMMU B" -> 74815
      [] name = "CUNEIFORM NUMERIC SIGN SIX VARIANT FORM ASH9" -> 74816
      [] name = "CUNEIFORM NUMERIC SIGN SEVEN VARIANT FORM IMIN3" -> 74817
      [] name = "CUNEIFORM NUMERIC SIGN SEVEN VARIANT FORM IMIN A" -> 74818
      [] name = "CUNEIFORM NUMERIC SIGN SEVEN VARIANT FORM IMIN B" -> 74819
      [] name = "CUNEIFORM NUMERIC SIGN EIGHT VARIANT FORM USSU" -> 74820
      [] name = "CUNEIFORM NUMERIC SIGN EIGHT VARIANT FORM USSU3" -> 74821
      [] name = "CUNEIFORM NUMERIC SIGN NINE VARIANT FORM ILIMMU" -> 74822
      [] name = "CUNEIFORM NUMERIC SIGN NINE VARIANT FORM ILIMMU3" -> 74823
      [] name = "CUNEIFORM NUMERIC SIGN NINE VARIANT FORM ILIMMU4" -> 74824
      [] name = "CUNEIFORM NUMERIC SIGN NINE VARIANT FORM ILIMMU A" -> 74825
      [] name = "CUNEIFORM NUMERIC SIGN TWO ASH TENU" -> 74826
      [] name = "CUNEIFORM NUMERIC SIGN THREE ASH TENU" -> 74827
      [] name = "CUNEIFORM NUMERIC SIGN FOUR ASH TENU" -> 74828
      [] name = "CUNEIFORM NUMERIC SIGN FIVE ASH TENU" -> 74829
      [] name = "CUNEIFORM NUMERIC SIGN SIX ASH TENU" -> 74830
      [] name = "CUNEIFORM NUMERIC SIGN ONE BAN2" -> 74831
      [] name = "CUNEIFORM NUMERIC SIGN TWO BAN2" -> 74832
      [] name = "CUNEIFORM NUMERIC SIGN THREE BAN2" -> 74833
      [] name = "CUNEIFORM NUMERIC SIGN FOUR BAN2" -> 74834
      [] name = "CUNEIFORM NUMERIC SIGN FOUR BAN2 VARIANT FORM" -> 74835
      [] name = "CUNEIFORM NUMERIC SIGN FIVE BAN2" -> 74836
      [] name = "CUNEIFORM NUMERIC SIGN FIVE BAN2 VARIANT FORM" -> 74837
      [] name = "CUNEIFORM NUMERIC SIGN NIGIDAMIN" -> 74838
      [] name = "CUNEIFORM NUMERIC SIGN NIGIDAESH" -> 74839
      [] name = "CUNEIFORM NUMERIC SIGN ONE ESHE3" -> 74840
      [] name = "CUNEIFORM NUMERIC SIGN TWO ESHE3" -> 74841
      [] name = "CUNEIFORM NUMERIC SIGN ONE THIRD DISH" -> 74842
      [] name = "CUNEIFORM NUMERIC SIGN TWO THIRDS DISH" -> 74843
      [] name = "CUNEIFORM NUMERIC SIGN FIVE SIXTHS DISH" -> 74844
      [] name = "CUNEIFORM NUMERIC SIGN ONE THIRD VARIANT FORM A" -> 74845
      [] name = "CUNEIFORM NUMERIC SIGN TWO THIRDS VARIANT FORM A" -> 74846
      [] name = "CUNEIFORM NUMERIC SIGN ONE EIGHTH ASH" -> 74847
      [] name = "CUNEIFORM NUMERIC SIGN ONE QUARTER ASH" -> 74848
      [] name = "CUNEIFORM NUMERIC SIGN OLD ASSYRIAN ONE SIXTH" -> 74849
      [] name = "CUNEIFORM NUMERIC SIGN OLD ASSYRIAN ONE QUARTER" -> 74850
      [] name = "CUNEIFORM NUMERIC SIGN ONE QUARTER GUR" -> 74851
      [] name = "CUNEIFORM NUMERIC SIGN ONE HALF GUR" -> 74852
      [] name = "CUNEIFORM NUMERIC SIGN ELAMITE ONE THIRD" -> 74853
      [] name = "CUNEIFORM NUMERIC SIGN ELAMITE TWO THIRDS" -> 74854
      [] name = "CUNEIFORM NUMERIC SIGN ELAMITE FORTY" -> 74855
      [] name = "CUNEIFORM NUMERIC SIGN ELAMITE FIFTY" -> 74856
      [] name = "CUNEIFORM NUMERIC SIGN FOUR U VARIANT FORM" -> 74857
      [] name = "CUNEIFORM NUMERIC SIGN FIVE U VARIANT FORM" -> 74858
      [] name = "CUNEIFORM NUMERIC SIGN SIX U VARIANT FORM" -> 74859
      [] name = "CUNEIFORM NUMERIC SIGN SEVEN U VARIANT FORM" -> 74860
      [] name = "CUNEIFORM NUMERIC SIGN EIGHT U VARIANT FORM" -> 74861
      [] name = "CUNEIFORM NUMERIC SIGN NINE U VARIANT FORM" -> 74862
      [] name = "CUNEIFORM PUNCTUATION SIGN OLD ASSYRIAN WORD DIVIDER" -> 74864
      [] name = "CUNEIFORM PUNCTUATION SIGN VERTICAL COLON" -> 74865
      [] name = "CUNEIFORM PUNCTUATION SIGN DIAGONAL COLON" -> 74866
      [] name = "CUNEIFORM PUNCTUATION SIGN DIAGONAL TRICOLON" -> 74867
      [] name = "CUNEIFORM PUNCTUATION SIGN DIAGONAL QUADCOLON" -> 74868
      [] name = "CUNEIFORM SIGN AB TIMES NUN TENU" -> 74880
      [] name = "CUNEIFORM SIGN AB TIMES SHU2" -> 74881
      [] name = "CUNEIFORM SIGN AD TIMES ESH2" -> 74882
      [] name = "CUNEIFORM SIGN BAD TIMES DISH TENU" -> 74883
      [] name = "CUNEIFORM SIGN BAHAR2 TIMES AB2" -> 74884
      [] name = "CUNEIFORM SIGN BAHAR2 TIMES NI" -> 74885
      [] name = "CUNEIFORM SIGN BAHAR2 TIMES ZA" -> 74886
      [] name = "CUNEIFORM SIGN BU OVER BU TIMES NA2" -> 74887
      [] name = "CUNEIFORM SIGN DA TIMES TAK4" -> 74888
      [] name = "CUNEIFORM SIGN DAG TIMES KUR" -> 74889
      [] name = "CUNEIFORM SIGN DIM TIMES IGI" -> 74890
      [] name = "CUNEIFORM SIGN DIM TIMES U U U" -> 74891
      [] name = "CUNEIFORM SIGN DIM2 TIMES UD" -> 74892
      [] name = "CUNEIFORM SIGN DUG TIMES ANSHE" -> 74893
      [] name = "CUNEIFORM SIGN DUG TIMES ASH" -> 74894
      [] name = "CUNEIFORM SIGN DUG TIMES ASH AT LEFT" -> 74895
      [] name = "CUNEIFORM SIGN DUG TIMES DIN" -> 74896
      [] name = "CUNEIFORM SIGN DUG TIMES DUN" -> 74897
      [] name = "CUNEIFORM SIGN DUG TIMES ERIN2" -> 74898
      [] name = "CUNEIFORM SIGN DUG TIMES GA" -> 74899
      [] name = "CUNEIFORM SIGN DUG TIMES GI" -> 74900
      [] name = "CUNEIFORM SIGN DUG TIMES GIR2 GUNU" -> 74901
      [] name = "CUNEIFORM SIGN DUG TIMES GISH" -> 74902
      [] name = "CUNEIFORM SIGN DUG TIMES HA" -> 74903
      [] name = "CUNEIFORM SIGN DUG TIMES HI" -> 74904
      [] name = "CUNEIFORM SIGN DUG TIMES IGI GUNU" -> 74905
      [] name = "CUNEIFORM SIGN DUG TIMES KASKAL" -> 74906
      [] name = "CUNEIFORM SIGN DUG TIMES KUR" -> 74907
      [] name = "CUNEIFORM SIGN DUG TIMES KUSHU2" -> 74908
      [] name = "CUNEIFORM SIGN DUG TIMES KUSHU2 PLUS KASKAL" -> 74909
      [] name = "CUNEIFORM SIGN DUG TIMES LAK-020" -> 74910
      [] name = "CUNEIFORM SIGN DUG TIMES LAM" -> 74911
      [] name = "CUNEIFORM SIGN DUG TIMES LAM TIMES KUR" -> 74912
      [] name = "CUNEIFORM SIGN DUG TIMES LUH PLUS GISH" -> 74913
      [] name = "CUNEIFORM SIGN DUG TIMES MASH" -> 74914
      [] name = "CUNEIFORM SIGN DUG TIMES MES" -> 74915
      [] name = "CUNEIFORM SIGN DUG TIMES MI" -> 74916
      [] name = "CUNEIFORM SIGN DUG TIMES NI" -> 74917
      [] name = "CUNEIFORM SIGN DUG TIMES PI" -> 74918
      [] name = "CUNEIFORM SIGN DUG TIMES SHE" -> 74919
      [] name = "CUNEIFORM SIGN DUG TIMES SI GUNU" -> 74920
      [] name = "CUNEIFORM SIGN E2 TIMES KUR" -> 74921
      [] name = "CUNEIFORM SIGN E2 TIMES PAP" -> 74922
      [] name = "CUNEIFORM SIGN ERIN2 X" -> 74923
      [] name = "CUNEIFORM SIGN ESH2 CROSSING ESH2" -> 74924
      [] name = "CUNEIFORM SIGN EZEN SHESHIG TIMES ASH" -> 74925
      [] name = "CUNEIFORM SIGN EZEN SHESHIG TIMES HI" -> 74926
      [] name = "CUNEIFORM SIGN EZEN SHESHIG TIMES IGI GUNU" -> 74927
      [] name = "CUNEIFORM SIGN EZEN SHESHIG TIMES LA" -> 74928
      [] name = "CUNEIFORM SIGN EZEN SHESHIG TIMES LAL" -> 74929
      [] name = "CUNEIFORM SIGN EZEN SHESHIG TIMES ME" -> 74930
      [] name = "CUNEIFORM SIGN EZEN SHESHIG TIMES MES" -> 74931
      [] name = "CUNEIFORM SIGN EZEN SHESHIG TIMES SU" -> 74932
      [] name = "CUNEIFORM SIGN EZEN TIMES SU" -> 74933
      [] name = "CUNEIFORM SIGN GA2 TIMES BAHAR2" -> 74934
      [] name = "CUNEIFORM SIGN GA2 TIMES DIM GUNU" -> 74935
      [] name = "CUNEIFORM SIGN GA2 TIMES DUG TIMES IGI GUNU" -> 74936
      [] name = "CUNEIFORM SIGN GA2 TIMES DUG TIMES KASKAL" -> 74937
      [] name = "CUNEIFORM SIGN GA2 TIMES EREN" -> 74938
      [] name = "CUNEIFORM SIGN GA2 TIMES GA" -> 74939
      [] name = "CUNEIFORM SIGN GA2 TIMES GAR PLUS DI" -> 74940
      [] name = "CUNEIFORM SIGN GA2 TIMES GAR PLUS NE" -> 74941
      [] name = "CUNEIFORM SIGN GA2 TIMES HA PLUS A" -> 74942
      [] name = "CUNEIFORM SIGN GA2 TIMES KUSHU2 PLUS KASKAL" -> 74943
      [] name = "CUNEIFORM SIGN GA2 TIMES LAM" -> 74944
      [] name = "CUNEIFORM SIGN GA2 TIMES LAM TIMES KUR" -> 74945
      [] name = "CUNEIFORM SIGN GA2 TIMES LUH" -> 74946
      [] name = "CUNEIFORM SIGN GA2 TIMES MUSH" -> 74947
      [] name = "CUNEIFORM SIGN GA2 TIMES NE" -> 74948
      [] name = "CUNEIFORM SIGN GA2 TIMES NE PLUS E2" -> 74949
      [] name = "CUNEIFORM SIGN GA2 TIMES NE PLUS GI" -> 74950
      [] name = "CUNEIFORM SIGN GA2 TIMES SHIM" -> 74951
      [] name = "CUNEIFORM SIGN GA2 TIMES ZIZ2" -> 74952
      [] name = "CUNEIFORM SIGN GABA ROTATED NINETY DEGREES" -> 74953
      [] name = "CUNEIFORM SIGN GESHTIN TIMES U" -> 74954
      [] name = "CUNEIFORM SIGN GISH TIMES GISH CROSSING GISH" -> 74955
      [] name = "CUNEIFORM SIGN GU2 TIMES IGI GUNU" -> 74956
      [] name = "CUNEIFORM SIGN GUD PLUS GISH TIMES TAK4" -> 74957
      [] name = "CUNEIFORM SIGN HA TENU GUNU" -> 74958
      [] name = "CUNEIFORM SIGN HI TIMES ASH OVER HI TIMES ASH" -> 74959
      [] name = "CUNEIFORM SIGN KA TIMES BU" -> 74960
      [] name = "CUNEIFORM SIGN KA TIMES KA" -> 74961
      [] name = "CUNEIFORM SIGN KA TIMES U U U" -> 74962
      [] name = "CUNEIFORM SIGN KA TIMES UR" -> 74963
      [] name = "CUNEIFORM SIGN LAGAB TIMES ZU OVER ZU" -> 74964
      [] name = "CUNEIFORM SIGN LAK-003" -> 74965
      [] name = "CUNEIFORM SIGN LAK-021" -> 74966
      [] name = "CUNEIFORM SIGN LAK-025" -> 74967
      [] name = "CUNEIFORM SIGN LAK-030" -> 74968
      [] name = "CUNEIFORM SIGN LAK-050" -> 74969
      [] name = "CUNEIFORM SIGN LAK-051" -> 74970
      [] name = "CUNEIFORM SIGN LAK-062" -> 74971
      [] name = "CUNEIFORM SIGN LAK-079 OVER LAK-079 GUNU" -> 74972
      [] name = "CUNEIFORM SIGN LAK-080" -> 74973
      [] name = "CUNEIFORM SIGN LAK-081 OVER LAK-081" -> 74974
      [] name = "CUNEIFORM SIGN LAK-092" -> 74975
      [] name = "CUNEIFORM SIGN LAK-130" -> 74976
      [] name = "CUNEIFORM SIGN LAK-142" -> 74977
      [] name = "CUNEIFORM SIGN LAK-210" -> 74978
      [] name = "CUNEIFORM SIGN LAK-219" -> 74979
      [] name = "CUNEIFORM SIGN LAK-220" -> 74980
      [] name = "CUNEIFORM SIGN LAK-225" -> 74981
      [] name = "CUNEIFORM SIGN LAK-228" -> 74982
      [] name = "CUNEIFORM SIGN LAK-238" -> 74983
      [] name = "CUNEIFORM SIGN LAK-265" -> 74984
      [] name = "CUNEIFORM SIGN LAK-266" -> 74985
      [] name = "CUNEIFORM SIGN LAK-343" -> 74986
      [] name = "CUNEIFORM SIGN LAK-347" -> 74987
      [] name = "CUNEIFORM SIGN LAK-348" -> 74988
      [] name = "CUNEIFORM SIGN LAK-383" -> 74989
      [] name = "CUNEIFORM SIGN LAK-384" -> 74990
      [] name = "CUNEIFORM SIGN LAK-390" -> 74991
      [] name = "CUNEIFORM SIGN LAK-441" -> 74992
      [] name = "CUNEIFORM SIGN LAK-449" -> 74993
      [] name = "CUNEIFORM SIGN LAK-449 TIMES GU" -> 74994
      [] name = "CUNEIFORM SIGN LAK-449 TIMES IGI" -> 74995
      [] name = "CUNEIFORM SIGN LAK-449 TIMES PAP PLUS LU3" -> 74996
      [] name = "CUNEIFORM SIGN LAK-449 TIMES PAP PLUS PAP PLUS LU3" -> 74997
      [] name = "CUNEIFORM SIGN LAK-449 TIMES U2 PLUS BA" -> 74998
      [] name = "CUNEIFORM SIGN LAK-450" -> 74999
      [] name = "CUNEIFORM SIGN LAK-457" -> 75000
      [] name = "CUNEIFORM SIGN LAK-470" -> 75001
      [] name = "CUNEIFORM SIGN LAK-483" -> 75002
      [] name = "CUNEIFORM SIGN LAK-490" -> 75003
      [] name = "CUNEIFORM SIGN LAK-492" -> 75004
      [] name = "CUNEIFORM SIGN LAK-493" -> 75005
      [] name = "CUNEIFORM SIGN LAK-495" -> 75006
      [] name = "CUNEIFORM SIGN LAK-550" -> 75007
      [] name = "CUNEIFORM SIGN LAK-608" -> 75008
      [] name = "CUNEIFORM SIGN LAK-617" -> 75009
      [] name = "CUNEIFORM SIGN LAK-617 TIMES ASH" -> 75010
      [] name = "CUNEIFORM SIGN LAK-617 TIMES BAD" -> 75011
      [] name = "CUNEIFORM SIGN LAK-617 TIMES DUN3 GUNU GUNU" -> 75012
      [] name = "CUNEIFORM SIGN LAK-617 TIMES KU3" -> 75013
      [] name = "CUNEIFORM SIGN LAK-617 TIMES LA" -> 75014
      [] name = "CUNEIFORM SIGN LAK-617 TIMES TAR" -> 75015
      [] name = "CUNEIFORM SIGN LAK-617 TIMES TE" -> 75016
      [] name = "CUNEIFORM SIGN LAK-617 TIMES U2" -> 75017
      [] name = "CUNEIFORM SIGN LAK-617 TIMES UD" -> 75018
      [] name = "CUNEIFORM SIGN LAK-617 TIMES URUDA" -> 75019
      [] name = "CUNEIFORM SIGN LAK-636" -> 75020
      [] name = "CUNEIFORM SIGN LAK-648" -> 75021
      [] name = "CUNEIFORM SIGN LAK-648 TIMES DUB" -> 75022
      [] name = "CUNEIFORM SIGN LAK-648 TIMES GA" -> 75023
      [] name = "CUNEIFORM SIGN LAK-648 TIMES IGI" -> 75024
      [] name = "CUNEIFORM SIGN LAK-648 TIMES IGI GUNU" -> 75025
      [] name = "CUNEIFORM SIGN LAK-648 TIMES NI" -> 75026
      [] name = "CUNEIFORM SIGN LAK-648 TIMES PAP PLUS PAP PLUS LU3" -> 75027
      [] name = "CUNEIFORM SIGN LAK-648 TIMES SHESH PLUS KI" -> 75028
      [] name = "CUNEIFORM SIGN LAK-648 TIMES UD" -> 75029
      [] name = "CUNEIFORM SIGN LAK-648 TIMES URUDA" -> 75030
      [] name = "CUNEIFORM SIGN LAK-724" -> 75031
      [] name = "CUNEIFORM SIGN LAK-749" -> 75032
      [] name = "CUNEIFORM SIGN LU2 GUNU TIMES ASH" -> 75033
      [] name = "CUNEIFORM SIGN LU2 TIMES DISH" -> 75034
      [] name = "CUNEIFORM SIGN LU2 TIMES HAL" -> 75035
      [] name = "CUNEIFORM SIGN LU2 TIMES PAP" -> 75036
      [] name = "CUNEIFORM SIGN LU2 TIMES PAP PLUS PAP PLUS LU3" -> 75037
      [] name = "CUNEIFORM SIGN LU2 TIMES TAK4" -> 75038
      [] name = "CUNEIFORM SIGN MI PLUS ZA7" -> 75039
      [] name = "CUNEIFORM SIGN MUSH OVER MUSH TIMES GA" -> 75040
      [] name = "CUNEIFORM SIGN MUSH OVER MUSH TIMES KAK" -> 75041
      [] name = "CUNEIFORM SIGN NINDA2 TIMES DIM GUNU" -> 75042
      [] name = "CUNEIFORM SIGN NINDA2 TIMES GISH" -> 75043
      [] name = "CUNEIFORM SIGN NINDA2 TIMES GUL" -> 75044
      [] name = "CUNEIFORM SIGN NINDA2 TIMES HI" -> 75045
      [] name = "CUNEIFORM SIGN NINDA2 TIMES KESH2" -> 75046
      [] name = "CUNEIFORM SIGN NINDA2 TIMES LAK-050" -> 75047
      [] name = "CUNEIFORM SIGN NINDA2 TIMES MASH" -> 75048
      [] name = "CUNEIFORM SIGN NINDA2 TIMES PAP PLUS PAP" -> 75049
      [] name = "CUNEIFORM SIGN NINDA2 TIMES U" -> 75050
      [] name = "CUNEIFORM SIGN NINDA2 TIMES U PLUS U" -> 75051
      [] name = "CUNEIFORM SIGN NINDA2 TIMES URUDA" -> 75052
      [] name = "CUNEIFORM SIGN SAG GUNU TIMES HA" -> 75053
      [] name = "CUNEIFORM SIGN SAG TIMES EN" -> 75054
      [] name = "CUNEIFORM SIGN SAG TIMES SHE AT LEFT" -> 75055
      [] name = "CUNEIFORM SIGN SAG TIMES TAK4" -> 75056
      [] name = "CUNEIFORM SIGN SHA6 TENU" -> 75057
      [] name = "CUNEIFORM SIGN SHE OVER SHE" -> 75058
      [] name = "CUNEIFORM SIGN SHE PLUS HUB2" -> 75059
      [] name = "CUNEIFORM SIGN SHE PLUS NAM2" -> 75060
      [] name = "CUNEIFORM SIGN SHE PLUS SAR" -> 75061
      [] name = "CUNEIFORM SIGN SHU2 PLUS DUG TIMES NI" -> 75062
      [] name = "CUNEIFORM SIGN SHU2 PLUS E2 TIMES AN" -> 75063
      [] name = "CUNEIFORM SIGN SI TIMES TAK4" -> 75064
      [] name = "CUNEIFORM SIGN TAK4 PLUS SAG" -> 75065
      [] name = "CUNEIFORM SIGN TUM TIMES GAN2 TENU" -> 75066
      [] name = "CUNEIFORM SIGN TUM TIMES THREE DISH" -> 75067
      [] name = "CUNEIFORM SIGN UR2 INVERTED" -> 75068
      [] name = "CUNEIFORM SIGN UR2 TIMES UD" -> 75069
      [] name = "CUNEIFORM SIGN URU TIMES DARA3" -> 75070
      [] name = "CUNEIFORM SIGN URU TIMES LAK-668" -> 75071
      [] name = "CUNEIFORM SIGN URU TIMES LU3" -> 75072
      [] name = "CUNEIFORM SIGN ZA7" -> 75073
      [] name = "CUNEIFORM SIGN ZU OVER ZU PLUS SAR" -> 75074
      [] name = "CUNEIFORM SIGN ZU5 TIMES THREE DISH TENU" -> 75075
      [] name = "CYPRO-MINOAN SIGN CM001" -> 77712
      [] name = "CYPRO-MINOAN SIGN CM002" -> 77713
      [] name = "CYPRO-MINOAN SIGN CM004" -> 77714
      [] name = "CYPRO-MINOAN SIGN CM005" -> 77715
      [] name = "CYPRO-MINOAN SIGN CM006" -> 77716
      [] name = "CYPRO-MINOAN SIGN CM007" -> 77717
      [] name = "CYPRO-MINOAN SIGN CM008" -> 77718
      [] name = "CYPRO-MINOAN SIGN CM009" -> 77719
      [] name = "CYPRO-MINOAN SIGN CM010" -> 77720
      [] name = "CYPRO-MINOAN SIGN CM011" -> 77721
      [] name = "CYPRO-MINOAN SIGN CM012" -> 77722
      [] name = "CYPRO-MINOAN SIGN CM012B" -> 77723
      [] name = "CYPRO-MINOAN SIGN CM013" -> 77724
      [] name = "CYPRO-MINOAN SIGN CM015" -> 77725
      [] name = "CYPRO-MINOAN SIGN CM017" -> 77726
      [] name = "CYPRO-MINOAN SIGN CM019" -> 77727
      [] name = "CYPRO-MINOAN SIGN CM021" -> 77728
      [] name = "CYPRO-MINOAN SIGN CM023" -> 77729
      [] name = "CYPRO-MINOAN SIGN CM024" -> 77730
      [] name = "CYPRO-MINOAN SIGN CM025" -> 77731
      [] name = "CYPRO-MINOAN SIGN CM026" -> 77732
      [] name = "CYPRO-MINOAN SIGN CM027" -> 77733
      [] name = "CYPRO-MINOAN SIGN CM028" -> 77734
      [] name = "CYPRO-MINOAN SIGN CM029" -> 77735
      [] name = "CYPRO-MINOAN SIGN CM030" -> 77736
      [] name = "CYPRO-MINOAN SIGN CM033" -> 77737
      [] name = "CYPRO-MINOAN SIGN CM034" -> 77738
      [] name = "CYPRO-MINOAN SIGN CM035" -> 77739
      [] name = "CYPRO-MINOAN SIGN CM036" -> 77740
      [] name = "CYPRO-MINOAN SIGN CM037" -> 77741
      [] name = "CYPRO-MINOAN SIGN CM038" -> 77742
      [] name = "CYPRO-MINOAN SIGN CM039" -> 77743
      [] name = "CYPRO-MINOAN SIGN CM040" -> 77744
      [] name = "CYPRO-MINOAN SIGN CM041" -> 77745
      [] name = "CYPRO-MINOAN SIGN CM044" -> 77746
      [] name = "CYPRO-MINOAN SIGN CM046" -> 77747
      [] name = "CYPRO-MINOAN SIGN CM047" -> 77748
      [] name = "CYPRO-MINOAN SIGN CM049" -> 77749
      [] name = "CYPRO-MINOAN SIGN CM050" -> 77750
      [] name = "CYPRO-MINOAN SIGN CM051" -> 77751
      [] name = "CYPRO-MINOAN SIGN CM052" -> 77752
      [] name = "CYPRO-MINOAN SIGN CM053" -> 77753
      [] name = "CYPRO-MINOAN SIGN CM054" -> 77754
      [] name = "CYPRO-MINOAN SIGN CM055" -> 77755
      [] name = "CYPRO-MINOAN SIGN CM056" -> 77756
      [] name = "CYPRO-MINOAN SIGN CM058" -> 77757
      [] name = "CYPRO-MINOAN SIGN CM059" -> 77758
      [] name = "CYPRO-MINOAN SIGN CM060" -> 77759
      [] name = "CYPRO-MINOAN SIGN CM061" -> 77760
      [] name = "CYPRO-MINOAN SIGN CM062" -> 77761
      [] name = "CYPRO-MINOAN SIGN CM063" -> 77762
      [] name = "CYPRO-MINOAN SIGN CM064" -> 77763
      [] name = "CYPRO-MINOAN SIGN CM066" -> 77764
      [] name = "CYPRO-MINOAN SIGN CM067" -> 77765
      [] name = "CYPRO-MINOAN SIGN CM068" -> 77766
      [] name = "CYPRO-MINOAN SIGN CM069" -> 77767
      [] name = "CYPRO-MINOAN SIGN CM070" -> 77768
      [] name = "CYPRO-MINOAN SIGN CM071" -> 77769
      [] name = "CYPRO-MINOAN SIGN CM072" -> 77770
      [] name = "CYPRO-MINOAN SIGN CM073" -> 77771
      [] name = "CYPRO-MINOAN SIGN CM074" -> 77772
      [] name = "CYPRO-MINOAN SIGN CM075" -> 77773
      [] name = "CYPRO-MINOAN SIGN CM075B" -> 77774
      [] name = "CYPRO-MINOAN SIGN CM076" -> 77775
      [] name = "CYPRO-MINOAN SIGN CM078" -> 77776
      [] name = "CYPRO-MINOAN SIGN CM079" -> 77777
      [] name = "CYPRO-MINOAN SIGN CM080" -> 77778
      [] name = "CYPRO-MINOAN SIGN CM081" -> 77779
      [] name = "CYPRO-MINOAN SIGN CM082" -> 77780
      [] name = "CYPRO-MINOAN SIGN CM083" -> 77781
      [] name = "CYPRO-MINOAN SIGN CM084" -> 77782
      [] name = "CYPRO-MINOAN SIGN CM085" -> 77783
      [] name = "CYPRO-MINOAN SIGN CM086" -> 77784
      [] name = "CYPRO-MINOAN SIGN CM087" -> 77785
      [] name = "CYPRO-MINOAN SIGN CM088" -> 77786
      [] name = "CYPRO-MINOAN SIGN CM089" -> 77787
      [] name = "CYPRO-MINOAN SIGN CM090" -> 77788
      [] name = "CYPRO-MINOAN SIGN CM091" -> 77789
      [] name = "CYPRO-MINOAN SIGN CM092" -> 77790
      [] name = "CYPRO-MINOAN SIGN CM094" -> 77791
      [] name = "CYPRO-MINOAN SIGN CM095" -> 77792
      [] name = "CYPRO-MINOAN SIGN CM096" -> 77793
      [] name = "CYPRO-MINOAN SIGN CM097" -> 77794
      [] name = "CYPRO-MINOAN SIGN CM098" -> 77795
      [] name = "CYPRO-MINOAN SIGN CM099" -> 77796
      [] name = "CYPRO-MINOAN SIGN CM100" -> 77797
      [] name = "CYPRO-MINOAN SIGN CM101" -> 77798
      [] name = "CYPRO-MINOAN SIGN CM102" -> 77799
      [] name = "CYPRO-MINOAN SIGN CM103" -> 77800
      [] name = "CYPRO-MINOAN SIGN CM104" -> 77801
      [] name = "CYPRO-MINOAN SIGN CM105" -> 77802
      [] name = "CYPRO-MINOAN SIGN CM107" -> 77803
      [] name = "CYPRO-MINOAN SIGN CM108" -> 77804
      [] name = "CYPRO-MINOAN SIGN CM109" -> 77805
      [] name = "CYPRO-MINOAN SIGN CM110" -> 77806
      [] name = "CYPRO-MINOAN SIGN CM112" -> 77807
      [] name = "CYPRO-MINOAN SIGN CM114" -> 77808
      [] name = "CYPRO-MINOAN SIGN CM301" -> 77809
      [] name = "CYPRO-MINOAN SIGN CM302" -> 77810
      [] name = "EGYPTIAN HIEROGLYPH A001" -> 77824
      [] name = "EGYPTIAN HIEROGLYPH A002" -> 77825
      [] name = "EGYPTIAN HIEROGLYPH A003" -> 77826
      [] name = "EGYPTIAN HIEROGLYPH A004" -> 77827
      [] name = "EGYPTIAN HIEROGLYPH A005" -> 77828
      [] name = "EGYPTIAN HIEROGLYPH A005A" -> 77829
      [] name = "EGYPTIAN HIEROGLYPH A006" -> 77830
      [] name = "EGYPTIAN HIEROGLYPH A006A" -> 77831
      [] name = "EGYPTIAN HIEROGLYPH A006B" -> 77832
      [] name = "EGYPTIAN HIEROGLYPH A007" -> 77833
      [] name = "EGYPTIAN HIEROGLYPH A008" -> 77834
      [] name = "EGYPTIAN HIEROGLYPH A009" -> 77835
      [] name = "EGYPTIAN HIEROGLYPH A010" -> 77836
      [] name = "EGYPTIAN HIEROGLYPH A011" -> 77837
      [] name = "EGYPTIAN HIEROGLYPH A012" -> 77838
      [] name = "EGYPTIAN HIEROGLYPH A013" -> 77839
      [] name = "EGYPTIAN HIEROGLYPH A014" -> 77840
      [] name = "EGYPTIAN HIEROGLYPH A014A" -> 77841
      [] name = "EGYPTIAN HIEROGLYPH A015" -> 77842
      [] name = "EGYPTIAN HIEROGLYPH A016" -> 77843
      [] name = "EGYPTIAN HIEROGLYPH A017" -> 77844
      [] name = "EGYPTIAN HIEROGLYPH A017A" -> 77845
      [] name = "EGYPTIAN HIEROGLYPH A018" -> 77846
      [] name = "EGYPTIAN HIEROGLYPH A019" -> 77847
      [] name = "EGYPTIAN HIEROGLYPH A020" -> 77848
      [] name = "EGYPTIAN HIEROGLYPH A021" -> 77849
      [] name = "EGYPTIAN HIEROGLYPH A022" -> 77850
      [] name = "EGYPTIAN HIEROGLYPH A023" -> 77851
      [] name = "EGYPTIAN HIEROGLYPH A024" -> 77852
      [] name = "EGYPTIAN HIEROGLYPH A025" -> 77853
      [] name = "EGYPTIAN HIEROGLYPH A026" -> 77854
      [] name = "EGYPTIAN HIEROGLYPH A027" -> 77855
      [] name = "EGYPTIAN HIEROGLYPH A028" -> 77856
      [] name = "EGYPTIAN HIEROGLYPH A029" -> 77857
      [] name = "EGYPTIAN HIEROGLYPH A030" -> 77858
      [] name = "EGYPTIAN HIEROGLYPH A031" -> 77859
      [] name = "EGYPTIAN HIEROGLYPH A032" -> 77860
      [] name = "EGYPTIAN HIEROGLYPH A032A" -> 77861
      [] name = "EGYPTIAN HIEROGLYPH A033" -> 77862
      [] name = "EGYPTIAN HIEROGLYPH A034" -> 77863
      [] name = "EGYPTIAN HIEROGLYPH A035" -> 77864
      [] name = "EGYPTIAN HIEROGLYPH A036" -> 77865
      [] name = "EGYPTIAN HIEROGLYPH A037" -> 77866
      [] name = "EGYPTIAN HIEROGLYPH A038" -> 77867
      [] name = "EGYPTIAN HIEROGLYPH A039" -> 77868
      [] name = "EGYPTIAN HIEROGLYPH A040" -> 77869
      [] name = "EGYPTIAN HIEROGLYPH A040A" -> 77870
      [] name = "EGYPTIAN HIEROGLYPH A041" -> 77871
      [] name = "EGYPTIAN HIEROGLYPH A042" -> 77872
      [] name = "EGYPTIAN HIEROGLYPH A042A" -> 77873
      [] name = "EGYPTIAN HIEROGLYPH A043" -> 77874
      [] name = "EGYPTIAN HIEROGLYPH A043A" -> 77875
      [] name = "EGYPTIAN HIEROGLYPH A044" -> 77876
      [] name = "EGYPTIAN HIEROGLYPH A045" -> 77877
      [] name = "EGYPTIAN HIEROGLYPH A045A" -> 77878
      [] name = "EGYPTIAN HIEROGLYPH A046" -> 77879
      [] name = "EGYPTIAN HIEROGLYPH A047" -> 77880
      [] name = "EGYPTIAN HIEROGLYPH A048" -> 77881
      [] name = "EGYPTIAN HIEROGLYPH A049" -> 77882
      [] name = "EGYPTIAN HIEROGLYPH A050" -> 77883
      [] name = "EGYPTIAN HIEROGLYPH A051" -> 77884
      [] name = "EGYPTIAN HIEROGLYPH A052" -> 77885
      [] name = "EGYPTIAN HIEROGLYPH A053" -> 77886
      [] name = "EGYPTIAN HIEROGLYPH A054" -> 77887
      [] name = "EGYPTIAN HIEROGLYPH A055" -> 77888
      [] name = "EGYPTIAN HIEROGLYPH A056" -> 77889
      [] name = "EGYPTIAN HIEROGLYPH A057" -> 77890
      [] name = "EGYPTIAN HIEROGLYPH A058" -> 77891
      [] name = "EGYPTIAN HIEROGLYPH A059" -> 77892
      [] name = "EGYPTIAN HIEROGLYPH A060" -> 77893
      [] name = "EGYPTIAN HIEROGLYPH A061" -> 77894
      [] name = "EGYPTIAN HIEROGLYPH A062" -> 77895
      [] name = "EGYPTIAN HIEROGLYPH A063" -> 77896
      [] name = "EGYPTIAN HIEROGLYPH A064" -> 77897
      [] name = "EGYPTIAN HIEROGLYPH A065" -> 77898
      [] name = "EGYPTIAN HIEROGLYPH A066" -> 77899
      [] name = "EGYPTIAN HIEROGLYPH A067" -> 77900
      [] name = "EGYPTIAN HIEROGLYPH A068" -> 77901
      [] name = "EGYPTIAN HIEROGLYPH A069" -> 77902
      [] name = "EGYPTIAN HIEROGLYPH A070" -> 77903
      [] name = "EGYPTIAN HIEROGLYPH B001" -> 77904
      [] name = "EGYPTIAN HIEROGLYPH B002" -> 77905
      [] name = "EGYPTIAN HIEROGLYPH B003" -> 77906
      [] name = "EGYPTIAN HIEROGLYPH B004" -> 77907
      [] name = "EGYPTIAN HIEROGLYPH B005" -> 77908
      [] name = "EGYPTIAN HIEROGLYPH B005A" -> 77909
      [] name = "EGYPTIAN HIEROGLYPH B006" -> 77910
      [] name = "EGYPTIAN HIEROGLYPH B007" -> 77911
      [] name = "EGYPTIAN HIEROGLYPH B008" -> 77912
      [] name = "EGYPTIAN HIEROGLYPH B009" -> 77913
      [] name = "EGYPTIAN HIEROGLYPH C001" -> 77914
      [] name = "EGYPTIAN HIEROGLYPH C002" -> 77915
      [] name = "EGYPTIAN HIEROGLYPH C002A" -> 77916
      [] name = "EGYPTIAN HIEROGLYPH C002B" -> 77917
      [] name = "EGYPTIAN HIEROGLYPH C002C" -> 77918
      [] name = "EGYPTIAN HIEROGLYPH C003" -> 77919
      [] name = "EGYPTIAN HIEROGLYPH C004" -> 77920
      [] name = "EGYPTIAN HIEROGLYPH C005" -> 77921
      [] name = "EGYPTIAN HIEROGLYPH C006" -> 77922
      [] name = "EGYPTIAN HIEROGLYPH C007" -> 77923
      [] name = "EGYPTIAN HIEROGLYPH C008" -> 77924
      [] name = "EGYPTIAN HIEROGLYPH C009" -> 77925
      [] name = "EGYPTIAN HIEROGLYPH C010" -> 77926
      [] name = "EGYPTIAN HIEROGLYPH C010A" -> 77927
      [] name = "EGYPTIAN HIEROGLYPH C011" -> 77928
      [] name = "EGYPTIAN HIEROGLYPH C012" -> 77929
      [] name = "EGYPTIAN HIEROGLYPH C013" -> 77930
      [] name = "EGYPTIAN HIEROGLYPH C014" -> 77931
      [] name = "EGYPTIAN HIEROGLYPH C015" -> 77932
      [] name = "EGYPTIAN HIEROGLYPH C016" -> 77933
      [] name = "EGYPTIAN HIEROGLYPH C017" -> 77934
      [] name = "EGYPTIAN HIEROGLYPH C018" -> 77935
      [] name = "EGYPTIAN HIEROGLYPH C019" -> 77936
      [] name = "EGYPTIAN HIEROGLYPH C020" -> 77937
      [] name = "EGYPTIAN HIEROGLYPH C021" -> 77938
      [] name = "EGYPTIAN HIEROGLYPH C022" -> 77939
      [] name = "EGYPTIAN HIEROGLYPH C023" -> 77940
      [] name = "EGYPTIAN HIEROGLYPH C024" -> 77941
      [] name = "EGYPTIAN HIEROGLYPH D001" -> 77942
      [] name = "EGYPTIAN HIEROGLYPH D002" -> 77943
      [] name = "EGYPTIAN HIEROGLYPH D003" -> 77944
      [] name = "EGYPTIAN HIEROGLYPH D004" -> 77945
      [] name = "EGYPTIAN HIEROGLYPH D005" -> 77946
      [] name = "EGYPTIAN HIEROGLYPH D006" -> 77947
      [] name = "EGYPTIAN HIEROGLYPH D007" -> 77948
      [] name = "EGYPTIAN HIEROGLYPH D008" -> 77949
      [] name = "EGYPTIAN HIEROGLYPH D008A" -> 77950
      [] name = "EGYPTIAN HIEROGLYPH D009" -> 77951
      [] name = "EGYPTIAN HIEROGLYPH D010" -> 77952
      [] name = "EGYPTIAN HIEROGLYPH D011" -> 77953
      [] name = "EGYPTIAN HIEROGLYPH D012" -> 77954
      [] name = "EGYPTIAN HIEROGLYPH D013" -> 77955
      [] name = "EGYPTIAN HIEROGLYPH D014" -> 77956
      [] name = "EGYPTIAN HIEROGLYPH D015" -> 77957
      [] name = "EGYPTIAN HIEROGLYPH D016" -> 77958
      [] name = "EGYPTIAN HIEROGLYPH D017" -> 77959
      [] name = "EGYPTIAN HIEROGLYPH D018" -> 77960
      [] name = "EGYPTIAN HIEROGLYPH D019" -> 77961
      [] name = "EGYPTIAN HIEROGLYPH D020" -> 77962
      [] name = "EGYPTIAN HIEROGLYPH D021" -> 77963
      [] name = "EGYPTIAN HIEROGLYPH D022" -> 77964
      [] name = "EGYPTIAN HIEROGLYPH D023" -> 77965
      [] name = "EGYPTIAN HIEROGLYPH D024" -> 77966
      [] name = "EGYPTIAN HIEROGLYPH D025" -> 77967
      [] name = "EGYPTIAN HIEROGLYPH D026" -> 77968
      [] name = "EGYPTIAN HIEROGLYPH D027" -> 77969
      [] name = "EGYPTIAN HIEROGLYPH D027A" -> 77970
      [] name = "EGYPTIAN HIEROGLYPH D028" -> 77971
      [] name = "EGYPTIAN HIEROGLYPH D029" -> 77972
      [] name = "EGYPTIAN HIEROGLYPH D030" -> 77973
      [] name = "EGYPTIAN HIEROGLYPH D031" -> 77974
      [] name = "EGYPTIAN HIEROGLYPH D031A" -> 77975
      [] name = "EGYPTIAN HIEROGLYPH D032" -> 77976
      [] name = "EGYPTIAN HIEROGLYPH D033" -> 77977
      [] name = "EGYPTIAN HIEROGLYPH D034" -> 77978
      [] name = "EGYPTIAN HIEROGLYPH D034A" -> 77979
      [] name = "EGYPTIAN HIEROGLYPH D035" -> 77980
      [] name = "EGYPTIAN HIEROGLYPH D036" -> 77981
      [] name = "EGYPTIAN HIEROGLYPH D037" -> 77982
      [] name = "EGYPTIAN HIEROGLYPH D038" -> 77983
      [] name = "EGYPTIAN HIEROGLYPH D039" -> 77984
      [] name = "EGYPTIAN HIEROGLYPH D040" -> 77985
      [] name = "EGYPTIAN HIEROGLYPH D041" -> 77986
      [] name = "EGYPTIAN HIEROGLYPH D042" -> 77987
      [] name = "EGYPTIAN HIEROGLYPH D043" -> 77988
      [] name = "EGYPTIAN HIEROGLYPH D044" -> 77989
      [] name = "EGYPTIAN HIEROGLYPH D045" -> 77990
      [] name = "EGYPTIAN HIEROGLYPH D046" -> 77991
      [] name = "EGYPTIAN HIEROGLYPH D046A" -> 77992
      [] name = "EGYPTIAN HIEROGLYPH D047" -> 77993
      [] name = "EGYPTIAN HIEROGLYPH D048" -> 77994
      [] name = "EGYPTIAN HIEROGLYPH D048A" -> 77995
      [] name = "EGYPTIAN HIEROGLYPH D049" -> 77996
      [] name = "EGYPTIAN HIEROGLYPH D050" -> 77997
      [] name = "EGYPTIAN HIEROGLYPH D050A" -> 77998
      [] name = "EGYPTIAN HIEROGLYPH D050B" -> 77999
      [] name = "EGYPTIAN HIEROGLYPH D050C" -> 78000
      [] name = "EGYPTIAN HIEROGLYPH D050D" -> 78001
      [] name = "EGYPTIAN HIEROGLYPH D050E" -> 78002
      [] name = "EGYPTIAN HIEROGLYPH D050F" -> 78003
      [] name = "EGYPTIAN HIEROGLYPH D050G" -> 78004
      [] name = "EGYPTIAN HIEROGLYPH D050H" -> 78005
      [] name = "EGYPTIAN HIEROGLYPH D050I" -> 78006
      [] name = "EGYPTIAN HIEROGLYPH D051" -> 78007
      [] name = "EGYPTIAN HIEROGLYPH D052" -> 78008
      [] name = "EGYPTIAN HIEROGLYPH D052A" -> 78009
      [] name = "EGYPTIAN HIEROGLYPH D053" -> 78010
      [] name = "EGYPTIAN HIEROGLYPH D054" -> 78011
      [] name = "EGYPTIAN HIEROGLYPH D054A" -> 78012
      [] name = "EGYPTIAN HIEROGLYPH D055" -> 78013
      [] name = "EGYPTIAN HIEROGLYPH D056" -> 78014
      [] name = "EGYPTIAN HIEROGLYPH D057" -> 78015
      [] name = "EGYPTIAN HIEROGLYPH D058" -> 78016
      [] name = "EGYPTIAN HIEROGLYPH D059" -> 78017
      [] name = "EGYPTIAN HIEROGLYPH D060" -> 78018
      [] name = "EGYPTIAN HIEROGLYPH D061" -> 78019
      [] name = "EGYPTIAN HIEROGLYPH D062" -> 78020
      [] name = "EGYPTIAN HIEROGLYPH D063" -> 78021
      [] name = "EGYPTIAN HIEROGLYPH D064" -> 78022
      [] name = "EGYPTIAN HIEROGLYPH D065" -> 78023
      [] name = "EGYPTIAN HIEROGLYPH D066" -> 78024
      [] name = "EGYPTIAN HIEROGLYPH D067" -> 78025
      [] name = "EGYPTIAN HIEROGLYPH D067A" -> 78026
      [] name = "EGYPTIAN HIEROGLYPH D067B" -> 78027
      [] name = "EGYPTIAN HIEROGLYPH D067C" -> 78028
      [] name = "EGYPTIAN HIEROGLYPH D067D" -> 78029
      [] name = "EGYPTIAN HIEROGLYPH D067E" -> 78030
      [] name = "EGYPTIAN HIEROGLYPH D067F" -> 78031
      [] name = "EGYPTIAN HIEROGLYPH D067G" -> 78032
      [] name = "EGYPTIAN HIEROGLYPH D067H" -> 78033
      [] name = "EGYPTIAN HIEROGLYPH E001" -> 78034
      [] name = "EGYPTIAN HIEROGLYPH E002" -> 78035
      [] name = "EGYPTIAN HIEROGLYPH E003" -> 78036
      [] name = "EGYPTIAN HIEROGLYPH E004" -> 78037
      [] name = "EGYPTIAN HIEROGLYPH E005" -> 78038
      [] name = "EGYPTIAN HIEROGLYPH E006" -> 78039
      [] name = "EGYPTIAN HIEROGLYPH E007" -> 78040
      [] name = "EGYPTIAN HIEROGLYPH E008" -> 78041
      [] name = "EGYPTIAN HIEROGLYPH E008A" -> 78042
      [] name = "EGYPTIAN HIEROGLYPH E009" -> 78043
      [] name = "EGYPTIAN HIEROGLYPH E009A" -> 78044
      [] name = "EGYPTIAN HIEROGLYPH E010" -> 78045
      [] name = "EGYPTIAN HIEROGLYPH E011" -> 78046
      [] name = "EGYPTIAN HIEROGLYPH E012" -> 78047
      [] name = "EGYPTIAN HIEROGLYPH E013" -> 78048
      [] name = "EGYPTIAN HIEROGLYPH E014" -> 78049
      [] name = "EGYPTIAN HIEROGLYPH E015" -> 78050
      [] name = "EGYPTIAN HIEROGLYPH E016" -> 78051
      [] name = "EGYPTIAN HIEROGLYPH E016A" -> 78052
      [] name = "EGYPTIAN HIEROGLYPH E017" -> 78053
      [] name = "EGYPTIAN HIEROGLYPH E017A" -> 78054
      [] name = "EGYPTIAN HIEROGLYPH E018" -> 78055
      [] name = "EGYPTIAN HIEROGLYPH E019" -> 78056
      [] name = "EGYPTIAN HIEROGLYPH E020" -> 78057
      [] name = "EGYPTIAN HIEROGLYPH E020A" -> 78058
      [] name = "EGYPTIAN HIEROGLYPH E021" -> 78059
      [] name = "EGYPTIAN HIEROGLYPH E022" -> 78060
      [] name = "EGYPTIAN HIEROGLYPH E023" -> 78061
      [] name = "EGYPTIAN HIEROGLYPH E024" -> 78062
      [] name = "EGYPTIAN HIEROGLYPH E025" -> 78063
      [] name = "EGYPTIAN HIEROGLYPH E026" -> 78064
      [] name = "EGYPTIAN HIEROGLYPH E027" -> 78065
      [] name = "EGYPTIAN HIEROGLYPH E028" -> 78066
      [] name = "EGYPTIAN HIEROGLYPH E028A" -> 78067
      [] name = "EGYPTIAN HIEROGLYPH E029" -> 78068
      [] name = "EGYPTIAN HIEROGLYPH E030" -> 78069
      [] name = "EGYPTIAN HIEROGLYPH E031" -> 78070
      [] name = "EGYPTIAN HIEROGLYPH E032" -> 78071
      [] name = "EGYPTIAN HIEROGLYPH E033" -> 78072
      [] name = "EGYPTIAN HIEROGLYPH E034" -> 78073
      [] name = "EGYPTIAN HIEROGLYPH E034A" -> 78074
      [] name = "EGYPTIAN HIEROGLYPH E036" -> 78075
      [] name = "EGYPTIAN HIEROGLYPH E037" -> 78076
      [] name = "EGYPTIAN HIEROGLYPH E038" -> 78077
      [] name = "EGYPTIAN HIEROGLYPH F001" -> 78078
      [] name = "EGYPTIAN HIEROGLYPH F001A" -> 78079
      [] name = "EGYPTIAN HIEROGLYPH F002" -> 78080
      [] name = "EGYPTIAN HIEROGLYPH F003" -> 78081
      [] name = "EGYPTIAN HIEROGLYPH F004" -> 78082
      [] name = "EGYPTIAN HIEROGLYPH F005" -> 78083
      [] name = "EGYPTIAN HIEROGLYPH F006" -> 78084
      [] name = "EGYPTIAN HIEROGLYPH F007" -> 78085
      [] name = "EGYPTIAN HIEROGLYPH F008" -> 78086
      [] name = "EGYPTIAN HIEROGLYPH F009" -> 78087
      [] name = "EGYPTIAN HIEROGLYPH F010" -> 78088
      [] name = "EGYPTIAN HIEROGLYPH F011" -> 78089
      [] name = "EGYPTIAN HIEROGLYPH F012" -> 78090
      [] name = "EGYPTIAN HIEROGLYPH F013" -> 78091
      [] name = "EGYPTIAN HIEROGLYPH F013A" -> 78092
      [] name = "EGYPTIAN HIEROGLYPH F014" -> 78093
      [] name = "EGYPTIAN HIEROGLYPH F015" -> 78094
      [] name = "EGYPTIAN HIEROGLYPH F016" -> 78095
      [] name = "EGYPTIAN HIEROGLYPH F017" -> 78096
      [] name = "EGYPTIAN HIEROGLYPH F018" -> 78097
      [] name = "EGYPTIAN HIEROGLYPH F019" -> 78098
      [] name = "EGYPTIAN HIEROGLYPH F020" -> 78099
      [] name = "EGYPTIAN HIEROGLYPH F021" -> 78100
      [] name = "EGYPTIAN HIEROGLYPH F021A" -> 78101
      [] name = "EGYPTIAN HIEROGLYPH F022" -> 78102
      [] name = "EGYPTIAN HIEROGLYPH F023" -> 78103
      [] name = "EGYPTIAN HIEROGLYPH F024" -> 78104
      [] name = "EGYPTIAN HIEROGLYPH F025" -> 78105
      [] name = "EGYPTIAN HIEROGLYPH F026" -> 78106
      [] name = "EGYPTIAN HIEROGLYPH F027" -> 78107
      [] name = "EGYPTIAN HIEROGLYPH F028" -> 78108
      [] name = "EGYPTIAN HIEROGLYPH F029" -> 78109
      [] name = "EGYPTIAN HIEROGLYPH F030" -> 78110
      [] name = "EGYPTIAN HIEROGLYPH F031" -> 78111
      [] name = "EGYPTIAN HIEROGLYPH F031A" -> 78112
      [] name = "EGYPTIAN HIEROGLYPH F032" -> 78113
      [] name = "EGYPTIAN HIEROGLYPH F033" -> 78114
      [] name = "EGYPTIAN HIEROGLYPH F034" -> 78115
      [] name = "EGYPTIAN HIEROGLYPH F035" -> 78116
      [] name = "EGYPTIAN HIEROGLYPH F036" -> 78117
      [] name = "EGYPTIAN HIEROGLYPH F037" -> 78118
      [] name = "EGYPTIAN HIEROGLYPH F037A" -> 78119
      [] name = "EGYPTIAN HIEROGLYPH F038" -> 78120
      [] name = "EGYPTIAN HIEROGLYPH F038A" -> 78121
      [] name = "EGYPTIAN HIEROGLYPH F039" -> 78122
      [] name = "EGYPTIAN HIEROGLYPH F040" -> 78123
      [] name = "EGYPTIAN HIEROGLYPH F041" -> 78124
      [] name = "EGYPTIAN HIEROGLYPH F042" -> 78125
      [] name = "EGYPTIAN HIEROGLYPH F043" -> 78126
      [] name = "EGYPTIAN HIEROGLYPH F044" -> 78127
      [] name = "EGYPTIAN HIEROGLYPH F045" -> 78128
      [] name = "EGYPTIAN HIEROGLYPH F045A" -> 78129
      [] name = "EGYPTIAN HIEROGLYPH F046" -> 78130
      [] name = "EGYPTIAN HIEROGLYPH F046A" -> 78131
      [] name = "EGYPTIAN HIEROGLYPH F047" -> 78132
      [] name = "EGYPTIAN HIEROGLYPH F047A" -> 78133
      [] name = "EGYPTIAN HIEROGLYPH F048" -> 78134
      [] name = "EGYPTIAN HIEROGLYPH F049" -> 78135
      [] name = "EGYPTIAN HIEROGLYPH F050" -> 78136
      [] name = "EGYPTIAN HIEROGLYPH F051" -> 78137
      [] name = "EGYPTIAN HIEROGLYPH F051A" -> 78138
      [] name = "EGYPTIAN HIEROGLYPH F051B" -> 78139
      [] name = "EGYPTIAN HIEROGLYPH F051C" -> 78140
      [] name = "EGYPTIAN HIEROGLYPH F052" -> 78141
      [] name = "EGYPTIAN HIEROGLYPH F053" -> 78142
      [] name = "EGYPTIAN HIEROGLYPH G001" -> 78143
      [] name = "EGYPTIAN HIEROGLYPH G002" -> 78144
      [] name = "EGYPTIAN HIEROGLYPH G003" -> 78145
      [] name = "EGYPTIAN HIEROGLYPH G004" -> 78146
      [] name = "EGYPTIAN HIEROGLYPH G005" -> 78147
      [] name = "EGYPTIAN HIEROGLYPH G006" -> 78148
      [] name = "EGYPTIAN HIEROGLYPH G006A" -> 78149
      [] name = "EGYPTIAN HIEROGLYPH G007" -> 78150
      [] name = "EGYPTIAN HIEROGLYPH G007A" -> 78151
      [] name = "EGYPTIAN HIEROGLYPH G007B" -> 78152
      [] name = "EGYPTIAN HIEROGLYPH G008" -> 78153
      [] name = "EGYPTIAN HIEROGLYPH G009" -> 78154
      [] name = "EGYPTIAN HIEROGLYPH G010" -> 78155
      [] name = "EGYPTIAN HIEROGLYPH G011" -> 78156
      [] name = "EGYPTIAN HIEROGLYPH G011A" -> 78157
      [] name = "EGYPTIAN HIEROGLYPH G012" -> 78158
      [] name = "EGYPTIAN HIEROGLYPH G013" -> 78159
      [] name = "EGYPTIAN HIEROGLYPH G014" -> 78160
      [] name = "EGYPTIAN HIEROGLYPH G015" -> 78161
      [] name = "EGYPTIAN HIEROGLYPH G016" -> 78162
      [] name = "EGYPTIAN HIEROGLYPH G017" -> 78163
      [] name = "EGYPTIAN HIEROGLYPH G018" -> 78164
      [] name = "EGYPTIAN HIEROGLYPH G019" -> 78165
      [] name = "EGYPTIAN HIEROGLYPH G020" -> 78166
      [] name = "EGYPTIAN HIEROGLYPH G020A" -> 78167
      [] name = "EGYPTIAN HIEROGLYPH G021" -> 78168
      [] name = "EGYPTIAN HIEROGLYPH G022" -> 78169
      [] name = "EGYPTIAN HIEROGLYPH G023" -> 78170
      [] name = "EGYPTIAN HIEROGLYPH G024" -> 78171
      [] name = "EGYPTIAN HIEROGLYPH G025" -> 78172
      [] name = "EGYPTIAN HIEROGLYPH G026" -> 78173
      [] name = "EGYPTIAN HIEROGLYPH G026A" -> 78174
      [] name = "EGYPTIAN HIEROGLYPH G027" -> 78175
      [] name = "EGYPTIAN HIEROGLYPH G028" -> 78176
      [] name = "EGYPTIAN HIEROGLYPH G029" -> 78177
      [] name = "EGYPTIAN HIEROGLYPH G030" -> 78178
      [] name = "EGYPTIAN HIEROGLYPH G031" -> 78179
      [] name = "EGYPTIAN HIEROGLYPH G032" -> 78180
      [] name = "EGYPTIAN HIEROGLYPH G033" -> 78181
      [] name = "EGYPTIAN HIEROGLYPH G034" -> 78182
      [] name = "EGYPTIAN HIEROGLYPH G035" -> 78183
      [] name = "EGYPTIAN HIEROGLYPH G036" -> 78184
      [] name = "EGYPTIAN HIEROGLYPH G036A" -> 78185
      [] name = "EGYPTIAN HIEROGLYPH G037" -> 78186
      [] name = "EGYPTIAN HIEROGLYPH G037A" -> 78187
      [] name = "EGYPTIAN HIEROGLYPH G038" -> 78188
      [] name = "EGYPTIAN HIEROGLYPH G039" -> 78189
      [] name = "EGYPTIAN HIEROGLYPH G040" -> 78190
      [] name = "EGYPTIAN HIEROGLYPH G041" -> 78191
      [] name = "EGYPTIAN HIEROGLYPH G042" -> 78192
      [] name = "EGYPTIAN HIEROGLYPH G043" -> 78193
      [] name = "EGYPTIAN HIEROGLYPH G043A" -> 78194
      [] name = "EGYPTIAN HIEROGLYPH G044" -> 78195
      [] name = "EGYPTIAN HIEROGLYPH G045" -> 78196
      [] name = "EGYPTIAN HIEROGLYPH G045A" -> 78197
      [] name = "EGYPTIAN HIEROGLYPH G046" -> 78198
      [] name = "EGYPTIAN HIEROGLYPH G047" -> 78199
      [] name = "EGYPTIAN HIEROGLYPH G048" -> 78200
      [] name = "EGYPTIAN HIEROGLYPH G049" -> 78201
      [] name = "EGYPTIAN HIEROGLYPH G050" -> 78202
      [] name = "EGYPTIAN HIEROGLYPH G051" -> 78203
      [] name = "EGYPTIAN HIEROGLYPH G052" -> 78204
      [] name = "EGYPTIAN HIEROGLYPH G053" -> 78205
      [] name = "EGYPTIAN HIEROGLYPH G054" -> 78206
      [] name = "EGYPTIAN HIEROGLYPH H001" -> 78207
      [] name = "EGYPTIAN HIEROGLYPH H002" -> 78208
      [] name = "EGYPTIAN HIEROGLYPH H003" -> 78209
      [] name = "EGYPTIAN HIEROGLYPH H004" -> 78210
      [] name = "EGYPTIAN HIEROGLYPH H005" -> 78211
      [] name = "EGYPTIAN HIEROGLYPH H006" -> 78212
      [] name = "EGYPTIAN HIEROGLYPH H006A" -> 78213
      [] name = "EGYPTIAN HIEROGLYPH H007" -> 78214
      [] name = "EGYPTIAN HIEROGLYPH H008" -> 78215
      [] name = "EGYPTIAN HIEROGLYPH I001" -> 78216
      [] name = "EGYPTIAN HIEROGLYPH I002" -> 78217
      [] name = "EGYPTIAN HIEROGLYPH I003" -> 78218
      [] name = "EGYPTIAN HIEROGLYPH I004" -> 78219
      [] name = "EGYPTIAN HIEROGLYPH I005" -> 78220
      [] name = "EGYPTIAN HIEROGLYPH I005A" -> 78221
      [] name = "EGYPTIAN HIEROGLYPH I006" -> 78222
      [] name = "EGYPTIAN HIEROGLYPH I007" -> 78223
      [] name = "EGYPTIAN HIEROGLYPH I008" -> 78224
      [] name = "EGYPTIAN HIEROGLYPH I009" -> 78225
      [] name = "EGYPTIAN HIEROGLYPH I009A" -> 78226
      [] name = "EGYPTIAN HIEROGLYPH I010" -> 78227
      [] name = "EGYPTIAN HIEROGLYPH I010A" -> 78228
      [] name = "EGYPTIAN HIEROGLYPH I011" -> 78229
      [] name = "EGYPTIAN HIEROGLYPH I011A" -> 78230
      [] name = "EGYPTIAN HIEROGLYPH I012" -> 78231
      [] name = "EGYPTIAN HIEROGLYPH I013" -> 78232
      [] name = "EGYPTIAN HIEROGLYPH I014" -> 78233
      [] name = "EGYPTIAN HIEROGLYPH I015" -> 78234
      [] name = "EGYPTIAN HIEROGLYPH K001" -> 78235
      [] name = "EGYPTIAN HIEROGLYPH K002" -> 78236
      [] name = "EGYPTIAN HIEROGLYPH K003" -> 78237
      [] name = "EGYPTIAN HIEROGLYPH K004" -> 78238
      [] name = "EGYPTIAN HIEROGLYPH K005" -> 78239
      [] name = "EGYPTIAN HIEROGLYPH K006" -> 78240
      [] name = "EGYPTIAN HIEROGLYPH K007" -> 78241
      [] name = "EGYPTIAN HIEROGLYPH K008" -> 78242
      [] name = "EGYPTIAN HIEROGLYPH L001" -> 78243
      [] name = "EGYPTIAN HIEROGLYPH L002" -> 78244
      [] name = "EGYPTIAN HIEROGLYPH L002A" -> 78245
      [] name = "EGYPTIAN HIEROGLYPH L003" -> 78246
      [] name = "EGYPTIAN HIEROGLYPH L004" -> 78247
      [] name = "EGYPTIAN HIEROGLYPH L005" -> 78248
      [] name = "EGYPTIAN HIEROGLYPH L006" -> 78249
      [] name = "EGYPTIAN HIEROGLYPH L006A" -> 78250
      [] name = "EGYPTIAN HIEROGLYPH L007" -> 78251
      [] name = "EGYPTIAN HIEROGLYPH L008" -> 78252
      [] name = "EGYPTIAN HIEROGLYPH M001" -> 78253
      [] name = "EGYPTIAN HIEROGLYPH M001A" -> 78254
      [] name = "EGYPTIAN HIEROGLYPH M001B" -> 78255
      [] name = "EGYPTIAN HIEROGLYPH M002" -> 78256
      [] name = "EGYPTIAN HIEROGLYPH M003" -> 78257
      [] name = "EGYPTIAN HIEROGLYPH M003A" -> 78258
      [] name = "EGYPTIAN HIEROGLYPH M004" -> 78259
      [] name = "EGYPTIAN HIEROGLYPH M005" -> 78260
      [] name = "EGYPTIAN HIEROGLYPH M006" -> 78261
      [] name = "EGYPTIAN HIEROGLYPH M007" -> 78262
      [] name = "EGYPTIAN HIEROGLYPH M008" -> 78263
      [] name = "EGYPTIAN HIEROGLYPH M009" -> 78264
      [] name = "EGYPTIAN HIEROGLYPH M010" -> 78265
      [] name = "EGYPTIAN HIEROGLYPH M010A" -> 78266
      [] name = "EGYPTIAN HIEROGLYPH M011" -> 78267
      [] name = "EGYPTIAN HIEROGLYPH M012" -> 78268
      [] name = "EGYPTIAN HIEROGLYPH M012A" -> 78269
      [] name = "EGYPTIAN HIEROGLYPH M012B" -> 78270
      [] name = "EGYPTIAN HIEROGLYPH M012C" -> 78271
      [] name = "EGYPTIAN HIEROGLYPH M012D" -> 78272
      [] name = "EGYPTIAN HIEROGLYPH M012E" -> 78273
      [] name = "EGYPTIAN HIEROGLYPH M012F" -> 78274
      [] name = "EGYPTIAN HIEROGLYPH M012G" -> 78275
      [] name = "EGYPTIAN HIEROGLYPH M012H" -> 78276
      [] name = "EGYPTIAN HIEROGLYPH M013" -> 78277
      [] name = "EGYPTIAN HIEROGLYPH M014" -> 78278
      [] name = "EGYPTIAN HIEROGLYPH M015" -> 78279
      [] name = "EGYPTIAN HIEROGLYPH M015A" -> 78280
      [] name = "EGYPTIAN HIEROGLYPH M016" -> 78281
      [] name = "EGYPTIAN HIEROGLYPH M016A" -> 78282
      [] name = "EGYPTIAN HIEROGLYPH M017" -> 78283
      [] name = "EGYPTIAN HIEROGLYPH M017A" -> 78284
      [] name = "EGYPTIAN HIEROGLYPH M018" -> 78285
      [] name = "EGYPTIAN HIEROGLYPH M019" -> 78286
      [] name = "EGYPTIAN HIEROGLYPH M020" -> 78287
      [] name = "EGYPTIAN HIEROGLYPH M021" -> 78288
      [] name = "EGYPTIAN HIEROGLYPH M022" -> 78289
      [] name = "EGYPTIAN HIEROGLYPH M022A" -> 78290
      [] name = "EGYPTIAN HIEROGLYPH M023" -> 78291
      [] name = "EGYPTIAN HIEROGLYPH M024" -> 78292
      [] name = "EGYPTIAN HIEROGLYPH M024A" -> 78293
      [] name = "EGYPTIAN HIEROGLYPH M025" -> 78294
      [] name = "EGYPTIAN HIEROGLYPH M026" -> 78295
      [] name = "EGYPTIAN HIEROGLYPH M027" -> 78296
      [] name = "EGYPTIAN HIEROGLYPH M028" -> 78297
      [] name = "EGYPTIAN HIEROGLYPH M028A" -> 78298
      [] name = "EGYPTIAN HIEROGLYPH M029" -> 78299
      [] name = "EGYPTIAN HIEROGLYPH M030" -> 78300
      [] name = "EGYPTIAN HIEROGLYPH M031" -> 78301
      [] name = "EGYPTIAN HIEROGLYPH M031A" -> 78302
      [] name = "EGYPTIAN HIEROGLYPH M032" -> 78303
      [] name = "EGYPTIAN HIEROGLYPH M033" -> 78304
      [] name = "EGYPTIAN HIEROGLYPH M033A" -> 78305
      [] name = "EGYPTIAN HIEROGLYPH M033B" -> 78306
      [] name = "EGYPTIAN HIEROGLYPH M034" -> 78307
      [] name = "EGYPTIAN HIEROGLYPH M035" -> 78308
      [] name = "EGYPTIAN HIEROGLYPH M036" -> 78309
      [] name = "EGYPTIAN HIEROGLYPH M037" -> 78310
      [] name = "EGYPTIAN HIEROGLYPH M038" -> 78311
      [] name = "EGYPTIAN HIEROGLYPH M039" -> 78312
      [] name = "EGYPTIAN HIEROGLYPH M040" -> 78313
      [] name = "EGYPTIAN HIEROGLYPH M040A" -> 78314
      [] name = "EGYPTIAN HIEROGLYPH M041" -> 78315
      [] name = "EGYPTIAN HIEROGLYPH M042" -> 78316
      [] name = "EGYPTIAN HIEROGLYPH M043" -> 78317
      [] name = "EGYPTIAN HIEROGLYPH M044" -> 78318
      [] name = "EGYPTIAN HIEROGLYPH N001" -> 78319
      [] name = "EGYPTIAN HIEROGLYPH N002" -> 78320
      [] name = "EGYPTIAN HIEROGLYPH N003" -> 78321
      [] name = "EGYPTIAN HIEROGLYPH N004" -> 78322
      [] name = "EGYPTIAN HIEROGLYPH N005" -> 78323
      [] name = "EGYPTIAN HIEROGLYPH N006" -> 78324
      [] name = "EGYPTIAN HIEROGLYPH N007" -> 78325
      [] name = "EGYPTIAN HIEROGLYPH N008" -> 78326
      [] name = "EGYPTIAN HIEROGLYPH N009" -> 78327
      [] name = "EGYPTIAN HIEROGLYPH N010" -> 78328
      [] name = "EGYPTIAN HIEROGLYPH N011" -> 78329
      [] name = "EGYPTIAN HIEROGLYPH N012" -> 78330
      [] name = "EGYPTIAN HIEROGLYPH N013" -> 78331
      [] name = "EGYPTIAN HIEROGLYPH N014" -> 78332
      [] name = "EGYPTIAN HIEROGLYPH N015" -> 78333
      [] name = "EGYPTIAN HIEROGLYPH N016" -> 78334
      [] name = "EGYPTIAN HIEROGLYPH N017" -> 78335
      [] name = "EGYPTIAN HIEROGLYPH N018" -> 78336
      [] name = "EGYPTIAN HIEROGLYPH N018A" -> 78337
      [] name = "EGYPTIAN HIEROGLYPH N018B" -> 78338
      [] name = "EGYPTIAN HIEROGLYPH N019" -> 78339
      [] name = "EGYPTIAN HIEROGLYPH N020" -> 78340
      [] name = "EGYPTIAN HIEROGLYPH N021" -> 78341
      [] name = "EGYPTIAN HIEROGLYPH N022" -> 78342
      [] name = "EGYPTIAN HIEROGLYPH N023" -> 78343
      [] name = "EGYPTIAN HIEROGLYPH N024" -> 78344
      [] name = "EGYPTIAN HIEROGLYPH N025" -> 78345
      [] name = "EGYPTIAN HIEROGLYPH N025A" -> 78346
      [] name = "EGYPTIAN HIEROGLYPH N026" -> 78347
      [] name = "EGYPTIAN HIEROGLYPH N027" -> 78348
      [] name = "EGYPTIAN HIEROGLYPH N028" -> 78349
      [] name = "EGYPTIAN HIEROGLYPH N029" -> 78350
      [] name = "EGYPTIAN HIEROGLYPH N030" -> 78351
      [] name = "EGYPTIAN HIEROGLYPH N031" -> 78352
      [] name = "EGYPTIAN HIEROGLYPH N032" -> 78353
      [] name = "EGYPTIAN HIEROGLYPH N033" -> 78354
      [] name = "EGYPTIAN HIEROGLYPH N033A" -> 78355
      [] name = "EGYPTIAN HIEROGLYPH N034" -> 78356
      [] name = "EGYPTIAN HIEROGLYPH N034A" -> 78357
      [] name = "EGYPTIAN HIEROGLYPH N035" -> 78358
      [] name = "EGYPTIAN HIEROGLYPH N035A" -> 78359
      [] name = "EGYPTIAN HIEROGLYPH N036" -> 78360
      [] name = "EGYPTIAN HIEROGLYPH N037" -> 78361
      [] name = "EGYPTIAN HIEROGLYPH N037A" -> 78362
      [] name = "EGYPTIAN HIEROGLYPH N038" -> 78363
      [] name = "EGYPTIAN HIEROGLYPH N039" -> 78364
      [] name = "EGYPTIAN HIEROGLYPH N040" -> 78365
      [] name = "EGYPTIAN HIEROGLYPH N041" -> 78366
      [] name = "EGYPTIAN HIEROGLYPH N042" -> 78367
      [] name = "EGYPTIAN HIEROGLYPH NL001" -> 78368
      [] name = "EGYPTIAN HIEROGLYPH NL002" -> 78369
      [] name = "EGYPTIAN HIEROGLYPH NL003" -> 78370
      [] name = "EGYPTIAN HIEROGLYPH NL004" -> 78371
      [] name = "EGYPTIAN HIEROGLYPH NL005" -> 78372
      [] name = "EGYPTIAN HIEROGLYPH NL005A" -> 78373
      [] name = "EGYPTIAN HIEROGLYPH NL006" -> 78374
      [] name = "EGYPTIAN HIEROGLYPH NL007" -> 78375
      [] name = "EGYPTIAN HIEROGLYPH NL008" -> 78376
      [] name = "EGYPTIAN HIEROGLYPH NL009" -> 78377
      [] name = "EGYPTIAN HIEROGLYPH NL010" -> 78378
      [] name = "EGYPTIAN HIEROGLYPH NL011" -> 78379
      [] name = "EGYPTIAN HIEROGLYPH NL012" -> 78380
      [] name = "EGYPTIAN HIEROGLYPH NL013" -> 78381
      [] name = "EGYPTIAN HIEROGLYPH NL014" -> 78382
      [] name = "EGYPTIAN HIEROGLYPH NL015" -> 78383
      [] name = "EGYPTIAN HIEROGLYPH NL016" -> 78384
      [] name = "EGYPTIAN HIEROGLYPH NL017" -> 78385
      [] name = "EGYPTIAN HIEROGLYPH NL017A" -> 78386
      [] name = "EGYPTIAN HIEROGLYPH NL018" -> 78387
      [] name = "EGYPTIAN HIEROGLYPH NL019" -> 78388
      [] name = "EGYPTIAN HIEROGLYPH NL020" -> 78389
      [] name = "EGYPTIAN HIEROGLYPH NU001" -> 78390
      [] name = "EGYPTIAN HIEROGLYPH NU002" -> 78391
      [] name = "EGYPTIAN HIEROGLYPH NU003" -> 78392
      [] name = "EGYPTIAN HIEROGLYPH NU004" -> 78393
      [] name = "EGYPTIAN HIEROGLYPH NU005" -> 78394
      [] name = "EGYPTIAN HIEROGLYPH NU006" -> 78395
      [] name = "EGYPTIAN HIEROGLYPH NU007" -> 78396
      [] name = "EGYPTIAN HIEROGLYPH NU008" -> 78397
      [] name = "EGYPTIAN HIEROGLYPH NU009" -> 78398
      [] name = "EGYPTIAN HIEROGLYPH NU010" -> 78399
      [] name = "EGYPTIAN HIEROGLYPH NU010A" -> 78400
      [] name = "EGYPTIAN HIEROGLYPH NU011" -> 78401
      [] name = "EGYPTIAN HIEROGLYPH NU011A" -> 78402
      [] name = "EGYPTIAN HIEROGLYPH NU012" -> 78403
      [] name = "EGYPTIAN HIEROGLYPH NU013" -> 78404
      [] name = "EGYPTIAN HIEROGLYPH NU014" -> 78405
      [] name = "EGYPTIAN HIEROGLYPH NU015" -> 78406
      [] name = "EGYPTIAN HIEROGLYPH NU016" -> 78407
      [] name = "EGYPTIAN HIEROGLYPH NU017" -> 78408
      [] name = "EGYPTIAN HIEROGLYPH NU018" -> 78409
      [] name = "EGYPTIAN HIEROGLYPH NU018A" -> 78410
      [] name = "EGYPTIAN HIEROGLYPH NU019" -> 78411
      [] name = "EGYPTIAN HIEROGLYPH NU020" -> 78412
      [] name = "EGYPTIAN HIEROGLYPH NU021" -> 78413
      [] name = "EGYPTIAN HIEROGLYPH NU022" -> 78414
      [] name = "EGYPTIAN HIEROGLYPH NU022A" -> 78415
      [] name = "EGYPTIAN HIEROGLYPH O001" -> 78416
      [] name = "EGYPTIAN HIEROGLYPH O001A" -> 78417
      [] name = "EGYPTIAN HIEROGLYPH O002" -> 78418
      [] name = "EGYPTIAN HIEROGLYPH O003" -> 78419
      [] name = "EGYPTIAN HIEROGLYPH O004" -> 78420
      [] name = "EGYPTIAN HIEROGLYPH O005" -> 78421
      [] name = "EGYPTIAN HIEROGLYPH O005A" -> 78422
      [] name = "EGYPTIAN HIEROGLYPH O006" -> 78423
      [] name = "EGYPTIAN HIEROGLYPH O006A" -> 78424
      [] name = "EGYPTIAN HIEROGLYPH O006B" -> 78425
      [] name = "EGYPTIAN HIEROGLYPH O006C" -> 78426
      [] name = "EGYPTIAN HIEROGLYPH O006D" -> 78427
      [] name = "EGYPTIAN HIEROGLYPH O006E" -> 78428
      [] name = "EGYPTIAN HIEROGLYPH O006F" -> 78429
      [] name = "EGYPTIAN HIEROGLYPH O007" -> 78430
      [] name = "EGYPTIAN HIEROGLYPH O008" -> 78431
      [] name = "EGYPTIAN HIEROGLYPH O009" -> 78432
      [] name = "EGYPTIAN HIEROGLYPH O010" -> 78433
      [] name = "EGYPTIAN HIEROGLYPH O010A" -> 78434
      [] name = "EGYPTIAN HIEROGLYPH O010B" -> 78435
      [] name = "EGYPTIAN HIEROGLYPH O010C" -> 78436
      [] name = "EGYPTIAN HIEROGLYPH O011" -> 78437
      [] name = "EGYPTIAN HIEROGLYPH O012" -> 78438
      [] name = "EGYPTIAN HIEROGLYPH O013" -> 78439
      [] name = "EGYPTIAN HIEROGLYPH O014" -> 78440
      [] name = "EGYPTIAN HIEROGLYPH O015" -> 78441
      [] name = "EGYPTIAN HIEROGLYPH O016" -> 78442
      [] name = "EGYPTIAN HIEROGLYPH O017" -> 78443
      [] name = "EGYPTIAN HIEROGLYPH O018" -> 78444
      [] name = "EGYPTIAN HIEROGLYPH O019" -> 78445
      [] name = "EGYPTIAN HIEROGLYPH O019A" -> 78446
      [] name = "EGYPTIAN HIEROGLYPH O020" -> 78447
      [] name = "EGYPTIAN HIEROGLYPH O020A" -> 78448
      [] name = "EGYPTIAN HIEROGLYPH O021" -> 78449
      [] name = "EGYPTIAN HIEROGLYPH O022" -> 78450
      [] name = "EGYPTIAN HIEROGLYPH O023" -> 78451
      [] name = "EGYPTIAN HIEROGLYPH O024" -> 78452
      [] name = "EGYPTIAN HIEROGLYPH O024A" -> 78453
      [] name = "EGYPTIAN HIEROGLYPH O025" -> 78454
      [] name = "EGYPTIAN HIEROGLYPH O025A" -> 78455
      [] name = "EGYPTIAN HIEROGLYPH O026" -> 78456
      [] name = "EGYPTIAN HIEROGLYPH O027" -> 78457
      [] name = "EGYPTIAN HIEROGLYPH O028" -> 78458
      [] name = "EGYPTIAN HIEROGLYPH O029" -> 78459
      [] name = "EGYPTIAN HIEROGLYPH O029A" -> 78460
      [] name = "EGYPTIAN HIEROGLYPH O030" -> 78461
      [] name = "EGYPTIAN HIEROGLYPH O030A" -> 78462
      [] name = "EGYPTIAN HIEROGLYPH O031" -> 78463
      [] name = "EGYPTIAN HIEROGLYPH O032" -> 78464
      [] name = "EGYPTIAN HIEROGLYPH O033" -> 78465
      [] name = "EGYPTIAN HIEROGLYPH O033A" -> 78466
      [] name = "EGYPTIAN HIEROGLYPH O034" -> 78467
      [] name = "EGYPTIAN HIEROGLYPH O035" -> 78468
      [] name = "EGYPTIAN HIEROGLYPH O036" -> 78469
      [] name = "EGYPTIAN HIEROGLYPH O036A" -> 78470
      [] name = "EGYPTIAN HIEROGLYPH O036B" -> 78471
      [] name = "EGYPTIAN HIEROGLYPH O036C" -> 78472
      [] name = "EGYPTIAN HIEROGLYPH O036D" -> 78473
      [] name = "EGYPTIAN HIEROGLYPH O037" -> 78474
      [] name = "EGYPTIAN HIEROGLYPH O038" -> 78475
      [] name = "EGYPTIAN HIEROGLYPH O039" -> 78476
      [] name = "EGYPTIAN HIEROGLYPH O040" -> 78477
      [] name = "EGYPTIAN HIEROGLYPH O041" -> 78478
      [] name = "EGYPTIAN HIEROGLYPH O042" -> 78479
      [] name = "EGYPTIAN HIEROGLYPH O043" -> 78480
      [] name = "EGYPTIAN HIEROGLYPH O044" -> 78481
      [] name = "EGYPTIAN HIEROGLYPH O045" -> 78482
      [] name = "EGYPTIAN HIEROGLYPH O046" -> 78483
      [] name = "EGYPTIAN HIEROGLYPH O047" -> 78484
      [] name = "EGYPTIAN HIEROGLYPH O048" -> 78485
      [] name = "EGYPTIAN HIEROGLYPH O049" -> 78486
      [] name = "EGYPTIAN HIEROGLYPH O050" -> 78487
      [] name = "EGYPTIAN HIEROGLYPH O050A" -> 78488
      [] name = "EGYPTIAN HIEROGLYPH O050B" -> 78489
      [] name = "EGYPTIAN HIEROGLYPH O051" -> 78490
      [] name = "EGYPTIAN HIEROGLYPH P001" -> 78491
      [] name = "EGYPTIAN HIEROGLYPH P001A" -> 78492
      [] name = "EGYPTIAN HIEROGLYPH P002" -> 78493
      [] name = "EGYPTIAN HIEROGLYPH P003" -> 78494
      [] name = "EGYPTIAN HIEROGLYPH P003A" -> 78495
      [] name = "EGYPTIAN HIEROGLYPH P004" -> 78496
      [] name = "EGYPTIAN HIEROGLYPH P005" -> 78497
      [] name = "EGYPTIAN HIEROGLYPH P006" -> 78498
      [] name = "EGYPTIAN HIEROGLYPH P007" -> 78499
      [] name = "EGYPTIAN HIEROGLYPH P008" -> 78500
      [] name = "EGYPTIAN HIEROGLYPH P009" -> 78501
      [] name = "EGYPTIAN HIEROGLYPH P010" -> 78502
      [] name = "EGYPTIAN HIEROGLYPH P011" -> 78503
      [] name = "EGYPTIAN HIEROGLYPH Q001" -> 78504
      [] name = "EGYPTIAN HIEROGLYPH Q002" -> 78505
      [] name = "EGYPTIAN HIEROGLYPH Q003" -> 78506
      [] name = "EGYPTIAN HIEROGLYPH Q004" -> 78507
      [] name = "EGYPTIAN HIEROGLYPH Q005" -> 78508
      [] name = "EGYPTIAN HIEROGLYPH Q006" -> 78509
      [] name = "EGYPTIAN HIEROGLYPH Q007" -> 78510
      [] name = "EGYPTIAN HIEROGLYPH R001" -> 78511
      [] name = "EGYPTIAN HIEROGLYPH R002" -> 78512
      [] name = "EGYPTIAN HIEROGLYPH R002A" -> 78513
      [] name = "EGYPTIAN HIEROGLYPH R003" -> 78514
      [] name = "EGYPTIAN HIEROGLYPH R003A" -> 78515
      [] name = "EGYPTIAN HIEROGLYPH R003B" -> 78516
      [] name = "EGYPTIAN HIEROGLYPH R004" -> 78517
      [] name = "EGYPTIAN HIEROGLYPH R005" -> 78518
      [] name = "EGYPTIAN HIEROGLYPH R006" -> 78519
      [] name = "EGYPTIAN HIEROGLYPH R007" -> 78520
      [] name = "EGYPTIAN HIEROGLYPH R008" -> 78521
      [] name = "EGYPTIAN HIEROGLYPH R009" -> 78522
      [] name = "EGYPTIAN HIEROGLYPH R010" -> 78523
      [] name = "EGYPTIAN HIEROGLYPH R010A" -> 78524
      [] name = "EGYPTIAN HIEROGLYPH R011" -> 78525
      [] name = "EGYPTIAN HIEROGLYPH R012" -> 78526
      [] name = "EGYPTIAN HIEROGLYPH R013" -> 78527
      [] name = "EGYPTIAN HIEROGLYPH R014" -> 78528
      [] name = "EGYPTIAN HIEROGLYPH R015" -> 78529
      [] name = "EGYPTIAN HIEROGLYPH R016" -> 78530
      [] name = "EGYPTIAN HIEROGLYPH R016A" -> 78531
      [] name = "EGYPTIAN HIEROGLYPH R017" -> 78532
      [] name = "EGYPTIAN HIEROGLYPH R018" -> 78533
      [] name = "EGYPTIAN HIEROGLYPH R019" -> 78534
      [] name = "EGYPTIAN HIEROGLYPH R020" -> 78535
      [] name = "EGYPTIAN HIEROGLYPH R021" -> 78536
      [] name = "EGYPTIAN HIEROGLYPH R022" -> 78537
      [] name = "EGYPTIAN HIEROGLYPH R023" -> 78538
      [] name = "EGYPTIAN HIEROGLYPH R024" -> 78539
      [] name = "EGYPTIAN HIEROGLYPH R025" -> 78540
      [] name = "EGYPTIAN HIEROGLYPH R026" -> 78541
      [] name = "EGYPTIAN HIEROGLYPH R027" -> 78542
      [] name = "EGYPTIAN HIEROGLYPH R028" -> 78543
      [] name = "EGYPTIAN HIEROGLYPH R029" -> 78544
      [] name = "EGYPTIAN HIEROGLYPH S001" -> 78545
      [] name = "EGYPTIAN HIEROGLYPH S002" -> 78546
      [] name = "EGYPTIAN HIEROGLYPH S002A" -> 78547
      [] name = "EGYPTIAN HIEROGLYPH S003" -> 78548
      [] name = "EGYPTIAN HIEROGLYPH S004" -> 78549
      [] name = "EGYPTIAN HIEROGLYPH S005" -> 78550
      [] name = "EGYPTIAN HIEROGLYPH S006" -> 78551
      [] name = "EGYPTIAN HIEROGLYPH S006A" -> 78552
      [] name = "EGYPTIAN HIEROGLYPH S007" -> 78553
      [] name = "EGYPTIAN HIEROGLYPH S008" -> 78554
      [] name = "EGYPTIAN HIEROGLYPH S009" -> 78555
      [] name = "EGYPTIAN HIEROGLYPH S010" -> 78556
      [] name = "EGYPTIAN HIEROGLYPH S011" -> 78557
      [] name = "EGYPTIAN HIEROGLYPH S012" -> 78558
      [] name = "EGYPTIAN HIEROGLYPH S013" -> 78559
      [] name = "EGYPTIAN HIEROGLYPH S014" -> 78560
      [] name = "EGYPTIAN HIEROGLYPH S014A" -> 78561
      [] name = "EGYPTIAN HIEROGLYPH S014B" -> 78562
      [] name = "EGYPTIAN HIEROGLYPH S015" -> 78563
      [] name = "EGYPTIAN HIEROGLYPH S016" -> 78564
      [] name = "EGYPTIAN HIEROGLYPH S017" -> 78565
      [] name = "EGYPTIAN HIEROGLYPH S017A" -> 78566
      [] name = "EGYPTIAN HIEROGLYPH S018" -> 78567
      [] name = "EGYPTIAN HIEROGLYPH S019" -> 78568
      [] name = "EGYPTIAN HIEROGLYPH S020" -> 78569
      [] name = "EGYPTIAN HIEROGLYPH S021" -> 78570
      [] name = "EGYPTIAN HIEROGLYPH S022" -> 78571
      [] name = "EGYPTIAN HIEROGLYPH S023" -> 78572
      [] name = "EGYPTIAN HIEROGLYPH S024" -> 78573
      [] name = "EGYPTIAN HIEROGLYPH S025" -> 78574
      [] name = "EGYPTIAN HIEROGLYPH S026" -> 78575
      [] name = "EGYPTIAN HIEROGLYPH S026A" -> 78576
      [] name = "EGYPTIAN HIEROGLYPH S026B" -> 78577
      [] name = "EGYPTIAN HIEROGLYPH S027" -> 78578
      [] name = "EGYPTIAN HIEROGLYPH S028" -> 78579
      [] name = "EGYPTIAN HIEROGLYPH S029" -> 78580
      [] name = "EGYPTIAN HIEROGLYPH S030" -> 78581
      [] name = "EGYPTIAN HIEROGLYPH S031" -> 78582
      [] name = "EGYPTIAN HIEROGLYPH S032" -> 78583
      [] name = "EGYPTIAN HIEROGLYPH S033" -> 78584
      [] name = "EGYPTIAN HIEROGLYPH S034" -> 78585
      [] name = "EGYPTIAN HIEROGLYPH S035" -> 78586
      [] name = "EGYPTIAN HIEROGLYPH S035A" -> 78587
      [] name = "EGYPTIAN HIEROGLYPH S036" -> 78588
      [] name = "EGYPTIAN HIEROGLYPH S037" -> 78589
      [] name = "EGYPTIAN HIEROGLYPH S038" -> 78590
      [] name = "EGYPTIAN HIEROGLYPH S039" -> 78591
      [] name = "EGYPTIAN HIEROGLYPH S040" -> 78592
      [] name = "EGYPTIAN HIEROGLYPH S041" -> 78593
      [] name = "EGYPTIAN HIEROGLYPH S042" -> 78594
      [] name = "EGYPTIAN HIEROGLYPH S043" -> 78595
      [] name = "EGYPTIAN HIEROGLYPH S044" -> 78596
      [] name = "EGYPTIAN HIEROGLYPH S045" -> 78597
      [] name = "EGYPTIAN HIEROGLYPH S046" -> 78598
      [] name = "EGYPTIAN HIEROGLYPH T001" -> 78599
      [] name = "EGYPTIAN HIEROGLYPH T002" -> 78600
      [] name = "EGYPTIAN HIEROGLYPH T003" -> 78601
      [] name = "EGYPTIAN HIEROGLYPH T003A" -> 78602
      [] name = "EGYPTIAN HIEROGLYPH T004" -> 78603
      [] name = "EGYPTIAN HIEROGLYPH T005" -> 78604
      [] name = "EGYPTIAN HIEROGLYPH T006" -> 78605
      [] name = "EGYPTIAN HIEROGLYPH T007" -> 78606
      [] name = "EGYPTIAN HIEROGLYPH T007A" -> 78607
      [] name = "EGYPTIAN HIEROGLYPH T008" -> 78608
      [] name = "EGYPTIAN HIEROGLYPH T008A" -> 78609
      [] name = "EGYPTIAN HIEROGLYPH T009" -> 78610
      [] name = "EGYPTIAN HIEROGLYPH T009A" -> 78611
      [] name = "EGYPTIAN HIEROGLYPH T010" -> 78612
      [] name = "EGYPTIAN HIEROGLYPH T011" -> 78613
      [] name = "EGYPTIAN HIEROGLYPH T011A" -> 78614
      [] name = "EGYPTIAN HIEROGLYPH T012" -> 78615
      [] name = "EGYPTIAN HIEROGLYPH T013" -> 78616
      [] name = "EGYPTIAN HIEROGLYPH T014" -> 78617
      [] name = "EGYPTIAN HIEROGLYPH T015" -> 78618
      [] name = "EGYPTIAN HIEROGLYPH T016" -> 78619
      [] name = "EGYPTIAN HIEROGLYPH T016A" -> 78620
      [] name = "EGYPTIAN HIEROGLYPH T017" -> 78621
      [] name = "EGYPTIAN HIEROGLYPH T018" -> 78622
      [] name = "EGYPTIAN HIEROGLYPH T019" -> 78623
      [] name = "EGYPTIAN HIEROGLYPH T020" -> 78624
      [] name = "EGYPTIAN HIEROGLYPH T021" -> 78625
      [] name = "EGYPTIAN HIEROGLYPH T022" -> 78626
      [] name = "EGYPTIAN HIEROGLYPH T023" -> 78627
      [] name = "EGYPTIAN HIEROGLYPH T024" -> 78628
      [] name = "EGYPTIAN HIEROGLYPH T025" -> 78629
      [] name = "EGYPTIAN HIEROGLYPH T026" -> 78630
      [] name = "EGYPTIAN HIEROGLYPH T027" -> 78631
      [] name = "EGYPTIAN HIEROGLYPH T028" -> 78632
      [] name = "EGYPTIAN HIEROGLYPH T029" -> 78633
      [] name = "EGYPTIAN HIEROGLYPH T030" -> 78634
      [] name = "EGYPTIAN HIEROGLYPH T031" -> 78635
      [] name = "EGYPTIAN HIEROGLYPH T032" -> 78636
      [] name = "EGYPTIAN HIEROGLYPH T032A" -> 78637
      [] name = "EGYPTIAN HIEROGLYPH T033" -> 78638
      [] name = "EGYPTIAN HIEROGLYPH T033A" -> 78639
      [] name = "EGYPTIAN HIEROGLYPH T034" -> 78640
      [] name = "EGYPTIAN HIEROGLYPH T035" -> 78641
      [] name = "EGYPTIAN HIEROGLYPH T036" -> 78642
      [] name = "EGYPTIAN HIEROGLYPH U001" -> 78643
      [] name = "EGYPTIAN HIEROGLYPH U002" -> 78644
      [] name = "EGYPTIAN HIEROGLYPH U003" -> 78645
      [] name = "EGYPTIAN HIEROGLYPH U004" -> 78646
      [] name = "EGYPTIAN HIEROGLYPH U005" -> 78647
      [] name = "EGYPTIAN HIEROGLYPH U006" -> 78648
      [] name = "EGYPTIAN HIEROGLYPH U006A" -> 78649
      [] name = "EGYPTIAN HIEROGLYPH U006B" -> 78650
      [] name = "EGYPTIAN HIEROGLYPH U007" -> 78651
      [] name = "EGYPTIAN HIEROGLYPH U008" -> 78652
      [] name = "EGYPTIAN HIEROGLYPH U009" -> 78653
      [] name = "EGYPTIAN HIEROGLYPH U010" -> 78654
      [] name = "EGYPTIAN HIEROGLYPH U011" -> 78655
      [] name = "EGYPTIAN HIEROGLYPH U012" -> 78656
      [] name = "EGYPTIAN HIEROGLYPH U013" -> 78657
      [] name = "EGYPTIAN HIEROGLYPH U014" -> 78658
      [] name = "EGYPTIAN HIEROGLYPH U015" -> 78659
      [] name = "EGYPTIAN HIEROGLYPH U016" -> 78660
      [] name = "EGYPTIAN HIEROGLYPH U017" -> 78661
      [] name = "EGYPTIAN HIEROGLYPH U018" -> 78662
      [] name = "EGYPTIAN HIEROGLYPH U019" -> 78663
      [] name = "EGYPTIAN HIEROGLYPH U020" -> 78664
      [] name = "EGYPTIAN HIEROGLYPH U021" -> 78665
      [] name = "EGYPTIAN HIEROGLYPH U022" -> 78666
      [] name = "EGYPTIAN HIEROGLYPH U023" -> 78667
      [] name = "EGYPTIAN HIEROGLYPH U023A" -> 78668
      [] name = "EGYPTIAN HIEROGLYPH U024" -> 78669
      [] name = "EGYPTIAN HIEROGLYPH U025" -> 78670
      [] name = "EGYPTIAN HIEROGLYPH U026" -> 78671
      [] name = "EGYPTIAN HIEROGLYPH U027" -> 78672
      [] name = "EGYPTIAN HIEROGLYPH U028" -> 78673
      [] name = "EGYPTIAN HIEROGLYPH U029" -> 78674
      [] name = "EGYPTIAN HIEROGLYPH U029A" -> 78675
      [] name = "EGYPTIAN HIEROGLYPH U030" -> 78676
      [] name = "EGYPTIAN HIEROGLYPH U031" -> 78677
      [] name = "EGYPTIAN HIEROGLYPH U032" -> 78678
      [] name = "EGYPTIAN HIEROGLYPH U032A" -> 78679
      [] name = "EGYPTIAN HIEROGLYPH U033" -> 78680
      [] name = "EGYPTIAN HIEROGLYPH U034" -> 78681
      [] name = "EGYPTIAN HIEROGLYPH U035" -> 78682
      [] name = "EGYPTIAN HIEROGLYPH U036" -> 78683
      [] name = "EGYPTIAN HIEROGLYPH U037" -> 78684
      [] name = "EGYPTIAN HIEROGLYPH U038" -> 78685
      [] name = "EGYPTIAN HIEROGLYPH U039" -> 78686
      [] name = "EGYPTIAN HIEROGLYPH U040" -> 78687
      [] name = "EGYPTIAN HIEROGLYPH U041" -> 78688
      [] name = "EGYPTIAN HIEROGLYPH U042" -> 78689
      [] name = "EGYPTIAN HIEROGLYPH V001" -> 78690
      [] name = "EGYPTIAN HIEROGLYPH V001A" -> 78691
      [] name = "EGYPTIAN HIEROGLYPH V001B" -> 78692
      [] name = "EGYPTIAN HIEROGLYPH V001C" -> 78693
      [] name = "EGYPTIAN HIEROGLYPH V001D" -> 78694
      [] name = "EGYPTIAN HIEROGLYPH V001E" -> 78695
      [] name = "EGYPTIAN HIEROGLYPH V001F" -> 78696
      [] name = "EGYPTIAN HIEROGLYPH V001G" -> 78697
      [] name = "EGYPTIAN HIEROGLYPH V001H" -> 78698
      [] name = "EGYPTIAN HIEROGLYPH V001I" -> 78699
      [] name = "EGYPTIAN HIEROGLYPH V002" -> 78700
      [] name = "EGYPTIAN HIEROGLYPH V002A" -> 78701
      [] name = "EGYPTIAN HIEROGLYPH V003" -> 78702
      [] name = "EGYPTIAN HIEROGLYPH V004" -> 78703
      [] name = "EGYPTIAN HIEROGLYPH V005" -> 78704
      [] name = "EGYPTIAN HIEROGLYPH V006" -> 78705
      [] name = "EGYPTIAN HIEROGLYPH V007" -> 78706
      [] name = "EGYPTIAN HIEROGLYPH V007A" -> 78707
      [] name = "EGYPTIAN HIEROGLYPH V007B" -> 78708
      [] name = "EGYPTIAN HIEROGLYPH V008" -> 78709
      [] name = "EGYPTIAN HIEROGLYPH V009" -> 78710
      [] name = "EGYPTIAN HIEROGLYPH V010" -> 78711
      [] name = "EGYPTIAN HIEROGLYPH V011" -> 78712
      [] name = "EGYPTIAN HIEROGLYPH V011A" -> 78713
      [] name = "EGYPTIAN HIEROGLYPH V011B" -> 78714
      [] name = "EGYPTIAN HIEROGLYPH V011C" -> 78715
      [] name = "EGYPTIAN HIEROGLYPH V012" -> 78716
      [] name = "EGYPTIAN HIEROGLYPH V012A" -> 78717
      [] name = "EGYPTIAN HIEROGLYPH V012B" -> 78718
      [] name = "EGYPTIAN HIEROGLYPH V013" -> 78719
      [] name = "EGYPTIAN HIEROGLYPH V014" -> 78720
      [] name = "EGYPTIAN HIEROGLYPH V015" -> 78721
      [] name = "EGYPTIAN HIEROGLYPH V016" -> 78722
      [] name = "EGYPTIAN HIEROGLYPH V017" -> 78723
      [] name = "EGYPTIAN HIEROGLYPH V018" -> 78724
      [] name = "EGYPTIAN HIEROGLYPH V019" -> 78725
      [] name = "EGYPTIAN HIEROGLYPH V020" -> 78726
      [] name = "EGYPTIAN HIEROGLYPH V020A" -> 78727
      [] name = "EGYPTIAN HIEROGLYPH V020B" -> 78728
      [] name = "EGYPTIAN HIEROGLYPH V020C" -> 78729
      [] name = "EGYPTIAN HIEROGLYPH V020D" -> 78730
      [] name = "EGYPTIAN HIEROGLYPH V020E" -> 78731
      [] name = "EGYPTIAN HIEROGLYPH V020F" -> 78732
      [] name = "EGYPTIAN HIEROGLYPH V020G" -> 78733
      [] name = "EGYPTIAN HIEROGLYPH V020H" -> 78734
      [] name = "EGYPTIAN HIEROGLYPH V020I" -> 78735
      [] name = "EGYPTIAN HIEROGLYPH V020J" -> 78736
      [] name = "EGYPTIAN HIEROGLYPH V020K" -> 78737
      [] name = "EGYPTIAN HIEROGLYPH V020L" -> 78738
      [] name = "EGYPTIAN HIEROGLYPH V021" -> 78739
      [] name = "EGYPTIAN HIEROGLYPH V022" -> 78740
      [] name = "EGYPTIAN HIEROGLYPH V023" -> 78741
      [] name = "EGYPTIAN HIEROGLYPH V023A" -> 78742
      [] name = "EGYPTIAN HIEROGLYPH V024" -> 78743
      [] name = "EGYPTIAN HIEROGLYPH V025" -> 78744
      [] name = "EGYPTIAN HIEROGLYPH V026" -> 78745
      [] name = "EGYPTIAN HIEROGLYPH V027" -> 78746
      [] name = "EGYPTIAN HIEROGLYPH V028" -> 78747
      [] name = "EGYPTIAN HIEROGLYPH V028A" -> 78748
      [] name = "EGYPTIAN HIEROGLYPH V029" -> 78749
      [] name = "EGYPTIAN HIEROGLYPH V029A" -> 78750
      [] name = "EGYPTIAN HIEROGLYPH V030" -> 78751
      [] name = "EGYPTIAN HIEROGLYPH V030A" -> 78752
      [] name = "EGYPTIAN HIEROGLYPH V031" -> 78753
      [] name = "EGYPTIAN HIEROGLYPH V031A" -> 78754
      [] name = "EGYPTIAN HIEROGLYPH V032" -> 78755
      [] name = "EGYPTIAN HIEROGLYPH V033" -> 78756
      [] name = "EGYPTIAN HIEROGLYPH V033A" -> 78757
      [] name = "EGYPTIAN HIEROGLYPH V034" -> 78758
      [] name = "EGYPTIAN HIEROGLYPH V035" -> 78759
      [] name = "EGYPTIAN HIEROGLYPH V036" -> 78760
      [] name = "EGYPTIAN HIEROGLYPH V037" -> 78761
      [] name = "EGYPTIAN HIEROGLYPH V037A" -> 78762
      [] name = "EGYPTIAN HIEROGLYPH V038" -> 78763
      [] name = "EGYPTIAN HIEROGLYPH V039" -> 78764
      [] name = "EGYPTIAN HIEROGLYPH V040" -> 78765
      [] name = "EGYPTIAN HIEROGLYPH V040A" -> 78766
      [] name = "EGYPTIAN HIEROGLYPH W001" -> 78767
      [] name = "EGYPTIAN HIEROGLYPH W002" -> 78768
      [] name = "EGYPTIAN HIEROGLYPH W003" -> 78769
      [] name = "EGYPTIAN HIEROGLYPH W003A" -> 78770
      [] name = "EGYPTIAN HIEROGLYPH W004" -> 78771
      [] name = "EGYPTIAN HIEROGLYPH W005" -> 78772
      [] name = "EGYPTIAN HIEROGLYPH W006" -> 78773
      [] name = "EGYPTIAN HIEROGLYPH W007" -> 78774
      [] name = "EGYPTIAN HIEROGLYPH W008" -> 78775
      [] name = "EGYPTIAN HIEROGLYPH W009" -> 78776
      [] name = "EGYPTIAN HIEROGLYPH W009A" -> 78777
      [] name = "EGYPTIAN HIEROGLYPH W010" -> 78778
      [] name = "EGYPTIAN HIEROGLYPH W010A" -> 78779
      [] name = "EGYPTIAN HIEROGLYPH W011" -> 78780
      [] name = "EGYPTIAN HIEROGLYPH W012" -> 78781
      [] name = "EGYPTIAN HIEROGLYPH W013" -> 78782
      [] name = "EGYPTIAN HIEROGLYPH W014" -> 78783
      [] name = "EGYPTIAN HIEROGLYPH W014A" -> 78784
      [] name = "EGYPTIAN HIEROGLYPH W015" -> 78785
      [] name = "EGYPTIAN HIEROGLYPH W016" -> 78786
      [] name = "EGYPTIAN HIEROGLYPH W017" -> 78787
      [] name = "EGYPTIAN HIEROGLYPH W017A" -> 78788
      [] name = "EGYPTIAN HIEROGLYPH W018" -> 78789
      [] name = "EGYPTIAN HIEROGLYPH W018A" -> 78790
      [] name = "EGYPTIAN HIEROGLYPH W019" -> 78791
      [] name = "EGYPTIAN HIEROGLYPH W020" -> 78792
      [] name = "EGYPTIAN HIEROGLYPH W021" -> 78793
      [] name = "EGYPTIAN HIEROGLYPH W022" -> 78794
      [] name = "EGYPTIAN HIEROGLYPH W023" -> 78795
      [] name = "EGYPTIAN HIEROGLYPH W024" -> 78796
      [] name = "EGYPTIAN HIEROGLYPH W024A" -> 78797
      [] name = "EGYPTIAN HIEROGLYPH W025" -> 78798
      [] name = "EGYPTIAN HIEROGLYPH X001" -> 78799
      [] name = "EGYPTIAN HIEROGLYPH X002" -> 78800
      [] name = "EGYPTIAN HIEROGLYPH X003" -> 78801
      [] name = "EGYPTIAN HIEROGLYPH X004" -> 78802
      [] name = "EGYPTIAN HIEROGLYPH X004A" -> 78803
      [] name = "EGYPTIAN HIEROGLYPH X004B" -> 78804
      [] name = "EGYPTIAN HIEROGLYPH X005" -> 78805
      [] name = "EGYPTIAN HIEROGLYPH X006" -> 78806
      [] name = "EGYPTIAN HIEROGLYPH X006A" -> 78807
      [] name = "EGYPTIAN HIEROGLYPH X007" -> 78808
      [] name = "EGYPTIAN HIEROGLYPH X008" -> 78809
      [] name = "EGYPTIAN HIEROGLYPH X008A" -> 78810
      [] name = "EGYPTIAN HIEROGLYPH Y001" -> 78811
      [] name = "EGYPTIAN HIEROGLYPH Y001A" -> 78812
      [] name = "EGYPTIAN HIEROGLYPH Y002" -> 78813
      [] name = "EGYPTIAN HIEROGLYPH Y003" -> 78814
      [] name = "EGYPTIAN HIEROGLYPH Y004" -> 78815
      [] name = "EGYPTIAN HIEROGLYPH Y005" -> 78816
      [] name = "EGYPTIAN HIEROGLYPH Y006" -> 78817
      [] name = "EGYPTIAN HIEROGLYPH Y007" -> 78818
      [] name = "EGYPTIAN HIEROGLYPH Y008" -> 78819
      [] name = "EGYPTIAN HIEROGLYPH Z001" -> 78820
      [] name = "EGYPTIAN HIEROGLYPH Z002" -> 78821
      [] name = "EGYPTIAN HIEROGLYPH Z002A" -> 78822
      [] name = "EGYPTIAN HIEROGLYPH Z002B" -> 78823
      [] name = "EGYPTIAN HIEROGLYPH Z002C" -> 78824
      [] name = "EGYPTIAN HIEROGLYPH Z002D" -> 78825
      [] name = "EGYPTIAN HIEROGLYPH Z003" -> 78826
      [] name = "EGYPTIAN HIEROGLYPH Z003A" -> 78827
      [] name = "EGYPTIAN HIEROGLYPH Z003B" -> 78828
      [] name = "EGYPTIAN HIEROGLYPH Z004" -> 78829
      [] name = "EGYPTIAN HIEROGLYPH Z004A" -> 78830
      [] name = "EGYPTIAN HIEROGLYPH Z005" -> 78831
      [] name = "EGYPTIAN HIEROGLYPH Z005A" -> 78832
      [] name = "EGYPTIAN HIEROGLYPH Z006" -> 78833
      [] name = "EGYPTIAN HIEROGLYPH Z007" -> 78834
      [] name = "EGYPTIAN HIEROGLYPH Z008" -> 78835
      [] name = "EGYPTIAN HIEROGLYPH Z009" -> 78836
      [] name = "EGYPTIAN HIEROGLYPH Z010" -> 78837
      [] name = "EGYPTIAN HIEROGLYPH Z011" -> 78838
      [] name = "EGYPTIAN HIEROGLYPH Z012" -> 78839
      [] name = "EGYPTIAN HIEROGLYPH Z013" -> 78840
      [] name = "EGYPTIAN HIEROGLYPH Z014" -> 78841
      [] name = "EGYPTIAN HIEROGLYPH Z015" -> 78842
      [] name = "EGYPTIAN HIEROGLYPH Z015A" -> 78843
      [] name = "EGYPTIAN HIEROGLYPH Z015B" -> 78844
      [] name = "EGYPTIAN HIEROGLYPH Z015C" -> 78845
      [] name = "EGYPTIAN HIEROGLYPH Z015D" -> 78846
      [] name = "EGYPTIAN HIEROGLYPH Z015E" -> 78847
      [] name = "EGYPTIAN HIEROGLYPH Z015F" -> 78848
      [] name = "EGYPTIAN HIEROGLYPH Z015G" -> 78849
      [] name = "EGYPTIAN HIEROGLYPH Z015H" -> 78850
      [] name = "EGYPTIAN HIEROGLYPH Z015I" -> 78851
      [] name = "EGYPTIAN HIEROGLYPH Z016" -> 78852
      [] name = "EGYPTIAN HIEROGLYPH Z016A" -> 78853
      [] name = "EGYPTIAN HIEROGLYPH Z016B" -> 78854
      [] name = "EGYPTIAN HIEROGLYPH Z016C" -> 78855
      [] name = "EGYPTIAN HIEROGLYPH Z016D" -> 78856
      [] name = "EGYPTIAN HIEROGLYPH Z016E" -> 78857
      [] name = "EGYPTIAN HIEROGLYPH Z016F" -> 78858
      [] name = "EGYPTIAN HIEROGLYPH Z016G" -> 78859
      [] name = "EGYPTIAN HIEROGLYPH Z016H" -> 78860
      [] name = "EGYPTIAN HIEROGLYPH AA001" -> 78861
      [] name = "EGYPTIAN HIEROGLYPH AA002" -> 78862
      [] name = "EGYPTIAN HIEROGLYPH AA003" -> 78863
      [] name = "EGYPTIAN HIEROGLYPH AA004" -> 78864
      [] name = "EGYPTIAN HIEROGLYPH AA005" -> 78865
      [] name = "EGYPTIAN HIEROGLYPH AA006" -> 78866
      [] name = "EGYPTIAN HIEROGLYPH AA007" -> 78867
      [] name = "EGYPTIAN HIEROGLYPH AA007A" -> 78868
      [] name = "EGYPTIAN HIEROGLYPH AA007B" -> 78869
      [] name = "EGYPTIAN HIEROGLYPH AA008" -> 78870
      [] name = "EGYPTIAN HIEROGLYPH AA009" -> 78871
      [] name = "EGYPTIAN HIEROGLYPH AA010" -> 78872
      [] name = "EGYPTIAN HIEROGLYPH AA011" -> 78873
      [] name = "EGYPTIAN HIEROGLYPH AA012" -> 78874
      [] name = "EGYPTIAN HIEROGLYPH AA013" -> 78875
      [] name = "EGYPTIAN HIEROGLYPH AA014" -> 78876
      [] name = "EGYPTIAN HIEROGLYPH AA015" -> 78877
      [] name = "EGYPTIAN HIEROGLYPH AA016" -> 78878
      [] name = "EGYPTIAN HIEROGLYPH AA017" -> 78879
      [] name = "EGYPTIAN HIEROGLYPH AA018" -> 78880
      [] name = "EGYPTIAN HIEROGLYPH AA019" -> 78881
      [] name = "EGYPTIAN HIEROGLYPH AA020" -> 78882
      [] name = "EGYPTIAN HIEROGLYPH AA021" -> 78883
      [] name = "EGYPTIAN HIEROGLYPH AA022" -> 78884
      [] name = "EGYPTIAN HIEROGLYPH AA023" -> 78885
      [] name = "EGYPTIAN HIEROGLYPH AA024" -> 78886
      [] name = "EGYPTIAN HIEROGLYPH AA025" -> 78887
      [] name = "EGYPTIAN HIEROGLYPH AA026" -> 78888
      [] name = "EGYPTIAN HIEROGLYPH AA027" -> 78889
      [] name = "EGYPTIAN HIEROGLYPH AA028" -> 78890
      [] name = "EGYPTIAN HIEROGLYPH AA029" -> 78891
      [] name = "EGYPTIAN HIEROGLYPH AA030" -> 78892
      [] name = "EGYPTIAN HIEROGLYPH AA031" -> 78893
      [] name = "EGYPTIAN HIEROGLYPH AA032" -> 78894
      [] name = "EGYPTIAN HIEROGLYPH VERTICAL JOINER" -> 78896
      [] name = "EGYPTIAN HIEROGLYPH HORIZONTAL JOINER" -> 78897
      [] name = "EGYPTIAN HIEROGLYPH INSERT AT TOP START" -> 78898
      [] name = "EGYPTIAN HIEROGLYPH INSERT AT BOTTOM START" -> 78899
      [] name = "EGYPTIAN HIEROGLYPH INSERT AT TOP END" -> 78900
      [] name = "EGYPTIAN HIEROGLYPH INSERT AT BOTTOM END" -> 78901
      [] name = "EGYPTIAN HIEROGLYPH OVERLAY MIDDLE" -> 78902
      [] name = "EGYPTIAN HIEROGLYPH BEGIN SEGMENT" -> 78903
      [] name = "EGYPTIAN HIEROGLYPH END SEGMENT" -> 78904
      [] name = "ANATOLIAN HIEROGLYPH A001" -> 82944
      [] name = "ANATOLIAN HIEROGLYPH A002" -> 82945
      [] name = "ANATOLIAN HIEROGLYPH A003" -> 82946
      [] name = "ANATOLIAN HIEROGLYPH A004" -> 82947
      [] name = "ANATOLIAN HIEROGLYPH A005" -> 82948
      [] name = "ANATOLIAN HIEROGLYPH A006" -> 82949
      [] name = "ANATOLIAN HIEROGLYPH A007" -> 82950
      [] name = "ANATOLIAN HIEROGLYPH A008" -> 82951
      [] name = "ANATOLIAN HIEROGLYPH A009" -> 82952
      [] name = "ANATOLIAN HIEROGLYPH A010" -> 82953
      [] name = "ANATOLIAN HIEROGLYPH A010A" -> 82954
      [] name = "ANATOLIAN HIEROGLYPH A011" -> 82955
      [] name = "ANATOLIAN HIEROGLYPH A012" -> 82956
      [] name = "ANATOLIAN HIEROGLYPH A013" -> 82957
      [] name = "ANATOLIAN HIEROGLYPH A014" -> 82958
      [] name = "ANATOLIAN HIEROGLYPH A015" -> 82959
      [] name = "ANATOLIAN HIEROGLYPH A016" -> 82960
      [] name = "ANATOLIAN HIEROGLYPH A017" -> 82961
      [] name = "ANATOLIAN HIEROGLYPH A018" -> 82962
      [] name = "ANATOLIAN HIEROGLYPH A019" -> 82963
      [] name = "ANATOLIAN HIEROGLYPH A020" -> 82964
      [] name = "ANATOLIAN HIEROGLYPH A021" -> 82965
      [] name = "ANATOLIAN HIEROGLYPH A022" -> 82966
      [] name = "ANATOLIAN HIEROGLYPH A023" -> 82967
      [] name = "ANATOLIAN HIEROGLYPH A024" -> 82968
      [] name = "ANATOLIAN HIEROGLYPH A025" -> 82969
      [] name = "ANATOLIAN HIEROGLYPH A026" -> 82970
      [] name = "ANATOLIAN HIEROGLYPH A026A" -> 82971
      [] name = "ANATOLIAN HIEROGLYPH A027" -> 82972
      [] name = "ANATOLIAN HIEROGLYPH A028" -> 82973
      [] name = "ANATOLIAN HIEROGLYPH A029" -> 82974
      [] name = "ANATOLIAN HIEROGLYPH A030" -> 82975
      [] name = "ANATOLIAN HIEROGLYPH A031" -> 82976
      [] name = "ANATOLIAN HIEROGLYPH A032" -> 82977
      [] name = "ANATOLIAN HIEROGLYPH A033" -> 82978
      [] name = "ANATOLIAN HIEROGLYPH A034" -> 82979
      [] name = "ANATOLIAN HIEROGLYPH A035" -> 82980
      [] name = "ANATOLIAN HIEROGLYPH A036" -> 82981
      [] name = "ANATOLIAN HIEROGLYPH A037" -> 82982
      [] name = "ANATOLIAN HIEROGLYPH A038" -> 82983
      [] name = "ANATOLIAN HIEROGLYPH A039" -> 82984
      [] name = "ANATOLIAN HIEROGLYPH A039A" -> 82985
      [] name = "ANATOLIAN HIEROGLYPH A040" -> 82986
      [] name = "ANATOLIAN HIEROGLYPH A041" -> 82987
      [] name = "ANATOLIAN HIEROGLYPH A041A" -> 82988
      [] name = "ANATOLIAN HIEROGLYPH A042" -> 82989
      [] name = "ANATOLIAN HIEROGLYPH A043" -> 82990
      [] name = "ANATOLIAN HIEROGLYPH A044" -> 82991
      [] name = "ANATOLIAN HIEROGLYPH A045" -> 82992
      [] name = "ANATOLIAN HIEROGLYPH A045A" -> 82993
      [] name = "ANATOLIAN HIEROGLYPH A046" -> 82994
      [] name = "ANATOLIAN HIEROGLYPH A046A" -> 82995
      [] name = "ANATOLIAN HIEROGLYPH A046B" -> 82996
      [] name = "ANATOLIAN HIEROGLYPH A047" -> 82997
      [] name = "ANATOLIAN HIEROGLYPH A048" -> 82998
      [] name = "ANATOLIAN HIEROGLYPH A049" -> 82999
      [] name = "ANATOLIAN HIEROGLYPH A050" -> 83000
      [] name = "ANATOLIAN HIEROGLYPH A051" -> 83001
      [] name = "ANATOLIAN HIEROGLYPH A052" -> 83002
      [] name = "ANATOLIAN HIEROGLYPH A053" -> 83003
      [] name = "ANATOLIAN HIEROGLYPH A054" -> 83004
      [] name = "ANATOLIAN HIEROGLYPH A055" -> 83005
      [] name = "ANATOLIAN HIEROGLYPH A056" -> 83006
      [] name = "ANATOLIAN HIEROGLYPH A057" -> 83007
      [] name = "ANATOLIAN HIEROGLYPH A058" -> 83008
      [] name = "ANATOLIAN HIEROGLYPH A059" -> 83009
      [] name = "ANATOLIAN HIEROGLYPH A060" -> 83010
      [] name = "ANATOLIAN HIEROGLYPH A061" -> 83011
      [] name = "ANATOLIAN HIEROGLYPH A062" -> 83012
      [] name = "ANATOLIAN HIEROGLYPH A063" -> 83013
      [] name = "ANATOLIAN HIEROGLYPH A064" -> 83014
      [] name = "ANATOLIAN HIEROGLYPH A065" -> 83015
      [] name = "ANATOLIAN HIEROGLYPH A066" -> 83016
      [] name = "ANATOLIAN HIEROGLYPH A066A" -> 83017
      [] name = "ANATOLIAN HIEROGLYPH A066B" -> 83018
      [] name = "ANATOLIAN HIEROGLYPH A066C" -> 83019
      [] name = "ANATOLIAN HIEROGLYPH A067" -> 83020
      [] name = "ANATOLIAN HIEROGLYPH A068" -> 83021
      [] name = "ANATOLIAN HIEROGLYPH A069" -> 83022
      [] name = "ANATOLIAN HIEROGLYPH A070" -> 83023
      [] name = "ANATOLIAN HIEROGLYPH A071" -> 83024
      [] name = "ANATOLIAN HIEROGLYPH A072" -> 83025
      [] name = "ANATOLIAN HIEROGLYPH A073" -> 83026
      [] name = "ANATOLIAN HIEROGLYPH A074" -> 83027
      [] name = "ANATOLIAN HIEROGLYPH A075" -> 83028
      [] name = "ANATOLIAN HIEROGLYPH A076" -> 83029
      [] name = "ANATOLIAN HIEROGLYPH A077" -> 83030
      [] name = "ANATOLIAN HIEROGLYPH A078" -> 83031
      [] name = "ANATOLIAN HIEROGLYPH A079" -> 83032
      [] name = "ANATOLIAN HIEROGLYPH A080" -> 83033
      [] name = "ANATOLIAN HIEROGLYPH A081" -> 83034
      [] name = "ANATOLIAN HIEROGLYPH A082" -> 83035
      [] name = "ANATOLIAN HIEROGLYPH A083" -> 83036
      [] name = "ANATOLIAN HIEROGLYPH A084" -> 83037
      [] name = "ANATOLIAN HIEROGLYPH A085" -> 83038
      [] name = "ANATOLIAN HIEROGLYPH A086" -> 83039
      [] name = "ANATOLIAN HIEROGLYPH A087" -> 83040
      [] name = "ANATOLIAN HIEROGLYPH A088" -> 83041
      [] name = "ANATOLIAN HIEROGLYPH A089" -> 83042
      [] name = "ANATOLIAN HIEROGLYPH A090" -> 83043
      [] name = "ANATOLIAN HIEROGLYPH A091" -> 83044
      [] name = "ANATOLIAN HIEROGLYPH A092" -> 83045
      [] name = "ANATOLIAN HIEROGLYPH A093" -> 83046
      [] name = "ANATOLIAN HIEROGLYPH A094" -> 83047
      [] name = "ANATOLIAN HIEROGLYPH A095" -> 83048
      [] name = "ANATOLIAN HIEROGLYPH A096" -> 83049
      [] name = "ANATOLIAN HIEROGLYPH A097" -> 83050
      [] name = "ANATOLIAN HIEROGLYPH A097A" -> 83051
      [] name = "ANATOLIAN HIEROGLYPH A098" -> 83052
      [] name = "ANATOLIAN HIEROGLYPH A098A" -> 83053
      [] name = "ANATOLIAN HIEROGLYPH A099" -> 83054
      [] name = "ANATOLIAN HIEROGLYPH A100" -> 83055
      [] name = "ANATOLIAN HIEROGLYPH A100A" -> 83056
      [] name = "ANATOLIAN HIEROGLYPH A101" -> 83057
      [] name = "ANATOLIAN HIEROGLYPH A101A" -> 83058
      [] name = "ANATOLIAN HIEROGLYPH A102" -> 83059
      [] name = "ANATOLIAN HIEROGLYPH A102A" -> 83060
      [] name = "ANATOLIAN HIEROGLYPH A103" -> 83061
      [] name = "ANATOLIAN HIEROGLYPH A104" -> 83062
      [] name = "ANATOLIAN HIEROGLYPH A104A" -> 83063
      [] name = "ANATOLIAN HIEROGLYPH A104B" -> 83064
      [] name = "ANATOLIAN HIEROGLYPH A104C" -> 83065
      [] name = "ANATOLIAN HIEROGLYPH A105" -> 83066
      [] name = "ANATOLIAN HIEROGLYPH A105A" -> 83067
      [] name = "ANATOLIAN HIEROGLYPH A105B" -> 83068
      [] name = "ANATOLIAN HIEROGLYPH A106" -> 83069
      [] name = "ANATOLIAN HIEROGLYPH A107" -> 83070
      [] name = "ANATOLIAN HIEROGLYPH A107A" -> 83071
      [] name = "ANATOLIAN HIEROGLYPH A107B" -> 83072
      [] name = "ANATOLIAN HIEROGLYPH A107C" -> 83073
      [] name = "ANATOLIAN HIEROGLYPH A108" -> 83074
      [] name = "ANATOLIAN HIEROGLYPH A109" -> 83075
      [] name = "ANATOLIAN HIEROGLYPH A110" -> 83076
      [] name = "ANATOLIAN HIEROGLYPH A110A" -> 83077
      [] name = "ANATOLIAN HIEROGLYPH A110B" -> 83078
      [] name = "ANATOLIAN HIEROGLYPH A111" -> 83079
      [] name = "ANATOLIAN HIEROGLYPH A112" -> 83080
      [] name = "ANATOLIAN HIEROGLYPH A113" -> 83081
      [] name = "ANATOLIAN HIEROGLYPH A114" -> 83082
      [] name = "ANATOLIAN HIEROGLYPH A115" -> 83083
      [] name = "ANATOLIAN HIEROGLYPH A115A" -> 83084
      [] name = "ANATOLIAN HIEROGLYPH A116" -> 83085
      [] name = "ANATOLIAN HIEROGLYPH A117" -> 83086
      [] name = "ANATOLIAN HIEROGLYPH A118" -> 83087
      [] name = "ANATOLIAN HIEROGLYPH A119" -> 83088
      [] name = "ANATOLIAN HIEROGLYPH A120" -> 83089
      [] name = "ANATOLIAN HIEROGLYPH A121" -> 83090
      [] name = "ANATOLIAN HIEROGLYPH A122" -> 83091
      [] name = "ANATOLIAN HIEROGLYPH A123" -> 83092
      [] name = "ANATOLIAN HIEROGLYPH A124" -> 83093
      [] name = "ANATOLIAN HIEROGLYPH A125" -> 83094
      [] name = "ANATOLIAN HIEROGLYPH A125A" -> 83095
      [] name = "ANATOLIAN HIEROGLYPH A126" -> 83096
      [] name = "ANATOLIAN HIEROGLYPH A127" -> 83097
      [] name = "ANATOLIAN HIEROGLYPH A128" -> 83098
      [] name = "ANATOLIAN HIEROGLYPH A129" -> 83099
      [] name = "ANATOLIAN HIEROGLYPH A130" -> 83100
      [] name = "ANATOLIAN HIEROGLYPH A131" -> 83101
      [] name = "ANATOLIAN HIEROGLYPH A132" -> 83102
      [] name = "ANATOLIAN HIEROGLYPH A133" -> 83103
      [] name = "ANATOLIAN HIEROGLYPH A134" -> 83104
      [] name = "ANATOLIAN HIEROGLYPH A135" -> 83105
      [] name = "ANATOLIAN HIEROGLYPH A135A" -> 83106
      [] name = "ANATOLIAN HIEROGLYPH A136" -> 83107
      [] name = "ANATOLIAN HIEROGLYPH A137" -> 83108
      [] name = "ANATOLIAN HIEROGLYPH A138" -> 83109
      [] name = "ANATOLIAN HIEROGLYPH A139" -> 83110
      [] name = "ANATOLIAN HIEROGLYPH A140" -> 83111
      [] name = "ANATOLIAN HIEROGLYPH A141" -> 83112
      [] name = "ANATOLIAN HIEROGLYPH A142" -> 83113
      [] name = "ANATOLIAN HIEROGLYPH A143" -> 83114
      [] name = "ANATOLIAN HIEROGLYPH A144" -> 83115
      [] name = "ANATOLIAN HIEROGLYPH A145" -> 83116
      [] name = "ANATOLIAN HIEROGLYPH A146" -> 83117
      [] name = "ANATOLIAN HIEROGLYPH A147" -> 83118
      [] name = "ANATOLIAN HIEROGLYPH A148" -> 83119
      [] name = "ANATOLIAN HIEROGLYPH A149" -> 83120
      [] name = "ANATOLIAN HIEROGLYPH A150" -> 83121
      [] name = "ANATOLIAN HIEROGLYPH A151" -> 83122
      [] name = "ANATOLIAN HIEROGLYPH A152" -> 83123
      [] name = "ANATOLIAN HIEROGLYPH A153" -> 83124
      [] name = "ANATOLIAN HIEROGLYPH A154" -> 83125
      [] name = "ANATOLIAN HIEROGLYPH A155" -> 83126
      [] name = "ANATOLIAN HIEROGLYPH A156" -> 83127
      [] name = "ANATOLIAN HIEROGLYPH A157" -> 83128
      [] name = "ANATOLIAN HIEROGLYPH A158" -> 83129
      [] name = "ANATOLIAN HIEROGLYPH A159" -> 83130
      [] name = "ANATOLIAN HIEROGLYPH A160" -> 83131
      [] name = "ANATOLIAN HIEROGLYPH A161" -> 83132
      [] name = "ANATOLIAN HIEROGLYPH A162" -> 83133
      [] name = "ANATOLIAN HIEROGLYPH A163" -> 83134
      [] name = "ANATOLIAN HIEROGLYPH A164" -> 83135
      [] name = "ANATOLIAN HIEROGLYPH A165" -> 83136
      [] name = "ANATOLIAN HIEROGLYPH A166" -> 83137
      [] name = "ANATOLIAN HIEROGLYPH A167" -> 83138
      [] name = "ANATOLIAN HIEROGLYPH A168" -> 83139
      [] name = "ANATOLIAN HIEROGLYPH A169" -> 83140
      [] name = "ANATOLIAN HIEROGLYPH A170" -> 83141
      [] name = "ANATOLIAN HIEROGLYPH A171" -> 83142
      [] name = "ANATOLIAN HIEROGLYPH A172" -> 83143
      [] name = "ANATOLIAN HIEROGLYPH A173" -> 83144
      [] name = "ANATOLIAN HIEROGLYPH A174" -> 83145
      [] name = "ANATOLIAN HIEROGLYPH A175" -> 83146
      [] name = "ANATOLIAN HIEROGLYPH A176" -> 83147
      [] name = "ANATOLIAN HIEROGLYPH A177" -> 83148
      [] name = "ANATOLIAN HIEROGLYPH A178" -> 83149
      [] name = "ANATOLIAN HIEROGLYPH A179" -> 83150
      [] name = "ANATOLIAN HIEROGLYPH A180" -> 83151
      [] name = "ANATOLIAN HIEROGLYPH A181" -> 83152
      [] name = "ANATOLIAN HIEROGLYPH A182" -> 83153
      [] name = "ANATOLIAN HIEROGLYPH A183" -> 83154
      [] name = "ANATOLIAN HIEROGLYPH A184" -> 83155
      [] name = "ANATOLIAN HIEROGLYPH A185" -> 83156
      [] name = "ANATOLIAN HIEROGLYPH A186" -> 83157
      [] name = "ANATOLIAN HIEROGLYPH A187" -> 83158
      [] name = "ANATOLIAN HIEROGLYPH A188" -> 83159
      [] name = "ANATOLIAN HIEROGLYPH A189" -> 83160
      [] name = "ANATOLIAN HIEROGLYPH A190" -> 83161
      [] name = "ANATOLIAN HIEROGLYPH A191" -> 83162
      [] name = "ANATOLIAN HIEROGLYPH A192" -> 83163
      [] name = "ANATOLIAN HIEROGLYPH A193" -> 83164
      [] name = "ANATOLIAN HIEROGLYPH A194" -> 83165
      [] name = "ANATOLIAN HIEROGLYPH A195" -> 83166
      [] name = "ANATOLIAN HIEROGLYPH A196" -> 83167
      [] name = "ANATOLIAN HIEROGLYPH A197" -> 83168
      [] name = "ANATOLIAN HIEROGLYPH A198" -> 83169
      [] name = "ANATOLIAN HIEROGLYPH A199" -> 83170
      [] name = "ANATOLIAN HIEROGLYPH A200" -> 83171
      [] name = "ANATOLIAN HIEROGLYPH A201" -> 83172
      [] name = "ANATOLIAN HIEROGLYPH A202" -> 83173
      [] name = "ANATOLIAN HIEROGLYPH A202A" -> 83174
      [] name = "ANATOLIAN HIEROGLYPH A202B" -> 83175
      [] name = "ANATOLIAN HIEROGLYPH A203" -> 83176
      [] name = "ANATOLIAN HIEROGLYPH A204" -> 83177
      [] name = "ANATOLIAN HIEROGLYPH A205" -> 83178
      [] name = "ANATOLIAN HIEROGLYPH A206" -> 83179
      [] name = "ANATOLIAN HIEROGLYPH A207" -> 83180
      [] name = "ANATOLIAN HIEROGLYPH A207A" -> 83181
      [] name = "ANATOLIAN HIEROGLYPH A208" -> 83182
      [] name = "ANATOLIAN HIEROGLYPH A209" -> 83183
      [] name = "ANATOLIAN HIEROGLYPH A209A" -> 83184
      [] name = "ANATOLIAN HIEROGLYPH A210" -> 83185
      [] name = "ANATOLIAN HIEROGLYPH A211" -> 83186
      [] name = "ANATOLIAN HIEROGLYPH A212" -> 83187
      [] name = "ANATOLIAN HIEROGLYPH A213" -> 83188
      [] name = "ANATOLIAN HIEROGLYPH A214" -> 83189
      [] name = "ANATOLIAN HIEROGLYPH A215" -> 83190
      [] name = "ANATOLIAN HIEROGLYPH A215A" -> 83191
      [] name = "ANATOLIAN HIEROGLYPH A216" -> 83192
      [] name = "ANATOLIAN HIEROGLYPH A216A" -> 83193
      [] name = "ANATOLIAN HIEROGLYPH A217" -> 83194
      [] name = "ANATOLIAN HIEROGLYPH A218" -> 83195
      [] name = "ANATOLIAN HIEROGLYPH A219" -> 83196
      [] name = "ANATOLIAN HIEROGLYPH A220" -> 83197
      [] name = "ANATOLIAN HIEROGLYPH A221" -> 83198
      [] name = "ANATOLIAN HIEROGLYPH A222" -> 83199
      [] name = "ANATOLIAN HIEROGLYPH A223" -> 83200
      [] name = "ANATOLIAN HIEROGLYPH A224" -> 83201
      [] name = "ANATOLIAN HIEROGLYPH A225" -> 83202
      [] name = "ANATOLIAN HIEROGLYPH A226" -> 83203
      [] name = "ANATOLIAN HIEROGLYPH A227" -> 83204
      [] name = "ANATOLIAN HIEROGLYPH A227A" -> 83205
      [] name = "ANATOLIAN HIEROGLYPH A228" -> 83206
      [] name = "ANATOLIAN HIEROGLYPH A229" -> 83207
      [] name = "ANATOLIAN HIEROGLYPH A230" -> 83208
      [] name = "ANATOLIAN HIEROGLYPH A231" -> 83209
      [] name = "ANATOLIAN HIEROGLYPH A232" -> 83210
      [] name = "ANATOLIAN HIEROGLYPH A233" -> 83211
      [] name = "ANATOLIAN HIEROGLYPH A234" -> 83212
      [] name = "ANATOLIAN HIEROGLYPH A235" -> 83213
      [] name = "ANATOLIAN HIEROGLYPH A236" -> 83214
      [] name = "ANATOLIAN HIEROGLYPH A237" -> 83215
      [] name = "ANATOLIAN HIEROGLYPH A238" -> 83216
      [] name = "ANATOLIAN HIEROGLYPH A239" -> 83217
      [] name = "ANATOLIAN HIEROGLYPH A240" -> 83218
      [] name = "ANATOLIAN HIEROGLYPH A241" -> 83219
      [] name = "ANATOLIAN HIEROGLYPH A242" -> 83220
      [] name = "ANATOLIAN HIEROGLYPH A243" -> 83221
      [] name = "ANATOLIAN HIEROGLYPH A244" -> 83222
      [] name = "ANATOLIAN HIEROGLYPH A245" -> 83223
      [] name = "ANATOLIAN HIEROGLYPH A246" -> 83224
      [] name = "ANATOLIAN HIEROGLYPH A247" -> 83225
      [] name = "ANATOLIAN HIEROGLYPH A248" -> 83226
      [] name = "ANATOLIAN HIEROGLYPH A249" -> 83227
      [] name = "ANATOLIAN HIEROGLYPH A250" -> 83228
      [] name = "ANATOLIAN HIEROGLYPH A251" -> 83229
      [] name = "ANATOLIAN HIEROGLYPH A252" -> 83230
      [] name = "ANATOLIAN HIEROGLYPH A253" -> 83231
      [] name = "ANATOLIAN HIEROGLYPH A254" -> 83232
      [] name = "ANATOLIAN HIEROGLYPH A255" -> 83233
      [] name = "ANATOLIAN HIEROGLYPH A256" -> 83234
      [] name = "ANATOLIAN HIEROGLYPH A257" -> 83235
      [] name = "ANATOLIAN HIEROGLYPH A258" -> 83236
      [] name = "ANATOLIAN HIEROGLYPH A259" -> 83237
      [] name = "ANATOLIAN HIEROGLYPH A260" -> 83238
      [] name = "ANATOLIAN HIEROGLYPH A261" -> 83239
      [] name = "ANATOLIAN HIEROGLYPH A262" -> 83240
      [] name = "ANATOLIAN HIEROGLYPH A263" -> 83241
      [] name = "ANATOLIAN HIEROGLYPH A264" -> 83242
      [] name = "ANATOLIAN HIEROGLYPH A265" -> 83243
      [] name = "ANATOLIAN HIEROGLYPH A266" -> 83244
      [] name = "ANATOLIAN HIEROGLYPH A267" -> 83245
      [] name = "ANATOLIAN HIEROGLYPH A267A" -> 83246
      [] name = "ANATOLIAN HIEROGLYPH A268" -> 83247
      [] name = "ANATOLIAN HIEROGLYPH A269" -> 83248
      [] name = "ANATOLIAN HIEROGLYPH A270" -> 83249
      [] name = "ANATOLIAN HIEROGLYPH A271" -> 83250
      [] name = "ANATOLIAN HIEROGLYPH A272" -> 83251
      [] name = "ANATOLIAN HIEROGLYPH A273" -> 83252
      [] name = "ANATOLIAN HIEROGLYPH A274" -> 83253
      [] name = "ANATOLIAN HIEROGLYPH A275" -> 83254
      [] name = "ANATOLIAN HIEROGLYPH A276" -> 83255
      [] name = "ANATOLIAN HIEROGLYPH A277" -> 83256
      [] name = "ANATOLIAN HIEROGLYPH A278" -> 83257
      [] name = "ANATOLIAN HIEROGLYPH A279" -> 83258
      [] name = "ANATOLIAN HIEROGLYPH A280" -> 83259
      [] name = "ANATOLIAN HIEROGLYPH A281" -> 83260
      [] name = "ANATOLIAN HIEROGLYPH A282" -> 83261
      [] name = "ANATOLIAN HIEROGLYPH A283" -> 83262
      [] name = "ANATOLIAN HIEROGLYPH A284" -> 83263
      [] name = "ANATOLIAN HIEROGLYPH A285" -> 83264
      [] name = "ANATOLIAN HIEROGLYPH A286" -> 83265
      [] name = "ANATOLIAN HIEROGLYPH A287" -> 83266
      [] name = "ANATOLIAN HIEROGLYPH A288" -> 83267
      [] name = "ANATOLIAN HIEROGLYPH A289" -> 83268
      [] name = "ANATOLIAN HIEROGLYPH A289A" -> 83269
      [] name = "ANATOLIAN HIEROGLYPH A290" -> 83270
      [] name = "ANATOLIAN HIEROGLYPH A291" -> 83271
      [] name = "ANATOLIAN HIEROGLYPH A292" -> 83272
      [] name = "ANATOLIAN HIEROGLYPH A293" -> 83273
      [] name = "ANATOLIAN HIEROGLYPH A294" -> 83274
      [] name = "ANATOLIAN HIEROGLYPH A294A" -> 83275
      [] name = "ANATOLIAN HIEROGLYPH A295" -> 83276
      [] name = "ANATOLIAN HIEROGLYPH A296" -> 83277
      [] name = "ANATOLIAN HIEROGLYPH A297" -> 83278
      [] name = "ANATOLIAN HIEROGLYPH A298" -> 83279
      [] name = "ANATOLIAN HIEROGLYPH A299" -> 83280
      [] name = "ANATOLIAN HIEROGLYPH A299A" -> 83281
      [] name = "ANATOLIAN HIEROGLYPH A300" -> 83282
      [] name = "ANATOLIAN HIEROGLYPH A301" -> 83283
      [] name = "ANATOLIAN HIEROGLYPH A302" -> 83284
      [] name = "ANATOLIAN HIEROGLYPH A303" -> 83285
      [] name = "ANATOLIAN HIEROGLYPH A304" -> 83286
      [] name = "ANATOLIAN HIEROGLYPH A305" -> 83287
      [] name = "ANATOLIAN HIEROGLYPH A306" -> 83288
      [] name = "ANATOLIAN HIEROGLYPH A307" -> 83289
      [] name = "ANATOLIAN HIEROGLYPH A308" -> 83290
      [] name = "ANATOLIAN HIEROGLYPH A309" -> 83291
      [] name = "ANATOLIAN HIEROGLYPH A309A" -> 83292
      [] name = "ANATOLIAN HIEROGLYPH A310" -> 83293
      [] name = "ANATOLIAN HIEROGLYPH A311" -> 83294
      [] name = "ANATOLIAN HIEROGLYPH A312" -> 83295
      [] name = "ANATOLIAN HIEROGLYPH A313" -> 83296
      [] name = "ANATOLIAN HIEROGLYPH A314" -> 83297
      [] name = "ANATOLIAN HIEROGLYPH A315" -> 83298
      [] name = "ANATOLIAN HIEROGLYPH A316" -> 83299
      [] name = "ANATOLIAN HIEROGLYPH A317" -> 83300
      [] name = "ANATOLIAN HIEROGLYPH A318" -> 83301
      [] name = "ANATOLIAN HIEROGLYPH A319" -> 83302
      [] name = "ANATOLIAN HIEROGLYPH A320" -> 83303
      [] name = "ANATOLIAN HIEROGLYPH A321" -> 83304
      [] name = "ANATOLIAN HIEROGLYPH A322" -> 83305
      [] name = "ANATOLIAN HIEROGLYPH A323" -> 83306
      [] name = "ANATOLIAN HIEROGLYPH A324" -> 83307
      [] name = "ANATOLIAN HIEROGLYPH A325" -> 83308
      [] name = "ANATOLIAN HIEROGLYPH A326" -> 83309
      [] name = "ANATOLIAN HIEROGLYPH A327" -> 83310
      [] name = "ANATOLIAN HIEROGLYPH A328" -> 83311
      [] name = "ANATOLIAN HIEROGLYPH A329" -> 83312
      [] name = "ANATOLIAN HIEROGLYPH A329A" -> 83313
      [] name = "ANATOLIAN HIEROGLYPH A330" -> 83314
      [] name = "ANATOLIAN HIEROGLYPH A331" -> 83315
      [] name = "ANATOLIAN HIEROGLYPH A332A" -> 83316
      [] name = "ANATOLIAN HIEROGLYPH A332B" -> 83317
      [] name = "ANATOLIAN HIEROGLYPH A332C" -> 83318
      [] name = "ANATOLIAN HIEROGLYPH A333" -> 83319
      [] name = "ANATOLIAN HIEROGLYPH A334" -> 83320
      [] name = "ANATOLIAN HIEROGLYPH A335" -> 83321
      [] name = "ANATOLIAN HIEROGLYPH A336" -> 83322
      [] name = "ANATOLIAN HIEROGLYPH A336A" -> 83323
      [] name = "ANATOLIAN HIEROGLYPH A336B" -> 83324
      [] name = "ANATOLIAN HIEROGLYPH A336C" -> 83325
      [] name = "ANATOLIAN HIEROGLYPH A337" -> 83326
      [] name = "ANATOLIAN HIEROGLYPH A338" -> 83327
      [] name = "ANATOLIAN HIEROGLYPH A339" -> 83328
      [] name = "ANATOLIAN HIEROGLYPH A340" -> 83329
      [] name = "ANATOLIAN HIEROGLYPH A341" -> 83330
      [] name = "ANATOLIAN HIEROGLYPH A342" -> 83331
      [] name = "ANATOLIAN HIEROGLYPH A343" -> 83332
      [] name = "ANATOLIAN HIEROGLYPH A344" -> 83333
      [] name = "ANATOLIAN HIEROGLYPH A345" -> 83334
      [] name = "ANATOLIAN HIEROGLYPH A346" -> 83335
      [] name = "ANATOLIAN HIEROGLYPH A347" -> 83336
      [] name = "ANATOLIAN HIEROGLYPH A348" -> 83337
      [] name = "ANATOLIAN HIEROGLYPH A349" -> 83338
      [] name = "ANATOLIAN HIEROGLYPH A350" -> 83339
      [] name = "ANATOLIAN HIEROGLYPH A351" -> 83340
      [] name = "ANATOLIAN HIEROGLYPH A352" -> 83341
      [] name = "ANATOLIAN HIEROGLYPH A353" -> 83342
      [] name = "ANATOLIAN HIEROGLYPH A354" -> 83343
      [] name = "ANATOLIAN HIEROGLYPH A355" -> 83344
      [] name = "ANATOLIAN HIEROGLYPH A356" -> 83345
      [] name = "ANATOLIAN HIEROGLYPH A357" -> 83346
      [] name = "ANATOLIAN HIEROGLYPH A358" -> 83347
      [] name = "ANATOLIAN HIEROGLYPH A359" -> 83348
      [] name = "ANATOLIAN HIEROGLYPH A359A" -> 83349
      [] name = "ANATOLIAN HIEROGLYPH A360" -> 83350
      [] name = "ANATOLIAN HIEROGLYPH A361" -> 83351
      [] name = "ANATOLIAN HIEROGLYPH A362" -> 83352
      [] name = "ANATOLIAN HIEROGLYPH A363" -> 83353
      [] name = "ANATOLIAN HIEROGLYPH A364" -> 83354
      [] name = "ANATOLIAN HIEROGLYPH A364A" -> 83355
      [] name = "ANATOLIAN HIEROGLYPH A365" -> 83356
      [] name = "ANATOLIAN HIEROGLYPH A366" -> 83357
      [] name = "ANATOLIAN HIEROGLYPH A367" -> 83358
      [] name = "ANATOLIAN HIEROGLYPH A368" -> 83359
      [] name = "ANATOLIAN HIEROGLYPH A368A" -> 83360
      [] name = "ANATOLIAN HIEROGLYPH A369" -> 83361
      [] name = "ANATOLIAN HIEROGLYPH A370" -> 83362
      [] name = "ANATOLIAN HIEROGLYPH A371" -> 83363
      [] name = "ANATOLIAN HIEROGLYPH A371A" -> 83364
      [] name = "ANATOLIAN HIEROGLYPH A372" -> 83365
      [] name = "ANATOLIAN HIEROGLYPH A373" -> 83366
      [] name = "ANATOLIAN HIEROGLYPH A374" -> 83367
      [] name = "ANATOLIAN HIEROGLYPH A375" -> 83368
      [] name = "ANATOLIAN HIEROGLYPH A376" -> 83369
      [] name = "ANATOLIAN HIEROGLYPH A377" -> 83370
      [] name = "ANATOLIAN HIEROGLYPH A378" -> 83371
      [] name = "ANATOLIAN HIEROGLYPH A379" -> 83372
      [] name = "ANATOLIAN HIEROGLYPH A380" -> 83373
      [] name = "ANATOLIAN HIEROGLYPH A381" -> 83374
      [] name = "ANATOLIAN HIEROGLYPH A381A" -> 83375
      [] name = "ANATOLIAN HIEROGLYPH A382" -> 83376
      [] name = "ANATOLIAN HIEROGLYPH A383 RA OR RI" -> 83377
      [] name = "ANATOLIAN HIEROGLYPH A383A" -> 83378
      [] name = "ANATOLIAN HIEROGLYPH A384" -> 83379
      [] name = "ANATOLIAN HIEROGLYPH A385" -> 83380
      [] name = "ANATOLIAN HIEROGLYPH A386" -> 83381
      [] name = "ANATOLIAN HIEROGLYPH A386A" -> 83382
      [] name = "ANATOLIAN HIEROGLYPH A387" -> 83383
      [] name = "ANATOLIAN HIEROGLYPH A388" -> 83384
      [] name = "ANATOLIAN HIEROGLYPH A389" -> 83385
      [] name = "ANATOLIAN HIEROGLYPH A390" -> 83386
      [] name = "ANATOLIAN HIEROGLYPH A391" -> 83387
      [] name = "ANATOLIAN HIEROGLYPH A392" -> 83388
      [] name = "ANATOLIAN HIEROGLYPH A393 EIGHT" -> 83389
      [] name = "ANATOLIAN HIEROGLYPH A394" -> 83390
      [] name = "ANATOLIAN HIEROGLYPH A395" -> 83391
      [] name = "ANATOLIAN HIEROGLYPH A396" -> 83392
      [] name = "ANATOLIAN HIEROGLYPH A397" -> 83393
      [] name = "ANATOLIAN HIEROGLYPH A398" -> 83394
      [] name = "ANATOLIAN HIEROGLYPH A399" -> 83395
      [] name = "ANATOLIAN HIEROGLYPH A400" -> 83396
      [] name = "ANATOLIAN HIEROGLYPH A401" -> 83397
      [] name = "ANATOLIAN HIEROGLYPH A402" -> 83398
      [] name = "ANATOLIAN HIEROGLYPH A403" -> 83399
      [] name = "ANATOLIAN HIEROGLYPH A404" -> 83400
      [] name = "ANATOLIAN HIEROGLYPH A405" -> 83401
      [] name = "ANATOLIAN HIEROGLYPH A406" -> 83402
      [] name = "ANATOLIAN HIEROGLYPH A407" -> 83403
      [] name = "ANATOLIAN HIEROGLYPH A408" -> 83404
      [] name = "ANATOLIAN HIEROGLYPH A409" -> 83405
      [] name = "ANATOLIAN HIEROGLYPH A410 BEGIN LOGOGRAM MARK" -> 83406
      [] name = "ANATOLIAN HIEROGLYPH A410A END LOGOGRAM MARK" -> 83407
      [] name = "ANATOLIAN HIEROGLYPH A411" -> 83408
      [] name = "ANATOLIAN HIEROGLYPH A412" -> 83409
      [] name = "ANATOLIAN HIEROGLYPH A413" -> 83410
      [] name = "ANATOLIAN HIEROGLYPH A414" -> 83411
      [] name = "ANATOLIAN HIEROGLYPH A415" -> 83412
      [] name = "ANATOLIAN HIEROGLYPH A416" -> 83413
      [] name = "ANATOLIAN HIEROGLYPH A417" -> 83414
      [] name = "ANATOLIAN HIEROGLYPH A418" -> 83415
      [] name = "ANATOLIAN HIEROGLYPH A419" -> 83416
      [] name = "ANATOLIAN HIEROGLYPH A420" -> 83417
      [] name = "ANATOLIAN HIEROGLYPH A421" -> 83418
      [] name = "ANATOLIAN HIEROGLYPH A422" -> 83419
      [] name = "ANATOLIAN HIEROGLYPH A423" -> 83420
      [] name = "ANATOLIAN HIEROGLYPH A424" -> 83421
      [] name = "ANATOLIAN HIEROGLYPH A425" -> 83422
      [] name = "ANATOLIAN HIEROGLYPH A426" -> 83423
      [] name = "ANATOLIAN HIEROGLYPH A427" -> 83424
      [] name = "ANATOLIAN HIEROGLYPH A428" -> 83425
      [] name = "ANATOLIAN HIEROGLYPH A429" -> 83426
      [] name = "ANATOLIAN HIEROGLYPH A430" -> 83427
      [] name = "ANATOLIAN HIEROGLYPH A431" -> 83428
      [] name = "ANATOLIAN HIEROGLYPH A432" -> 83429
      [] name = "ANATOLIAN HIEROGLYPH A433" -> 83430
      [] name = "ANATOLIAN HIEROGLYPH A434" -> 83431
      [] name = "ANATOLIAN HIEROGLYPH A435" -> 83432
      [] name = "ANATOLIAN HIEROGLYPH A436" -> 83433
      [] name = "ANATOLIAN HIEROGLYPH A437" -> 83434
      [] name = "ANATOLIAN HIEROGLYPH A438" -> 83435
      [] name = "ANATOLIAN HIEROGLYPH A439" -> 83436
      [] name = "ANATOLIAN HIEROGLYPH A440" -> 83437
      [] name = "ANATOLIAN HIEROGLYPH A441" -> 83438
      [] name = "ANATOLIAN HIEROGLYPH A442" -> 83439
      [] name = "ANATOLIAN HIEROGLYPH A443" -> 83440
      [] name = "ANATOLIAN HIEROGLYPH A444" -> 83441
      [] name = "ANATOLIAN HIEROGLYPH A445" -> 83442
      [] name = "ANATOLIAN HIEROGLYPH A446" -> 83443
      [] name = "ANATOLIAN HIEROGLYPH A447" -> 83444
      [] name = "ANATOLIAN HIEROGLYPH A448" -> 83445
      [] name = "ANATOLIAN HIEROGLYPH A449" -> 83446
      [] name = "ANATOLIAN HIEROGLYPH A450" -> 83447
      [] name = "ANATOLIAN HIEROGLYPH A450A" -> 83448
      [] name = "ANATOLIAN HIEROGLYPH A451" -> 83449
      [] name = "ANATOLIAN HIEROGLYPH A452" -> 83450
      [] name = "ANATOLIAN HIEROGLYPH A453" -> 83451
      [] name = "ANATOLIAN HIEROGLYPH A454" -> 83452
      [] name = "ANATOLIAN HIEROGLYPH A455" -> 83453
      [] name = "ANATOLIAN HIEROGLYPH A456" -> 83454
      [] name = "ANATOLIAN HIEROGLYPH A457" -> 83455
      [] name = "ANATOLIAN HIEROGLYPH A457A" -> 83456
      [] name = "ANATOLIAN HIEROGLYPH A458" -> 83457
      [] name = "ANATOLIAN HIEROGLYPH A459" -> 83458
      [] name = "ANATOLIAN HIEROGLYPH A460" -> 83459
      [] name = "ANATOLIAN HIEROGLYPH A461" -> 83460
      [] name = "ANATOLIAN HIEROGLYPH A462" -> 83461
      [] name = "ANATOLIAN HIEROGLYPH A463" -> 83462
      [] name = "ANATOLIAN HIEROGLYPH A464" -> 83463
      [] name = "ANATOLIAN HIEROGLYPH A465" -> 83464
      [] name = "ANATOLIAN HIEROGLYPH A466" -> 83465
      [] name = "ANATOLIAN HIEROGLYPH A467" -> 83466
      [] name = "ANATOLIAN HIEROGLYPH A468" -> 83467
      [] name = "ANATOLIAN HIEROGLYPH A469" -> 83468
      [] name = "ANATOLIAN HIEROGLYPH A470" -> 83469
      [] name = "ANATOLIAN HIEROGLYPH A471" -> 83470
      [] name = "ANATOLIAN HIEROGLYPH A472" -> 83471
      [] name = "ANATOLIAN HIEROGLYPH A473" -> 83472
      [] name = "ANATOLIAN HIEROGLYPH A474" -> 83473
      [] name = "ANATOLIAN HIEROGLYPH A475" -> 83474
      [] name = "ANATOLIAN HIEROGLYPH A476" -> 83475
      [] name = "ANATOLIAN HIEROGLYPH A477" -> 83476
      [] name = "ANATOLIAN HIEROGLYPH A478" -> 83477
      [] name = "ANATOLIAN HIEROGLYPH A479" -> 83478
      [] name = "ANATOLIAN HIEROGLYPH A480" -> 83479
      [] name = "ANATOLIAN HIEROGLYPH A481" -> 83480
      [] name = "ANATOLIAN HIEROGLYPH A482" -> 83481
      [] name = "ANATOLIAN HIEROGLYPH A483" -> 83482
      [] name = "ANATOLIAN HIEROGLYPH A484" -> 83483
      [] name = "ANATOLIAN HIEROGLYPH A485" -> 83484
      [] name = "ANATOLIAN HIEROGLYPH A486" -> 83485
      [] name = "ANATOLIAN HIEROGLYPH A487" -> 83486
      [] name = "ANATOLIAN HIEROGLYPH A488" -> 83487
      [] name = "ANATOLIAN HIEROGLYPH A489" -> 83488
      [] name = "ANATOLIAN HIEROGLYPH A490" -> 83489
      [] name = "ANATOLIAN HIEROGLYPH A491" -> 83490
      [] name = "ANATOLIAN HIEROGLYPH A492" -> 83491
      [] name = "ANATOLIAN HIEROGLYPH A493" -> 83492
      [] name = "ANATOLIAN HIEROGLYPH A494" -> 83493
      [] name = "ANATOLIAN HIEROGLYPH A495" -> 83494
      [] name = "ANATOLIAN HIEROGLYPH A496" -> 83495
      [] name = "ANATOLIAN HIEROGLYPH A497" -> 83496
      [] name = "ANATOLIAN HIEROGLYPH A501" -> 83497
      [] name = "ANATOLIAN HIEROGLYPH A502" -> 83498
      [] name = "ANATOLIAN HIEROGLYPH A503" -> 83499
      [] name = "ANATOLIAN HIEROGLYPH A504" -> 83500
      [] name = "ANATOLIAN HIEROGLYPH A505" -> 83501
      [] name = "ANATOLIAN HIEROGLYPH A506" -> 83502
      [] name = "ANATOLIAN HIEROGLYPH A507" -> 83503
      [] name = "ANATOLIAN HIEROGLYPH A508" -> 83504
      [] name = "ANATOLIAN HIEROGLYPH A509" -> 83505
      [] name = "ANATOLIAN HIEROGLYPH A510" -> 83506
      [] name = "ANATOLIAN HIEROGLYPH A511" -> 83507
      [] name = "ANATOLIAN HIEROGLYPH A512" -> 83508
      [] name = "ANATOLIAN HIEROGLYPH A513" -> 83509
      [] name = "ANATOLIAN HIEROGLYPH A514" -> 83510
      [] name = "ANATOLIAN HIEROGLYPH A515" -> 83511
      [] name = "ANATOLIAN HIEROGLYPH A516" -> 83512
      [] name = "ANATOLIAN HIEROGLYPH A517" -> 83513
      [] name = "ANATOLIAN HIEROGLYPH A518" -> 83514
      [] name = "ANATOLIAN HIEROGLYPH A519" -> 83515
      [] name = "ANATOLIAN HIEROGLYPH A520" -> 83516
      [] name = "ANATOLIAN HIEROGLYPH A521" -> 83517
      [] name = "ANATOLIAN HIEROGLYPH A522" -> 83518
      [] name = "ANATOLIAN HIEROGLYPH A523" -> 83519
      [] name = "ANATOLIAN HIEROGLYPH A524" -> 83520
      [] name = "ANATOLIAN HIEROGLYPH A525" -> 83521
      [] name = "ANATOLIAN HIEROGLYPH A526" -> 83522
      [] name = "ANATOLIAN HIEROGLYPH A527" -> 83523
      [] name = "ANATOLIAN HIEROGLYPH A528" -> 83524
      [] name = "ANATOLIAN HIEROGLYPH A529" -> 83525
      [] name = "ANATOLIAN HIEROGLYPH A530" -> 83526
      [] name = "BAMUM LETTER PHASE-A NGKUE MFON" -> 92160
      [] name = "BAMUM LETTER PHASE-A GBIEE FON" -> 92161
      [] name = "BAMUM LETTER PHASE-A PON MFON PIPAEMGBIEE" -> 92162
      [] name = "BAMUM LETTER PHASE-A PON MFON PIPAEMBA" -> 92163
      [] name = "BAMUM LETTER PHASE-A NAA MFON" -> 92164
      [] name = "BAMUM LETTER PHASE-A SHUENSHUET" -> 92165
      [] name = "BAMUM LETTER PHASE-A TITA MFON" -> 92166
      [] name = "BAMUM LETTER PHASE-A NZA MFON" -> 92167
      [] name = "BAMUM LETTER PHASE-A SHINDA PA NJI" -> 92168
      [] name = "BAMUM LETTER PHASE-A PON PA NJI PIPAEMGBIEE" -> 92169
      [] name = "BAMUM LETTER PHASE-A PON PA NJI PIPAEMBA" -> 92170
      [] name = "BAMUM LETTER PHASE-A MAEMBGBIEE" -> 92171
      [] name = "BAMUM LETTER PHASE-A TU MAEMBA" -> 92172
      [] name = "BAMUM LETTER PHASE-A NGANGU" -> 92173
      [] name = "BAMUM LETTER PHASE-A MAEMVEUX" -> 92174
      [] name = "BAMUM LETTER PHASE-A MANSUAE" -> 92175
      [] name = "BAMUM LETTER PHASE-A MVEUAENGAM" -> 92176
      [] name = "BAMUM LETTER PHASE-A SEUNYAM" -> 92177
      [] name = "BAMUM LETTER PHASE-A NTOQPEN" -> 92178
      [] name = "BAMUM LETTER PHASE-A KEUKEUTNDA" -> 92179
      [] name = "BAMUM LETTER PHASE-A NKINDI" -> 92180
      [] name = "BAMUM LETTER PHASE-A SUU" -> 92181
      [] name = "BAMUM LETTER PHASE-A NGKUENZEUM" -> 92182
      [] name = "BAMUM LETTER PHASE-A LAPAQ" -> 92183
      [] name = "BAMUM LETTER PHASE-A LET KUT" -> 92184
      [] name = "BAMUM LETTER PHASE-A NTAP MFAA" -> 92185
      [] name = "BAMUM LETTER PHASE-A MAEKEUP" -> 92186
      [] name = "BAMUM LETTER PHASE-A PASHAE" -> 92187
      [] name = "BAMUM LETTER PHASE-A GHEUAERAE" -> 92188
      [] name = "BAMUM LETTER PHASE-A PAMSHAE" -> 92189
      [] name = "BAMUM LETTER PHASE-A MON NGGEUAET" -> 92190
      [] name = "BAMUM LETTER PHASE-A NZUN MEUT" -> 92191
      [] name = "BAMUM LETTER PHASE-A U YUQ NAE" -> 92192
      [] name = "BAMUM LETTER PHASE-A GHEUAEGHEUAE" -> 92193
      [] name = "BAMUM LETTER PHASE-A NTAP NTAA" -> 92194
      [] name = "BAMUM LETTER PHASE-A SISA" -> 92195
      [] name = "BAMUM LETTER PHASE-A MGBASA" -> 92196
      [] name = "BAMUM LETTER PHASE-A MEUNJOMNDEUQ" -> 92197
      [] name = "BAMUM LETTER PHASE-A MOOMPUQ" -> 92198
      [] name = "BAMUM LETTER PHASE-A KAFA" -> 92199
      [] name = "BAMUM LETTER PHASE-A PA LEERAEWA" -> 92200
      [] name = "BAMUM LETTER PHASE-A NDA LEERAEWA" -> 92201
      [] name = "BAMUM LETTER PHASE-A PET" -> 92202
      [] name = "BAMUM LETTER PHASE-A MAEMKPEN" -> 92203
      [] name = "BAMUM LETTER PHASE-A NIKA" -> 92204
      [] name = "BAMUM LETTER PHASE-A PUP" -> 92205
      [] name = "BAMUM LETTER PHASE-A TUAEP" -> 92206
      [] name = "BAMUM LETTER PHASE-A LUAEP" -> 92207
      [] name = "BAMUM LETTER PHASE-A SONJAM" -> 92208
      [] name = "BAMUM LETTER PHASE-A TEUTEUWEN" -> 92209
      [] name = "BAMUM LETTER PHASE-A MAENYI" -> 92210
      [] name = "BAMUM LETTER PHASE-A KET" -> 92211
      [] name = "BAMUM LETTER PHASE-A NDAANGGEUAET" -> 92212
      [] name = "BAMUM LETTER PHASE-A KUOQ" -> 92213
      [] name = "BAMUM LETTER PHASE-A MOOMEUT" -> 92214
      [] name = "BAMUM LETTER PHASE-A SHUM" -> 92215
      [] name = "BAMUM LETTER PHASE-A LOMMAE" -> 92216
      [] name = "BAMUM LETTER PHASE-A FIRI" -> 92217
      [] name = "BAMUM LETTER PHASE-A ROM" -> 92218
      [] name = "BAMUM LETTER PHASE-A KPOQ" -> 92219
      [] name = "BAMUM LETTER PHASE-A SOQ" -> 92220
      [] name = "BAMUM LETTER PHASE-A MAP PIEET" -> 92221
      [] name = "BAMUM LETTER PHASE-A SHIRAE" -> 92222
      [] name = "BAMUM LETTER PHASE-A NTAP" -> 92223
      [] name = "BAMUM LETTER PHASE-A SHOQ NSHUT YUM" -> 92224
      [] name = "BAMUM LETTER PHASE-A NYIT MONGKEUAEQ" -> 92225
      [] name = "BAMUM LETTER PHASE-A PAARAE" -> 92226
      [] name = "BAMUM LETTER PHASE-A NKAARAE" -> 92227
      [] name = "BAMUM LETTER PHASE-A UNKNOWN" -> 92228
      [] name = "BAMUM LETTER PHASE-A NGGEN" -> 92229
      [] name = "BAMUM LETTER PHASE-A MAESI" -> 92230
      [] name = "BAMUM LETTER PHASE-A NJAM" -> 92231
      [] name = "BAMUM LETTER PHASE-A MBANYI" -> 92232
      [] name = "BAMUM LETTER PHASE-A NYET" -> 92233
      [] name = "BAMUM LETTER PHASE-A TEUAEN" -> 92234
      [] name = "BAMUM LETTER PHASE-A SOT" -> 92235
      [] name = "BAMUM LETTER PHASE-A PAAM" -> 92236
      [] name = "BAMUM LETTER PHASE-A NSHIEE" -> 92237
      [] name = "BAMUM LETTER PHASE-A MAEM" -> 92238
      [] name = "BAMUM LETTER PHASE-A NYI" -> 92239
      [] name = "BAMUM LETTER PHASE-A KAQ" -> 92240
      [] name = "BAMUM LETTER PHASE-A NSHA" -> 92241
      [] name = "BAMUM LETTER PHASE-A VEE" -> 92242
      [] name = "BAMUM LETTER PHASE-A LU" -> 92243
      [] name = "BAMUM LETTER PHASE-A NEN" -> 92244
      [] name = "BAMUM LETTER PHASE-A NAQ" -> 92245
      [] name = "BAMUM LETTER PHASE-A MBAQ" -> 92246
      [] name = "BAMUM LETTER PHASE-B NSHUET" -> 92247
      [] name = "BAMUM LETTER PHASE-B TU MAEMGBIEE" -> 92248
      [] name = "BAMUM LETTER PHASE-B SIEE" -> 92249
      [] name = "BAMUM LETTER PHASE-B SET TU" -> 92250
      [] name = "BAMUM LETTER PHASE-B LOM NTEUM" -> 92251
      [] name = "BAMUM LETTER PHASE-B MBA MAELEE" -> 92252
      [] name = "BAMUM LETTER PHASE-B KIEEM" -> 92253
      [] name = "BAMUM LETTER PHASE-B YEURAE" -> 92254
      [] name = "BAMUM LETTER PHASE-B MBAARAE" -> 92255
      [] name = "BAMUM LETTER PHASE-B KAM" -> 92256
      [] name = "BAMUM LETTER PHASE-B PEESHI" -> 92257
      [] name = "BAMUM LETTER PHASE-B YAFU LEERAEWA" -> 92258
      [] name = "BAMUM LETTER PHASE-B LAM NSHUT NYAM" -> 92259
      [] name = "BAMUM LETTER PHASE-B NTIEE SHEUOQ" -> 92260
      [] name = "BAMUM LETTER PHASE-B NDU NJAA" -> 92261
      [] name = "BAMUM LETTER PHASE-B GHEUGHEUAEM" -> 92262
      [] name = "BAMUM LETTER PHASE-B PIT" -> 92263
      [] name = "BAMUM LETTER PHASE-B TU NSIEE" -> 92264
      [] name = "BAMUM LETTER PHASE-B SHET NJAQ" -> 92265
      [] name = "BAMUM LETTER PHASE-B SHEUAEQTU" -> 92266
      [] name = "BAMUM LETTER PHASE-B MFON TEUAEQ" -> 92267
      [] name = "BAMUM LETTER PHASE-B MBIT MBAAKET" -> 92268
      [] name = "BAMUM LETTER PHASE-B NYI NTEUM" -> 92269
      [] name = "BAMUM LETTER PHASE-B KEUPUQ" -> 92270
      [] name = "BAMUM LETTER PHASE-B GHEUGHEN" -> 92271
      [] name = "BAMUM LETTER PHASE-B KEUYEUX" -> 92272
      [] name = "BAMUM LETTER PHASE-B LAANAE" -> 92273
      [] name = "BAMUM LETTER PHASE-B PARUM" -> 92274
      [] name = "BAMUM LETTER PHASE-B VEUM" -> 92275
      [] name = "BAMUM LETTER PHASE-B NGKINDI MVOP" -> 92276
      [] name = "BAMUM LETTER PHASE-B NGGEU MBU" -> 92277
      [] name = "BAMUM LETTER PHASE-B WUAET" -> 92278
      [] name = "BAMUM LETTER PHASE-B SAKEUAE" -> 92279
      [] name = "BAMUM LETTER PHASE-B TAAM" -> 92280
      [] name = "BAMUM LETTER PHASE-B MEUQ" -> 92281
      [] name = "BAMUM LETTER PHASE-B NGGUOQ" -> 92282
      [] name = "BAMUM LETTER PHASE-B NGGUOQ LARGE" -> 92283
      [] name = "BAMUM LETTER PHASE-B MFIYAQ" -> 92284
      [] name = "BAMUM LETTER PHASE-B SUE" -> 92285
      [] name = "BAMUM LETTER PHASE-B MBEURI" -> 92286
      [] name = "BAMUM LETTER PHASE-B MONTIEEN" -> 92287
      [] name = "BAMUM LETTER PHASE-B NYAEMAE" -> 92288
      [] name = "BAMUM LETTER PHASE-B PUNGAAM" -> 92289
      [] name = "BAMUM LETTER PHASE-B MEUT NGGEET" -> 92290
      [] name = "BAMUM LETTER PHASE-B FEUX" -> 92291
      [] name = "BAMUM LETTER PHASE-B MBUOQ" -> 92292
      [] name = "BAMUM LETTER PHASE-B FEE" -> 92293
      [] name = "BAMUM LETTER PHASE-B KEUAEM" -> 92294
      [] name = "BAMUM LETTER PHASE-B MA NJEUAENA" -> 92295
      [] name = "BAMUM LETTER PHASE-B MA NJUQA" -> 92296
      [] name = "BAMUM LETTER PHASE-B LET" -> 92297
      [] name = "BAMUM LETTER PHASE-B NGGAAM" -> 92298
      [] name = "BAMUM LETTER PHASE-B NSEN" -> 92299
      [] name = "BAMUM LETTER PHASE-B MA" -> 92300
      [] name = "BAMUM LETTER PHASE-B KIQ" -> 92301
      [] name = "BAMUM LETTER PHASE-B NGOM" -> 92302
      [] name = "BAMUM LETTER PHASE-C NGKUE MAEMBA" -> 92303
      [] name = "BAMUM LETTER PHASE-C NZA" -> 92304
      [] name = "BAMUM LETTER PHASE-C YUM" -> 92305
      [] name = "BAMUM LETTER PHASE-C WANGKUOQ" -> 92306
      [] name = "BAMUM LETTER PHASE-C NGGEN" -> 92307
      [] name = "BAMUM LETTER PHASE-C NDEUAEREE" -> 92308
      [] name = "BAMUM LETTER PHASE-C NGKAQ" -> 92309
      [] name = "BAMUM LETTER PHASE-C GHARAE" -> 92310
      [] name = "BAMUM LETTER PHASE-C MBEEKEET" -> 92311
      [] name = "BAMUM LETTER PHASE-C GBAYI" -> 92312
      [] name = "BAMUM LETTER PHASE-C NYIR MKPARAQ MEUN" -> 92313
      [] name = "BAMUM LETTER PHASE-C NTU MBIT" -> 92314
      [] name = "BAMUM LETTER PHASE-C MBEUM" -> 92315
      [] name = "BAMUM LETTER PHASE-C PIRIEEN" -> 92316
      [] name = "BAMUM LETTER PHASE-C NDOMBU" -> 92317
      [] name = "BAMUM LETTER PHASE-C MBAA CABBAGE-TREE" -> 92318
      [] name = "BAMUM LETTER PHASE-C KEUSHEUAEP" -> 92319
      [] name = "BAMUM LETTER PHASE-C GHAP" -> 92320
      [] name = "BAMUM LETTER PHASE-C KEUKAQ" -> 92321
      [] name = "BAMUM LETTER PHASE-C YU MUOMAE" -> 92322
      [] name = "BAMUM LETTER PHASE-C NZEUM" -> 92323
      [] name = "BAMUM LETTER PHASE-C MBUE" -> 92324
      [] name = "BAMUM LETTER PHASE-C NSEUAEN" -> 92325
      [] name = "BAMUM LETTER PHASE-C MBIT" -> 92326
      [] name = "BAMUM LETTER PHASE-C YEUQ" -> 92327
      [] name = "BAMUM LETTER PHASE-C KPARAQ" -> 92328
      [] name = "BAMUM LETTER PHASE-C KAA" -> 92329
      [] name = "BAMUM LETTER PHASE-C SEUX" -> 92330
      [] name = "BAMUM LETTER PHASE-C NDIDA" -> 92331
      [] name = "BAMUM LETTER PHASE-C TAASHAE" -> 92332
      [] name = "BAMUM LETTER PHASE-C NJUEQ" -> 92333
      [] name = "BAMUM LETTER PHASE-C TITA YUE" -> 92334
      [] name = "BAMUM LETTER PHASE-C SUAET" -> 92335
      [] name = "BAMUM LETTER PHASE-C NGGUAEN NYAM" -> 92336
      [] name = "BAMUM LETTER PHASE-C VEUX" -> 92337
      [] name = "BAMUM LETTER PHASE-C NANSANAQ" -> 92338
      [] name = "BAMUM LETTER PHASE-C MA KEUAERI" -> 92339
      [] name = "BAMUM LETTER PHASE-C NTAA" -> 92340
      [] name = "BAMUM LETTER PHASE-C NGGUON" -> 92341
      [] name = "BAMUM LETTER PHASE-C LAP" -> 92342
      [] name = "BAMUM LETTER PHASE-C MBIRIEEN" -> 92343
      [] name = "BAMUM LETTER PHASE-C MGBASAQ" -> 92344
      [] name = "BAMUM LETTER PHASE-C NTEUNGBA" -> 92345
      [] name = "BAMUM LETTER PHASE-C TEUTEUX" -> 92346
      [] name = "BAMUM LETTER PHASE-C NGGUM" -> 92347
      [] name = "BAMUM LETTER PHASE-C FUE" -> 92348
      [] name = "BAMUM LETTER PHASE-C NDEUT" -> 92349
      [] name = "BAMUM LETTER PHASE-C NSA" -> 92350
      [] name = "BAMUM LETTER PHASE-C NSHAQ" -> 92351
      [] name = "BAMUM LETTER PHASE-C BUNG" -> 92352
      [] name = "BAMUM LETTER PHASE-C VEUAEPEN" -> 92353
      [] name = "BAMUM LETTER PHASE-C MBERAE" -> 92354
      [] name = "BAMUM LETTER PHASE-C RU" -> 92355
      [] name = "BAMUM LETTER PHASE-C NJAEM" -> 92356
      [] name = "BAMUM LETTER PHASE-C LAM" -> 92357
      [] name = "BAMUM LETTER PHASE-C TITUAEP" -> 92358
      [] name = "BAMUM LETTER PHASE-C NSUOT NGOM" -> 92359
      [] name = "BAMUM LETTER PHASE-C NJEEEE" -> 92360
      [] name = "BAMUM LETTER PHASE-C KET" -> 92361
      [] name = "BAMUM LETTER PHASE-C NGGU" -> 92362
      [] name = "BAMUM LETTER PHASE-C MAESI" -> 92363
      [] name = "BAMUM LETTER PHASE-C MBUAEM" -> 92364
      [] name = "BAMUM LETTER PHASE-C LU" -> 92365
      [] name = "BAMUM LETTER PHASE-C KUT" -> 92366
      [] name = "BAMUM LETTER PHASE-C NJAM" -> 92367
      [] name = "BAMUM LETTER PHASE-C NGOM" -> 92368
      [] name = "BAMUM LETTER PHASE-C WUP" -> 92369
      [] name = "BAMUM LETTER PHASE-C NGGUEET" -> 92370
      [] name = "BAMUM LETTER PHASE-C NSOM" -> 92371
      [] name = "BAMUM LETTER PHASE-C NTEN" -> 92372
      [] name = "BAMUM LETTER PHASE-C KUOP NKAARAE" -> 92373
      [] name = "BAMUM LETTER PHASE-C NSUN" -> 92374
      [] name = "BAMUM LETTER PHASE-C NDAM" -> 92375
      [] name = "BAMUM LETTER PHASE-C MA NSIEE" -> 92376
      [] name = "BAMUM LETTER PHASE-C YAA" -> 92377
      [] name = "BAMUM LETTER PHASE-C NDAP" -> 92378
      [] name = "BAMUM LETTER PHASE-C SHUEQ" -> 92379
      [] name = "BAMUM LETTER PHASE-C SETFON" -> 92380
      [] name = "BAMUM LETTER PHASE-C MBI" -> 92381
      [] name = "BAMUM LETTER PHASE-C MAEMBA" -> 92382
      [] name = "BAMUM LETTER PHASE-C MBANYI" -> 92383
      [] name = "BAMUM LETTER PHASE-C KEUSEUX" -> 92384
      [] name = "BAMUM LETTER PHASE-C MBEUX" -> 92385
      [] name = "BAMUM LETTER PHASE-C KEUM" -> 92386
      [] name = "BAMUM LETTER PHASE-C MBAA PICKET" -> 92387
      [] name = "BAMUM LETTER PHASE-C YUWOQ" -> 92388
      [] name = "BAMUM LETTER PHASE-C NJEUX" -> 92389
      [] name = "BAMUM LETTER PHASE-C MIEE" -> 92390
      [] name = "BAMUM LETTER PHASE-C MUAE" -> 92391
      [] name = "BAMUM LETTER PHASE-C SHIQ" -> 92392
      [] name = "BAMUM LETTER PHASE-C KEN LAW" -> 92393
      [] name = "BAMUM LETTER PHASE-C KEN FATIGUE" -> 92394
      [] name = "BAMUM LETTER PHASE-C NGAQ" -> 92395
      [] name = "BAMUM LETTER PHASE-C NAQ" -> 92396
      [] name = "BAMUM LETTER PHASE-C LIQ" -> 92397
      [] name = "BAMUM LETTER PHASE-C PIN" -> 92398
      [] name = "BAMUM LETTER PHASE-C PEN" -> 92399
      [] name = "BAMUM LETTER PHASE-C TET" -> 92400
      [] name = "BAMUM LETTER PHASE-D MBUO" -> 92401
      [] name = "BAMUM LETTER PHASE-D WAP" -> 92402
      [] name = "BAMUM LETTER PHASE-D NJI" -> 92403
      [] name = "BAMUM LETTER PHASE-D MFON" -> 92404
      [] name = "BAMUM LETTER PHASE-D NJIEE" -> 92405
      [] name = "BAMUM LETTER PHASE-D LIEE" -> 92406
      [] name = "BAMUM LETTER PHASE-D NJEUT" -> 92407
      [] name = "BAMUM LETTER PHASE-D NSHEE" -> 92408
      [] name = "BAMUM LETTER PHASE-D NGGAAMAE" -> 92409
      [] name = "BAMUM LETTER PHASE-D NYAM" -> 92410
      [] name = "BAMUM LETTER PHASE-D WUAEN" -> 92411
      [] name = "BAMUM LETTER PHASE-D NGKUN" -> 92412
      [] name = "BAMUM LETTER PHASE-D SHEE" -> 92413
      [] name = "BAMUM LETTER PHASE-D NGKAP" -> 92414
      [] name = "BAMUM LETTER PHASE-D KEUAETMEUN" -> 92415
      [] name = "BAMUM LETTER PHASE-D TEUT" -> 92416
      [] name = "BAMUM LETTER PHASE-D SHEUAE" -> 92417
      [] name = "BAMUM LETTER PHASE-D NJAP" -> 92418
      [] name = "BAMUM LETTER PHASE-D SUE" -> 92419
      [] name = "BAMUM LETTER PHASE-D KET" -> 92420
      [] name = "BAMUM LETTER PHASE-D YAEMMAE" -> 92421
      [] name = "BAMUM LETTER PHASE-D KUOM" -> 92422
      [] name = "BAMUM LETTER PHASE-D SAP" -> 92423
      [] name = "BAMUM LETTER PHASE-D MFEUT" -> 92424
      [] name = "BAMUM LETTER PHASE-D NDEUX" -> 92425
      [] name = "BAMUM LETTER PHASE-D MALEERI" -> 92426
      [] name = "BAMUM LETTER PHASE-D MEUT" -> 92427
      [] name = "BAMUM LETTER PHASE-D SEUAEQ" -> 92428
      [] name = "BAMUM LETTER PHASE-D YEN" -> 92429
      [] name = "BAMUM LETTER PHASE-D NJEUAEM" -> 92430
      [] name = "BAMUM LETTER PHASE-D KEUOT MBUAE" -> 92431
      [] name = "BAMUM LETTER PHASE-D NGKEURI" -> 92432
      [] name = "BAMUM LETTER PHASE-D TU" -> 92433
      [] name = "BAMUM LETTER PHASE-D GHAA" -> 92434
      [] name = "BAMUM LETTER PHASE-D NGKYEE" -> 92435
      [] name = "BAMUM LETTER PHASE-D FEUFEUAET" -> 92436
      [] name = "BAMUM LETTER PHASE-D NDEE" -> 92437
      [] name = "BAMUM LETTER PHASE-D MGBOFUM" -> 92438
      [] name = "BAMUM LETTER PHASE-D LEUAEP" -> 92439
      [] name = "BAMUM LETTER PHASE-D NDON" -> 92440
      [] name = "BAMUM LETTER PHASE-D MONI" -> 92441
      [] name = "BAMUM LETTER PHASE-D MGBEUN" -> 92442
      [] name = "BAMUM LETTER PHASE-D PUUT" -> 92443
      [] name = "BAMUM LETTER PHASE-D MGBIEE" -> 92444
      [] name = "BAMUM LETTER PHASE-D MFO" -> 92445
      [] name = "BAMUM LETTER PHASE-D LUM" -> 92446
      [] name = "BAMUM LETTER PHASE-D NSIEEP" -> 92447
      [] name = "BAMUM LETTER PHASE-D MBAA" -> 92448
      [] name = "BAMUM LETTER PHASE-D KWAET" -> 92449
      [] name = "BAMUM LETTER PHASE-D NYET" -> 92450
      [] name = "BAMUM LETTER PHASE-D TEUAEN" -> 92451
      [] name = "BAMUM LETTER PHASE-D SOT" -> 92452
      [] name = "BAMUM LETTER PHASE-D YUWOQ" -> 92453
      [] name = "BAMUM LETTER PHASE-D KEUM" -> 92454
      [] name = "BAMUM LETTER PHASE-D RAEM" -> 92455
      [] name = "BAMUM LETTER PHASE-D TEEEE" -> 92456
      [] name = "BAMUM LETTER PHASE-D NGKEUAEQ" -> 92457
      [] name = "BAMUM LETTER PHASE-D MFEUAE" -> 92458
      [] name = "BAMUM LETTER PHASE-D NSIEET" -> 92459
      [] name = "BAMUM LETTER PHASE-D KEUP" -> 92460
      [] name = "BAMUM LETTER PHASE-D PIP" -> 92461
      [] name = "BAMUM LETTER PHASE-D PEUTAE" -> 92462
      [] name = "BAMUM LETTER PHASE-D NYUE" -> 92463
      [] name = "BAMUM LETTER PHASE-D LET" -> 92464
      [] name = "BAMUM LETTER PHASE-D NGGAAM" -> 92465
      [] name = "BAMUM LETTER PHASE-D MFIEE" -> 92466
      [] name = "BAMUM LETTER PHASE-D NGGWAEN" -> 92467
      [] name = "BAMUM LETTER PHASE-D YUOM" -> 92468
      [] name = "BAMUM LETTER PHASE-D PAP" -> 92469
      [] name = "BAMUM LETTER PHASE-D YUOP" -> 92470
      [] name = "BAMUM LETTER PHASE-D NDAM" -> 92471
      [] name = "BAMUM LETTER PHASE-D NTEUM" -> 92472
      [] name = "BAMUM LETTER PHASE-D SUAE" -> 92473
      [] name = "BAMUM LETTER PHASE-D KUN" -> 92474
      [] name = "BAMUM LETTER PHASE-D NGGEUX" -> 92475
      [] name = "BAMUM LETTER PHASE-D NGKIEE" -> 92476
      [] name = "BAMUM LETTER PHASE-D TUOT" -> 92477
      [] name = "BAMUM LETTER PHASE-D MEUN" -> 92478
      [] name = "BAMUM LETTER PHASE-D KUQ" -> 92479
      [] name = "BAMUM LETTER PHASE-D NSUM" -> 92480
      [] name = "BAMUM LETTER PHASE-D TEUN" -> 92481
      [] name = "BAMUM LETTER PHASE-D MAENJET" -> 92482
      [] name = "BAMUM LETTER PHASE-D NGGAP" -> 92483
      [] name = "BAMUM LETTER PHASE-D LEUM" -> 92484
      [] name = "BAMUM LETTER PHASE-D NGGUOM" -> 92485
      [] name = "BAMUM LETTER PHASE-D NSHUT" -> 92486
      [] name = "BAMUM LETTER PHASE-D NJUEQ" -> 92487
      [] name = "BAMUM LETTER PHASE-D GHEUAE" -> 92488
      [] name = "BAMUM LETTER PHASE-D KU" -> 92489
      [] name = "BAMUM LETTER PHASE-D REN OLD" -> 92490
      [] name = "BAMUM LETTER PHASE-D TAE" -> 92491
      [] name = "BAMUM LETTER PHASE-D TOQ" -> 92492
      [] name = "BAMUM LETTER PHASE-D NYI" -> 92493
      [] name = "BAMUM LETTER PHASE-D RII" -> 92494
      [] name = "BAMUM LETTER PHASE-D LEEEE" -> 92495
      [] name = "BAMUM LETTER PHASE-D MEEEE" -> 92496
      [] name = "BAMUM LETTER PHASE-D M" -> 92497
      [] name = "BAMUM LETTER PHASE-D SUU" -> 92498
      [] name = "BAMUM LETTER PHASE-D MU" -> 92499
      [] name = "BAMUM LETTER PHASE-D SHII" -> 92500
      [] name = "BAMUM LETTER PHASE-D SHEUX" -> 92501
      [] name = "BAMUM LETTER PHASE-D KYEE" -> 92502
      [] name = "BAMUM LETTER PHASE-D NU" -> 92503
      [] name = "BAMUM LETTER PHASE-D SHU" -> 92504
      [] name = "BAMUM LETTER PHASE-D NTEE" -> 92505
      [] name = "BAMUM LETTER PHASE-D PEE" -> 92506
      [] name = "BAMUM LETTER PHASE-D NI" -> 92507
      [] name = "BAMUM LETTER PHASE-D SHOQ" -> 92508
      [] name = "BAMUM LETTER PHASE-D PUQ" -> 92509
      [] name = "BAMUM LETTER PHASE-D MVOP" -> 92510
      [] name = "BAMUM LETTER PHASE-D LOQ" -> 92511
      [] name = "BAMUM LETTER PHASE-D REN MUCH" -> 92512
      [] name = "BAMUM LETTER PHASE-D TI" -> 92513
      [] name = "BAMUM LETTER PHASE-D NTUU" -> 92514
      [] name = "BAMUM LETTER PHASE-D MBAA SEVEN" -> 92515
      [] name = "BAMUM LETTER PHASE-D SAQ" -> 92516
      [] name = "BAMUM LETTER PHASE-D FAA" -> 92517
      [] name = "BAMUM LETTER PHASE-E NDAP" -> 92518
      [] name = "BAMUM LETTER PHASE-E TOON" -> 92519
      [] name = "BAMUM LETTER PHASE-E MBEUM" -> 92520
      [] name = "BAMUM LETTER PHASE-E LAP" -> 92521
      [] name = "BAMUM LETTER PHASE-E VOM" -> 92522
      [] name = "BAMUM LETTER PHASE-E LOON" -> 92523
      [] name = "BAMUM LETTER PHASE-E PAA" -> 92524
      [] name = "BAMUM LETTER PHASE-E SOM" -> 92525
      [] name = "BAMUM LETTER PHASE-E RAQ" -> 92526
      [] name = "BAMUM LETTER PHASE-E NSHUOP" -> 92527
      [] name = "BAMUM LETTER PHASE-E NDUN" -> 92528
      [] name = "BAMUM LETTER PHASE-E PUAE" -> 92529
      [] name = "BAMUM LETTER PHASE-E TAM" -> 92530
      [] name = "BAMUM LETTER PHASE-E NGKA" -> 92531
      [] name = "BAMUM LETTER PHASE-E KPEUX" -> 92532
      [] name = "BAMUM LETTER PHASE-E WUO" -> 92533
      [] name = "BAMUM LETTER PHASE-E SEE" -> 92534
      [] name = "BAMUM LETTER PHASE-E NGGEUAET" -> 92535
      [] name = "BAMUM LETTER PHASE-E PAAM" -> 92536
      [] name = "BAMUM LETTER PHASE-E TOO" -> 92537
      [] name = "BAMUM LETTER PHASE-E KUOP" -> 92538
      [] name = "BAMUM LETTER PHASE-E LOM" -> 92539
      [] name = "BAMUM LETTER PHASE-E NSHIEE" -> 92540
      [] name = "BAMUM LETTER PHASE-E NGOP" -> 92541
      [] name = "BAMUM LETTER PHASE-E MAEM" -> 92542
      [] name = "BAMUM LETTER PHASE-E NGKEUX" -> 92543
      [] name = "BAMUM LETTER PHASE-E NGOQ" -> 92544
      [] name = "BAMUM LETTER PHASE-E NSHUE" -> 92545
      [] name = "BAMUM LETTER PHASE-E RIMGBA" -> 92546
      [] name = "BAMUM LETTER PHASE-E NJEUX" -> 92547
      [] name = "BAMUM LETTER PHASE-E PEEM" -> 92548
      [] name = "BAMUM LETTER PHASE-E SAA" -> 92549
      [] name = "BAMUM LETTER PHASE-E NGGURAE" -> 92550
      [] name = "BAMUM LETTER PHASE-E MGBA" -> 92551
      [] name = "BAMUM LETTER PHASE-E GHEUX" -> 92552
      [] name = "BAMUM LETTER PHASE-E NGKEUAEM" -> 92553
      [] name = "BAMUM LETTER PHASE-E NJAEMLI" -> 92554
      [] name = "BAMUM LETTER PHASE-E MAP" -> 92555
      [] name = "BAMUM LETTER PHASE-E LOOT" -> 92556
      [] name = "BAMUM LETTER PHASE-E NGGEEEE" -> 92557
      [] name = "BAMUM LETTER PHASE-E NDIQ" -> 92558
      [] name = "BAMUM LETTER PHASE-E TAEN NTEUM" -> 92559
      [] name = "BAMUM LETTER PHASE-E SET" -> 92560
      [] name = "BAMUM LETTER PHASE-E PUM" -> 92561
      [] name = "BAMUM LETTER PHASE-E NDAA SOFTNESS" -> 92562
      [] name = "BAMUM LETTER PHASE-E NGGUAESHAE NYAM" -> 92563
      [] name = "BAMUM LETTER PHASE-E YIEE" -> 92564
      [] name = "BAMUM LETTER PHASE-E GHEUN" -> 92565
      [] name = "BAMUM LETTER PHASE-E TUAE" -> 92566
      [] name = "BAMUM LETTER PHASE-E YEUAE" -> 92567
      [] name = "BAMUM LETTER PHASE-E PO" -> 92568
      [] name = "BAMUM LETTER PHASE-E TUMAE" -> 92569
      [] name = "BAMUM LETTER PHASE-E KEUAE" -> 92570
      [] name = "BAMUM LETTER PHASE-E SUAEN" -> 92571
      [] name = "BAMUM LETTER PHASE-E TEUAEQ" -> 92572
      [] name = "BAMUM LETTER PHASE-E VEUAE" -> 92573
      [] name = "BAMUM LETTER PHASE-E WEUX" -> 92574
      [] name = "BAMUM LETTER PHASE-E LAAM" -> 92575
      [] name = "BAMUM LETTER PHASE-E PU" -> 92576
      [] name = "BAMUM LETTER PHASE-E TAAQ" -> 92577
      [] name = "BAMUM LETTER PHASE-E GHAAMAE" -> 92578
      [] name = "BAMUM LETTER PHASE-E NGEUREUT" -> 92579
      [] name = "BAMUM LETTER PHASE-E SHEUAEQ" -> 92580
      [] name = "BAMUM LETTER PHASE-E MGBEN" -> 92581
      [] name = "BAMUM LETTER PHASE-E MBEE" -> 92582
      [] name = "BAMUM LETTER PHASE-E NZAQ" -> 92583
      [] name = "BAMUM LETTER PHASE-E NKOM" -> 92584
      [] name = "BAMUM LETTER PHASE-E GBET" -> 92585
      [] name = "BAMUM LETTER PHASE-E TUM" -> 92586
      [] name = "BAMUM LETTER PHASE-E KUET" -> 92587
      [] name = "BAMUM LETTER PHASE-E YAP" -> 92588
      [] name = "BAMUM LETTER PHASE-E NYI CLEAVER" -> 92589
      [] name = "BAMUM LETTER PHASE-E YIT" -> 92590
      [] name = "BAMUM LETTER PHASE-E MFEUQ" -> 92591
      [] name = "BAMUM LETTER PHASE-E NDIAQ" -> 92592
      [] name = "BAMUM LETTER PHASE-E PIEEQ" -> 92593
      [] name = "BAMUM LETTER PHASE-E YUEQ" -> 92594
      [] name = "BAMUM LETTER PHASE-E LEUAEM" -> 92595
      [] name = "BAMUM LETTER PHASE-E FUE" -> 92596
      [] name = "BAMUM LETTER PHASE-E GBEUX" -> 92597
      [] name = "BAMUM LETTER PHASE-E NGKUP" -> 92598
      [] name = "BAMUM LETTER PHASE-E KET" -> 92599
      [] name = "BAMUM LETTER PHASE-E MAE" -> 92600
      [] name = "BAMUM LETTER PHASE-E NGKAAMI" -> 92601
      [] name = "BAMUM LETTER PHASE-E GHET" -> 92602
      [] name = "BAMUM LETTER PHASE-E FA" -> 92603
      [] name = "BAMUM LETTER PHASE-E NTUM" -> 92604
      [] name = "BAMUM LETTER PHASE-E PEUT" -> 92605
      [] name = "BAMUM LETTER PHASE-E YEUM" -> 92606
      [] name = "BAMUM LETTER PHASE-E NGGEUAE" -> 92607
      [] name = "BAMUM LETTER PHASE-E NYI BETWEEN" -> 92608
      [] name = "BAMUM LETTER PHASE-E NZUQ" -> 92609
      [] name = "BAMUM LETTER PHASE-E POON" -> 92610
      [] name = "BAMUM LETTER PHASE-E MIEE" -> 92611
      [] name = "BAMUM LETTER PHASE-E FUET" -> 92612
      [] name = "BAMUM LETTER PHASE-E NAE" -> 92613
      [] name = "BAMUM LETTER PHASE-E MUAE" -> 92614
      [] name = "BAMUM LETTER PHASE-E GHEUAE" -> 92615
      [] name = "BAMUM LETTER PHASE-E FU I" -> 92616
      [] name = "BAMUM LETTER PHASE-E MVI" -> 92617
      [] name = "BAMUM LETTER PHASE-E PUAQ" -> 92618
      [] name = "BAMUM LETTER PHASE-E NGKUM" -> 92619
      [] name = "BAMUM LETTER PHASE-E KUT" -> 92620
      [] name = "BAMUM LETTER PHASE-E PIET" -> 92621
      [] name = "BAMUM LETTER PHASE-E NTAP" -> 92622
      [] name = "BAMUM LETTER PHASE-E YEUAET" -> 92623
      [] name = "BAMUM LETTER PHASE-E NGGUP" -> 92624
      [] name = "BAMUM LETTER PHASE-E PA PEOPLE" -> 92625
      [] name = "BAMUM LETTER PHASE-E FU CALL" -> 92626
      [] name = "BAMUM LETTER PHASE-E FOM" -> 92627
      [] name = "BAMUM LETTER PHASE-E NJEE" -> 92628
      [] name = "BAMUM LETTER PHASE-E A" -> 92629
      [] name = "BAMUM LETTER PHASE-E TOQ" -> 92630
      [] name = "BAMUM LETTER PHASE-E O" -> 92631
      [] name = "BAMUM LETTER PHASE-E I" -> 92632
      [] name = "BAMUM LETTER PHASE-E LAQ" -> 92633
      [] name = "BAMUM LETTER PHASE-E PA PLURAL" -> 92634
      [] name = "BAMUM LETTER PHASE-E TAA" -> 92635
      [] name = "BAMUM LETTER PHASE-E TAQ" -> 92636
      [] name = "BAMUM LETTER PHASE-E NDAA MY HOUSE" -> 92637
      [] name = "BAMUM LETTER PHASE-E SHIQ" -> 92638
      [] name = "BAMUM LETTER PHASE-E YEUX" -> 92639
      [] name = "BAMUM LETTER PHASE-E NGUAE" -> 92640
      [] name = "BAMUM LETTER PHASE-E YUAEN" -> 92641
      [] name = "BAMUM LETTER PHASE-E YOQ SWIMMING" -> 92642
      [] name = "BAMUM LETTER PHASE-E YOQ COVER" -> 92643
      [] name = "BAMUM LETTER PHASE-E YUQ" -> 92644
      [] name = "BAMUM LETTER PHASE-E YUN" -> 92645
      [] name = "BAMUM LETTER PHASE-E KEUX" -> 92646
      [] name = "BAMUM LETTER PHASE-E PEUX" -> 92647
      [] name = "BAMUM LETTER PHASE-E NJEE EPOCH" -> 92648
      [] name = "BAMUM LETTER PHASE-E PUE" -> 92649
      [] name = "BAMUM LETTER PHASE-E WUE" -> 92650
      [] name = "BAMUM LETTER PHASE-E FEE" -> 92651
      [] name = "BAMUM LETTER PHASE-E VEE" -> 92652
      [] name = "BAMUM LETTER PHASE-E LU" -> 92653
      [] name = "BAMUM LETTER PHASE-E MI" -> 92654
      [] name = "BAMUM LETTER PHASE-E REUX" -> 92655
      [] name = "BAMUM LETTER PHASE-E RAE" -> 92656
      [] name = "BAMUM LETTER PHASE-E NGUAET" -> 92657
      [] name = "BAMUM LETTER PHASE-E NGA" -> 92658
      [] name = "BAMUM LETTER PHASE-E SHO" -> 92659
      [] name = "BAMUM LETTER PHASE-E SHOQ" -> 92660
      [] name = "BAMUM LETTER PHASE-E FU REMEDY" -> 92661
      [] name = "BAMUM LETTER PHASE-E NA" -> 92662
      [] name = "BAMUM LETTER PHASE-E PI" -> 92663
      [] name = "BAMUM LETTER PHASE-E LOQ" -> 92664
      [] name = "BAMUM LETTER PHASE-E KO" -> 92665
      [] name = "BAMUM LETTER PHASE-E MEN" -> 92666
      [] name = "BAMUM LETTER PHASE-E MA" -> 92667
      [] name = "BAMUM LETTER PHASE-E MAQ" -> 92668
      [] name = "BAMUM LETTER PHASE-E TEU" -> 92669
      [] name = "BAMUM LETTER PHASE-E KI" -> 92670
      [] name = "BAMUM LETTER PHASE-E MON" -> 92671
      [] name = "BAMUM LETTER PHASE-E TEN" -> 92672
      [] name = "BAMUM LETTER PHASE-E FAQ" -> 92673
      [] name = "BAMUM LETTER PHASE-E GHOM" -> 92674
      [] name = "BAMUM LETTER PHASE-F KA" -> 92675
      [] name = "BAMUM LETTER PHASE-F U" -> 92676
      [] name = "BAMUM LETTER PHASE-F KU" -> 92677
      [] name = "BAMUM LETTER PHASE-F EE" -> 92678
      [] name = "BAMUM LETTER PHASE-F REE" -> 92679
      [] name = "BAMUM LETTER PHASE-F TAE" -> 92680
      [] name = "BAMUM LETTER PHASE-F NYI" -> 92681
      [] name = "BAMUM LETTER PHASE-F LA" -> 92682
      [] name = "BAMUM LETTER PHASE-F RII" -> 92683
      [] name = "BAMUM LETTER PHASE-F RIEE" -> 92684
      [] name = "BAMUM LETTER PHASE-F MEEEE" -> 92685
      [] name = "BAMUM LETTER PHASE-F TAA" -> 92686
      [] name = "BAMUM LETTER PHASE-F NDAA" -> 92687
      [] name = "BAMUM LETTER PHASE-F NJAEM" -> 92688
      [] name = "BAMUM LETTER PHASE-F M" -> 92689
      [] name = "BAMUM LETTER PHASE-F SUU" -> 92690
      [] name = "BAMUM LETTER PHASE-F SHII" -> 92691
      [] name = "BAMUM LETTER PHASE-F SI" -> 92692
      [] name = "BAMUM LETTER PHASE-F SEUX" -> 92693
      [] name = "BAMUM LETTER PHASE-F KYEE" -> 92694
      [] name = "BAMUM LETTER PHASE-F KET" -> 92695
      [] name = "BAMUM LETTER PHASE-F NUAE" -> 92696
      [] name = "BAMUM LETTER PHASE-F NU" -> 92697
      [] name = "BAMUM LETTER PHASE-F NJUAE" -> 92698
      [] name = "BAMUM LETTER PHASE-F YOQ" -> 92699
      [] name = "BAMUM LETTER PHASE-F SHU" -> 92700
      [] name = "BAMUM LETTER PHASE-F YA" -> 92701
      [] name = "BAMUM LETTER PHASE-F NSHA" -> 92702
      [] name = "BAMUM LETTER PHASE-F PEUX" -> 92703
      [] name = "BAMUM LETTER PHASE-F NTEE" -> 92704
      [] name = "BAMUM LETTER PHASE-F WUE" -> 92705
      [] name = "BAMUM LETTER PHASE-F PEE" -> 92706
      [] name = "BAMUM LETTER PHASE-F RU" -> 92707
      [] name = "BAMUM LETTER PHASE-F NI" -> 92708
      [] name = "BAMUM LETTER PHASE-F REUX" -> 92709
      [] name = "BAMUM LETTER PHASE-F KEN" -> 92710
      [] name = "BAMUM LETTER PHASE-F NGKWAEN" -> 92711
      [] name = "BAMUM LETTER PHASE-F NGGA" -> 92712
      [] name = "BAMUM LETTER PHASE-F SHO" -> 92713
      [] name = "BAMUM LETTER PHASE-F PUAE" -> 92714
      [] name = "BAMUM LETTER PHASE-F FOM" -> 92715
      [] name = "BAMUM LETTER PHASE-F WA" -> 92716
      [] name = "BAMUM LETTER PHASE-F LI" -> 92717
      [] name = "BAMUM LETTER PHASE-F LOQ" -> 92718
      [] name = "BAMUM LETTER PHASE-F KO" -> 92719
      [] name = "BAMUM LETTER PHASE-F MBEN" -> 92720
      [] name = "BAMUM LETTER PHASE-F REN" -> 92721
      [] name = "BAMUM LETTER PHASE-F MA" -> 92722
      [] name = "BAMUM LETTER PHASE-F MO" -> 92723
      [] name = "BAMUM LETTER PHASE-F MBAA" -> 92724
      [] name = "BAMUM LETTER PHASE-F TET" -> 92725
      [] name = "BAMUM LETTER PHASE-F KPA" -> 92726
      [] name = "BAMUM LETTER PHASE-F SAMBA" -> 92727
      [] name = "BAMUM LETTER PHASE-F VUEQ" -> 92728
      [] name = "MRO LETTER TA" -> 92736
      [] name = "MRO LETTER NGI" -> 92737
      [] name = "MRO LETTER YO" -> 92738
      [] name = "MRO LETTER MIM" -> 92739
      [] name = "MRO LETTER BA" -> 92740
      [] name = "MRO LETTER DA" -> 92741
      [] name = "MRO LETTER A" -> 92742
      [] name = "MRO LETTER PHI" -> 92743
      [] name = "MRO LETTER KHAI" -> 92744
      [] name = "MRO LETTER HAO" -> 92745
      [] name = "MRO LETTER DAI" -> 92746
      [] name = "MRO LETTER CHU" -> 92747
      [] name = "MRO LETTER KEAAE" -> 92748
      [] name = "MRO LETTER OL" -> 92749
      [] name = "MRO LETTER MAEM" -> 92750
      [] name = "MRO LETTER NIN" -> 92751
      [] name = "MRO LETTER PA" -> 92752
      [] name = "MRO LETTER OO" -> 92753
      [] name = "MRO LETTER O" -> 92754
      [] name = "MRO LETTER RO" -> 92755
      [] name = "MRO LETTER SHI" -> 92756
      [] name = "MRO LETTER THEA" -> 92757
      [] name = "MRO LETTER EA" -> 92758
      [] name = "MRO LETTER WA" -> 92759
      [] name = "MRO LETTER E" -> 92760
      [] name = "MRO LETTER KO" -> 92761
      [] name = "MRO LETTER LAN" -> 92762
      [] name = "MRO LETTER LA" -> 92763
      [] name = "MRO LETTER HAI" -> 92764
      [] name = "MRO LETTER RI" -> 92765
      [] name = "MRO LETTER TEK" -> 92766
      [] name = "MRO DIGIT ZERO" -> 92768
      [] name = "MRO DIGIT ONE" -> 92769
      [] name = "MRO DIGIT TWO" -> 92770
      [] name = "MRO DIGIT THREE" -> 92771
      [] name = "MRO DIGIT FOUR" -> 92772
      [] name = "MRO DIGIT FIVE" -> 92773
      [] name = "MRO DIGIT SIX" -> 92774
      [] name = "MRO DIGIT SEVEN" -> 92775
      [] name = "MRO DIGIT EIGHT" -> 92776
      [] name = "MRO DIGIT NINE" -> 92777
      [] name = "MRO DANDA" -> 92782
      [] name = "MRO DOUBLE DANDA" -> 92783
      [] name = "TANGSA LETTER OZ" -> 92784
      [] name = "TANGSA LETTER OC" -> 92785
      [] name = "TANGSA LETTER OQ" -> 92786
      [] name = "TANGSA LETTER OX" -> 92787
      [] name = "TANGSA LETTER AZ" -> 92788
      [] name = "TANGSA LETTER AC" -> 92789
      [] name = "TANGSA LETTER AQ" -> 92790
      [] name = "TANGSA LETTER AX" -> 92791
      [] name = "TANGSA LETTER VZ" -> 92792
      [] name = "TANGSA LETTER VC" -> 92793
      [] name = "TANGSA LETTER VQ" -> 92794
      [] name = "TANGSA LETTER VX" -> 92795
      [] name = "TANGSA LETTER EZ" -> 92796
      [] name = "TANGSA LETTER EC" -> 92797
      [] name = "TANGSA LETTER EQ" -> 92798
      [] name = "TANGSA LETTER EX" -> 92799
      [] name = "TANGSA LETTER IZ" -> 92800
      [] name = "TANGSA LETTER IC" -> 92801
      [] name = "TANGSA LETTER IQ" -> 92802
      [] name = "TANGSA LETTER IX" -> 92803
      [] name = "TANGSA LETTER UZ" -> 92804
      [] name = "TANGSA LETTER UC" -> 92805
      [] name = "TANGSA LETTER UQ" -> 92806
      [] name = "TANGSA LETTER UX" -> 92807
      [] name = "TANGSA LETTER AWZ" -> 92808
      [] name = "TANGSA LETTER AWC" -> 92809
      [] name = "TANGSA LETTER AWQ" -> 92810
      [] name = "TANGSA LETTER AWX" -> 92811
      [] name = "TANGSA LETTER UIZ" -> 92812
      [] name = "TANGSA LETTER UIC" -> 92813
      [] name = "TANGSA LETTER UIQ" -> 92814
      [] name = "TANGSA LETTER UIX" -> 92815
      [] name = "TANGSA LETTER FINAL NG" -> 92816
      [] name = "TANGSA LETTER LONG UEX" -> 92817
      [] name = "TANGSA LETTER SHORT UEZ" -> 92818
      [] name = "TANGSA LETTER SHORT AWX" -> 92819
      [] name = "TANGSA LETTER UEC" -> 92820
      [] name = "TANGSA LETTER UEZ" -> 92821
      [] name = "TANGSA LETTER UEQ" -> 92822
      [] name = "TANGSA LETTER UEX" -> 92823
      [] name = "TANGSA LETTER UIUZ" -> 92824
      [] name = "TANGSA LETTER UIUC" -> 92825
      [] name = "TANGSA LETTER UIUQ" -> 92826
      [] name = "TANGSA LETTER UIUX" -> 92827
      [] name = "TANGSA LETTER MZ" -> 92828
      [] name = "TANGSA LETTER MC" -> 92829
      [] name = "TANGSA LETTER MQ" -> 92830
      [] name = "TANGSA LETTER MX" -> 92831
      [] name = "TANGSA LETTER KA" -> 92832
      [] name = "TANGSA LETTER KHA" -> 92833
      [] name = "TANGSA LETTER GA" -> 92834
      [] name = "TANGSA LETTER NGA" -> 92835
      [] name = "TANGSA LETTER SA" -> 92836
      [] name = "TANGSA LETTER YA" -> 92837
      [] name = "TANGSA LETTER WA" -> 92838
      [] name = "TANGSA LETTER PA" -> 92839
      [] name = "TANGSA LETTER NYA" -> 92840
      [] name = "TANGSA LETTER PHA" -> 92841
      [] name = "TANGSA LETTER BA" -> 92842
      [] name = "TANGSA LETTER MA" -> 92843
      [] name = "TANGSA LETTER NA" -> 92844
      [] name = "TANGSA LETTER HA" -> 92845
      [] name = "TANGSA LETTER LA" -> 92846
      [] name = "TANGSA LETTER HTA" -> 92847
      [] name = "TANGSA LETTER TA" -> 92848
      [] name = "TANGSA LETTER DA" -> 92849
      [] name = "TANGSA LETTER RA" -> 92850
      [] name = "TANGSA LETTER NHA" -> 92851
      [] name = "TANGSA LETTER SHA" -> 92852
      [] name = "TANGSA LETTER CA" -> 92853
      [] name = "TANGSA LETTER TSA" -> 92854
      [] name = "TANGSA LETTER GHA" -> 92855
      [] name = "TANGSA LETTER HTTA" -> 92856
      [] name = "TANGSA LETTER THA" -> 92857
      [] name = "TANGSA LETTER XA" -> 92858
      [] name = "TANGSA LETTER FA" -> 92859
      [] name = "TANGSA LETTER DHA" -> 92860
      [] name = "TANGSA LETTER CHA" -> 92861
      [] name = "TANGSA LETTER ZA" -> 92862
      [] name = "TANGSA DIGIT ZERO" -> 92864
      [] name = "TANGSA DIGIT ONE" -> 92865
      [] name = "TANGSA DIGIT TWO" -> 92866
      [] name = "TANGSA DIGIT THREE" -> 92867
      [] name = "TANGSA DIGIT FOUR" -> 92868
      [] name = "TANGSA DIGIT FIVE" -> 92869
      [] name = "TANGSA DIGIT SIX" -> 92870
      [] name = "TANGSA DIGIT SEVEN" -> 92871
      [] name = "TANGSA DIGIT EIGHT" -> 92872
      [] name = "TANGSA DIGIT NINE" -> 92873
      [] name = "BASSA VAH LETTER ENNI" -> 92880
      [] name = "BASSA VAH LETTER KA" -> 92881
      [] name = "BASSA VAH LETTER SE" -> 92882
      [] name = "BASSA VAH LETTER FA" -> 92883
      [] name = "BASSA VAH LETTER MBE" -> 92884
      [] name = "BASSA VAH LETTER YIE" -> 92885
      [] name = "BASSA VAH LETTER GAH" -> 92886
      [] name = "BASSA VAH LETTER DHII" -> 92887
      [] name = "BASSA VAH LETTER KPAH" -> 92888
      [] name = "BASSA VAH LETTER JO" -> 92889
      [] name = "BASSA VAH LETTER HWAH" -> 92890
      [] name = "BASSA VAH LETTER WA" -> 92891
      [] name = "BASSA VAH LETTER ZO" -> 92892
      [] name = "BASSA VAH LETTER GBU" -> 92893
      [] name = "BASSA VAH LETTER DO" -> 92894
      [] name = "BASSA VAH LETTER CE" -> 92895
      [] name = "BASSA VAH LETTER UWU" -> 92896
      [] name = "BASSA VAH LETTER TO" -> 92897
      [] name = "BASSA VAH LETTER BA" -> 92898
      [] name = "BASSA VAH LETTER VU" -> 92899
      [] name = "BASSA VAH LETTER YEIN" -> 92900
      [] name = "BASSA VAH LETTER PA" -> 92901
      [] name = "BASSA VAH LETTER WADDA" -> 92902
      [] name = "BASSA VAH LETTER A" -> 92903
      [] name = "BASSA VAH LETTER O" -> 92904
      [] name = "BASSA VAH LETTER OO" -> 92905
      [] name = "BASSA VAH LETTER U" -> 92906
      [] name = "BASSA VAH LETTER EE" -> 92907
      [] name = "BASSA VAH LETTER E" -> 92908
      [] name = "BASSA VAH LETTER I" -> 92909
      [] name = "BASSA VAH COMBINING HIGH TONE" -> 92912
      [] name = "BASSA VAH COMBINING LOW TONE" -> 92913
      [] name = "BASSA VAH COMBINING MID TONE" -> 92914
      [] name = "BASSA VAH COMBINING LOW-MID TONE" -> 92915
      [] name = "BASSA VAH COMBINING HIGH-LOW TONE" -> 92916
      [] name = "BASSA VAH FULL STOP" -> 92917
      [] name = "PAHAWH HMONG VOWEL KEEB" -> 92928
      [] name = "PAHAWH HMONG VOWEL KEEV" -> 92929
      [] name = "PAHAWH HMONG VOWEL KIB" -> 92930
      [] name = "PAHAWH HMONG VOWEL KIV" -> 92931
      [] name = "PAHAWH HMONG VOWEL KAUB" -> 92932
      [] name = "PAHAWH HMONG VOWEL KAUV" -> 92933
      [] name = "PAHAWH HMONG VOWEL KUB" -> 92934
      [] name = "PAHAWH HMONG VOWEL KUV" -> 92935
      [] name = "PAHAWH HMONG VOWEL KEB" -> 92936
      [] name = "PAHAWH HMONG VOWEL KEV" -> 92937
      [] name = "PAHAWH HMONG VOWEL KAIB" -> 92938
      [] name = "PAHAWH HMONG VOWEL KAIV" -> 92939
      [] name = "PAHAWH HMONG VOWEL KOOB" -> 92940
      [] name = "PAHAWH HMONG VOWEL KOOV" -> 92941
      [] name = "PAHAWH HMONG VOWEL KAWB" -> 92942
      [] name = "PAHAWH HMONG VOWEL KAWV" -> 92943
      [] name = "PAHAWH HMONG VOWEL KUAB" -> 92944
      [] name = "PAHAWH HMONG VOWEL KUAV" -> 92945
      [] name = "PAHAWH HMONG VOWEL KOB" -> 92946
      [] name = "PAHAWH HMONG VOWEL KOV" -> 92947
      [] name = "PAHAWH HMONG VOWEL KIAB" -> 92948
      [] name = "PAHAWH HMONG VOWEL KIAV" -> 92949
      [] name = "PAHAWH HMONG VOWEL KAB" -> 92950
      [] name = "PAHAWH HMONG VOWEL KAV" -> 92951
      [] name = "PAHAWH HMONG VOWEL KWB" -> 92952
      [] name = "PAHAWH HMONG VOWEL KWV" -> 92953
      [] name = "PAHAWH HMONG VOWEL KAAB" -> 92954
      [] name = "PAHAWH HMONG VOWEL KAAV" -> 92955
      [] name = "PAHAWH HMONG CONSONANT VAU" -> 92956
      [] name = "PAHAWH HMONG CONSONANT NTSAU" -> 92957
      [] name = "PAHAWH HMONG CONSONANT LAU" -> 92958
      [] name = "PAHAWH HMONG CONSONANT HAU" -> 92959
      [] name = "PAHAWH HMONG CONSONANT NLAU" -> 92960
      [] name = "PAHAWH HMONG CONSONANT RAU" -> 92961
      [] name = "PAHAWH HMONG CONSONANT NKAU" -> 92962
      [] name = "PAHAWH HMONG CONSONANT QHAU" -> 92963
      [] name = "PAHAWH HMONG CONSONANT YAU" -> 92964
      [] name = "PAHAWH HMONG CONSONANT HLAU" -> 92965
      [] name = "PAHAWH HMONG CONSONANT MAU" -> 92966
      [] name = "PAHAWH HMONG CONSONANT CHAU" -> 92967
      [] name = "PAHAWH HMONG CONSONANT NCHAU" -> 92968
      [] name = "PAHAWH HMONG CONSONANT HNAU" -> 92969
      [] name = "PAHAWH HMONG CONSONANT PLHAU" -> 92970
      [] name = "PAHAWH HMONG CONSONANT NTHAU" -> 92971
      [] name = "PAHAWH HMONG CONSONANT NAU" -> 92972
      [] name = "PAHAWH HMONG CONSONANT AU" -> 92973
      [] name = "PAHAWH HMONG CONSONANT XAU" -> 92974
      [] name = "PAHAWH HMONG CONSONANT CAU" -> 92975
      [] name = "PAHAWH HMONG MARK CIM TUB" -> 92976
      [] name = "PAHAWH HMONG MARK CIM SO" -> 92977
      [] name = "PAHAWH HMONG MARK CIM KES" -> 92978
      [] name = "PAHAWH HMONG MARK CIM KHAV" -> 92979
      [] name = "PAHAWH HMONG MARK CIM SUAM" -> 92980
      [] name = "PAHAWH HMONG MARK CIM HOM" -> 92981
      [] name = "PAHAWH HMONG MARK CIM TAUM" -> 92982
      [] name = "PAHAWH HMONG SIGN VOS THOM" -> 92983
      [] name = "PAHAWH HMONG SIGN VOS TSHAB CEEB" -> 92984
      [] name = "PAHAWH HMONG SIGN CIM CHEEM" -> 92985
      [] name = "PAHAWH HMONG SIGN VOS THIAB" -> 92986
      [] name = "PAHAWH HMONG SIGN VOS FEEM" -> 92987
      [] name = "PAHAWH HMONG SIGN XYEEM NTXIV" -> 92988
      [] name = "PAHAWH HMONG SIGN XYEEM RHO" -> 92989
      [] name = "PAHAWH HMONG SIGN XYEEM TOV" -> 92990
      [] name = "PAHAWH HMONG SIGN XYEEM FAIB" -> 92991
      [] name = "PAHAWH HMONG SIGN VOS SEEV" -> 92992
      [] name = "PAHAWH HMONG SIGN MEEJ SUAB" -> 92993
      [] name = "PAHAWH HMONG SIGN VOS NRUA" -> 92994
      [] name = "PAHAWH HMONG SIGN IB YAM" -> 92995
      [] name = "PAHAWH HMONG SIGN XAUS" -> 92996
      [] name = "PAHAWH HMONG SIGN CIM TSOV ROG" -> 92997
      [] name = "PAHAWH HMONG DIGIT ZERO" -> 93008
      [] name = "PAHAWH HMONG DIGIT ONE" -> 93009
      [] name = "PAHAWH HMONG DIGIT TWO" -> 93010
      [] name = "PAHAWH HMONG DIGIT THREE" -> 93011
      [] name = "PAHAWH HMONG DIGIT FOUR" -> 93012
      [] name = "PAHAWH HMONG DIGIT FIVE" -> 93013
      [] name = "PAHAWH HMONG DIGIT SIX" -> 93014
      [] name = "PAHAWH HMONG DIGIT SEVEN" -> 93015
      [] name = "PAHAWH HMONG DIGIT EIGHT" -> 93016
      [] name = "PAHAWH HMONG DIGIT NINE" -> 93017
      [] name = "PAHAWH HMONG NUMBER TENS" -> 93019
      [] name = "PAHAWH HMONG NUMBER HUNDREDS" -> 93020
      [] name = "PAHAWH HMONG NUMBER TEN THOUSANDS" -> 93021
      [] name = "PAHAWH HMONG NUMBER MILLIONS" -> 93022
      [] name = "PAHAWH HMONG NUMBER HUNDRED MILLIONS" -> 93023
      [] name = "PAHAWH HMONG NUMBER TEN BILLIONS" -> 93024
      [] name = "PAHAWH HMONG NUMBER TRILLIONS" -> 93025
      [] name = "PAHAWH HMONG SIGN VOS LUB" -> 93027
      [] name = "PAHAWH HMONG SIGN XYOO" -> 93028
      [] name = "PAHAWH HMONG SIGN HLI" -> 93029
      [] name = "PAHAWH HMONG SIGN THIRD-STAGE HLI" -> 93030
      [] name = "PAHAWH HMONG SIGN ZWJ THAJ" -> 93031
      [] name = "PAHAWH HMONG SIGN HNUB" -> 93032
      [] name = "PAHAWH HMONG SIGN NQIG" -> 93033
      [] name = "PAHAWH HMONG SIGN XIAB" -> 93034
      [] name = "PAHAWH HMONG SIGN NTUJ" -> 93035
      [] name = "PAHAWH HMONG SIGN AV" -> 93036
      [] name = "PAHAWH HMONG SIGN TXHEEJ CEEV" -> 93037
      [] name = "PAHAWH HMONG SIGN MEEJ TSEEB" -> 93038
      [] name = "PAHAWH HMONG SIGN TAU" -> 93039
      [] name = "PAHAWH HMONG SIGN LOS" -> 93040
      [] name = "PAHAWH HMONG SIGN MUS" -> 93041
      [] name = "PAHAWH HMONG SIGN CIM HAIS LUS NTOG NTOG" -> 93042
      [] name = "PAHAWH HMONG SIGN CIM CUAM TSHOOJ" -> 93043
      [] name = "PAHAWH HMONG SIGN CIM TXWV" -> 93044
      [] name = "PAHAWH HMONG SIGN CIM TXWV CHWV" -> 93045
      [] name = "PAHAWH HMONG SIGN CIM PUB DAWB" -> 93046
      [] name = "PAHAWH HMONG SIGN CIM NRES TOS" -> 93047
      [] name = "PAHAWH HMONG CLAN SIGN TSHEEJ" -> 93053
      [] name = "PAHAWH HMONG CLAN SIGN YEEG" -> 93054
      [] name = "PAHAWH HMONG CLAN SIGN LIS" -> 93055
      [] name = "PAHAWH HMONG CLAN SIGN LAUJ" -> 93056
      [] name = "PAHAWH HMONG CLAN SIGN XYOOJ" -> 93057
      [] name = "PAHAWH HMONG CLAN SIGN KOO" -> 93058
      [] name = "PAHAWH HMONG CLAN SIGN HAWJ" -> 93059
      [] name = "PAHAWH HMONG CLAN SIGN MUAS" -> 93060
      [] name = "PAHAWH HMONG CLAN SIGN THOJ" -> 93061
      [] name = "PAHAWH HMONG CLAN SIGN TSAB" -> 93062
      [] name = "PAHAWH HMONG CLAN SIGN PHAB" -> 93063
      [] name = "PAHAWH HMONG CLAN SIGN KHAB" -> 93064
      [] name = "PAHAWH HMONG CLAN SIGN HAM" -> 93065
      [] name = "PAHAWH HMONG CLAN SIGN VAJ" -> 93066
      [] name = "PAHAWH HMONG CLAN SIGN FAJ" -> 93067
      [] name = "PAHAWH HMONG CLAN SIGN YAJ" -> 93068
      [] name = "PAHAWH HMONG CLAN SIGN TSWB" -> 93069
      [] name = "PAHAWH HMONG CLAN SIGN KWM" -> 93070
      [] name = "PAHAWH HMONG CLAN SIGN VWJ" -> 93071
      [] name = "MEDEFAIDRIN CAPITAL LETTER M" -> 93760
      [] name = "MEDEFAIDRIN CAPITAL LETTER S" -> 93761
      [] name = "MEDEFAIDRIN CAPITAL LETTER V" -> 93762
      [] name = "MEDEFAIDRIN CAPITAL LETTER W" -> 93763
      [] name = "MEDEFAIDRIN CAPITAL LETTER ATIU" -> 93764
      [] name = "MEDEFAIDRIN CAPITAL LETTER Z" -> 93765
      [] name = "MEDEFAIDRIN CAPITAL LETTER KP" -> 93766
      [] name = "MEDEFAIDRIN CAPITAL LETTER P" -> 93767
      [] name = "MEDEFAIDRIN CAPITAL LETTER T" -> 93768
      [] name = "MEDEFAIDRIN CAPITAL LETTER G" -> 93769
      [] name = "MEDEFAIDRIN CAPITAL LETTER F" -> 93770
      [] name = "MEDEFAIDRIN CAPITAL LETTER I" -> 93771
      [] name = "MEDEFAIDRIN CAPITAL LETTER K" -> 93772
      [] name = "MEDEFAIDRIN CAPITAL LETTER A" -> 93773
      [] name = "MEDEFAIDRIN CAPITAL LETTER J" -> 93774
      [] name = "MEDEFAIDRIN CAPITAL LETTER E" -> 93775
      [] name = "MEDEFAIDRIN CAPITAL LETTER B" -> 93776
      [] name = "MEDEFAIDRIN CAPITAL LETTER C" -> 93777
      [] name = "MEDEFAIDRIN CAPITAL LETTER U" -> 93778
      [] name = "MEDEFAIDRIN CAPITAL LETTER YU" -> 93779
      [] name = "MEDEFAIDRIN CAPITAL LETTER L" -> 93780
      [] name = "MEDEFAIDRIN CAPITAL LETTER Q" -> 93781
      [] name = "MEDEFAIDRIN CAPITAL LETTER H" -> 93782
      [] name = "MEDEFAIDRIN CAPITAL LETTER HP" -> 93782
      [] name = "MEDEFAIDRIN CAPITAL LETTER NG" -> 93783
      [] name = "MEDEFAIDRIN CAPITAL LETTER NY" -> 93783
      [] name = "MEDEFAIDRIN CAPITAL LETTER X" -> 93784
      [] name = "MEDEFAIDRIN CAPITAL LETTER D" -> 93785
      [] name = "MEDEFAIDRIN CAPITAL LETTER OE" -> 93786
      [] name = "MEDEFAIDRIN CAPITAL LETTER N" -> 93787
      [] name = "MEDEFAIDRIN CAPITAL LETTER R" -> 93788
      [] name = "MEDEFAIDRIN CAPITAL LETTER O" -> 93789
      [] name = "MEDEFAIDRIN CAPITAL LETTER AI" -> 93790
      [] name = "MEDEFAIDRIN CAPITAL LETTER Y" -> 93791
      [] name = "MEDEFAIDRIN SMALL LETTER M" -> 93792
      [] name = "MEDEFAIDRIN SMALL LETTER S" -> 93793
      [] name = "MEDEFAIDRIN SMALL LETTER V" -> 93794
      [] name = "MEDEFAIDRIN SMALL LETTER W" -> 93795
      [] name = "MEDEFAIDRIN SMALL LETTER ATIU" -> 93796
      [] name = "MEDEFAIDRIN SMALL LETTER Z" -> 93797
      [] name = "MEDEFAIDRIN SMALL LETTER KP" -> 93798
      [] name = "MEDEFAIDRIN SMALL LETTER P" -> 93799
      [] name = "MEDEFAIDRIN SMALL LETTER T" -> 93800
      [] name = "MEDEFAIDRIN SMALL LETTER G" -> 93801
      [] name = "MEDEFAIDRIN SMALL LETTER F" -> 93802
      [] name = "MEDEFAIDRIN SMALL LETTER I" -> 93803
      [] name = "MEDEFAIDRIN SMALL LETTER K" -> 93804
      [] name = "MEDEFAIDRIN SMALL LETTER A" -> 93805
      [] name = "MEDEFAIDRIN SMALL LETTER J" -> 93806
      [] name = "MEDEFAIDRIN SMALL LETTER E" -> 93807
      [] name = "MEDEFAIDRIN SMALL LETTER B" -> 93808
      [] name = "MEDEFAIDRIN SMALL LETTER C" -> 93809
      [] name = "MEDEFAIDRIN SMALL LETTER U" -> 93810
      [] name = "MEDEFAIDRIN SMALL LETTER YU" -> 93811
      [] name = "MEDEFAIDRIN SMALL LETTER L" -> 93812
      [] name = "MEDEFAIDRIN SMALL LETTER Q" -> 93813
      [] name = "MEDEFAIDRIN SMALL LETTER H" -> 93814
      [] name = "MEDEFAIDRIN SMALL LETTER HP" -> 93814
      [] name = "MEDEFAIDRIN SMALL LETTER NG" -> 93815
      [] name = "MEDEFAIDRIN SMALL LETTER NY" -> 93815
      [] name = "MEDEFAIDRIN SMALL LETTER X" -> 93816
      [] name = "MEDEFAIDRIN SMALL LETTER D" -> 93817
      [] name = "MEDEFAIDRIN SMALL LETTER OE" -> 93818
      [] name = "MEDEFAIDRIN SMALL LETTER N" -> 93819
      [] name = "MEDEFAIDRIN SMALL LETTER R" -> 93820
      [] name = "MEDEFAIDRIN SMALL LETTER O" -> 93821
      [] name = "MEDEFAIDRIN SMALL LETTER AI" -> 93822
      [] name = "MEDEFAIDRIN SMALL LETTER Y" -> 93823
      [] name = "MEDEFAIDRIN DIGIT ZERO" -> 93824
      [] name = "MEDEFAIDRIN DIGIT ONE" -> 93825
      [] name = "MEDEFAIDRIN DIGIT TWO" -> 93826
      [] name = "MEDEFAIDRIN DIGIT THREE" -> 93827
      [] name = "MEDEFAIDRIN DIGIT FOUR" -> 93828
      [] name = "MEDEFAIDRIN DIGIT FIVE" -> 93829
      [] name = "MEDEFAIDRIN DIGIT SIX" -> 93830
      [] name = "MEDEFAIDRIN DIGIT SEVEN" -> 93831
      [] name = "MEDEFAIDRIN DIGIT EIGHT" -> 93832
      [] name = "MEDEFAIDRIN DIGIT NINE" -> 93833
      [] name = "MEDEFAIDRIN NUMBER TEN" -> 93834
      [] name = "MEDEFAIDRIN NUMBER ELEVEN" -> 93835
      [] name = "MEDEFAIDRIN NUMBER TWELVE" -> 93836
      [] name = "MEDEFAIDRIN NUMBER THIRTEEN" -> 93837
      [] name = "MEDEFAIDRIN NUMBER FOURTEEN" -> 93838
      [] name = "MEDEFAIDRIN NUMBER FIFTEEN" -> 93839
      [] name = "MEDEFAIDRIN NUMBER SIXTEEN" -> 93840
      [] name = "MEDEFAIDRIN NUMBER SEVENTEEN" -> 93841
      [] name = "MEDEFAIDRIN NUMBER EIGHTEEN" -> 93842
      [] name = "MEDEFAIDRIN NUMBER NINETEEN" -> 93843
      [] name = "MEDEFAIDRIN DIGIT ONE ALTERNATE FORM" -> 93844
      [] name = "MEDEFAIDRIN DIGIT TWO ALTERNATE FORM" -> 93845
      [] name = "MEDEFAIDRIN DIGIT THREE ALTERNATE FORM" -> 93846
      [] name = "MEDEFAIDRIN COMMA" -> 93847
      [] name = "MEDEFAIDRIN FULL STOP" -> 93848
      [] name = "MEDEFAIDRIN SYMBOL AIVA" -> 93849
      [] name = "MEDEFAIDRIN EXCLAMATION OH" -> 93850
      [] name = "MIAO LETTER PA" -> 93952
      [] name = "MIAO LETTER BA" -> 93953
      [] name = "MIAO LETTER YI PA" -> 93954
      [] name = "MIAO LETTER PLA" -> 93955
      [] name = "MIAO LETTER MA" -> 93956
      [] name = "MIAO LETTER MHA" -> 93957
      [] name = "MIAO LETTER ARCHAIC MA" -> 93958
      [] name = "MIAO LETTER FA" -> 93959
      [] name = "MIAO LETTER VA" -> 93960
      [] name = "MIAO LETTER VFA" -> 93961
      [] name = "MIAO LETTER TA" -> 93962
      [] name = "MIAO LETTER DA" -> 93963
      [] name = "MIAO LETTER YI TTA" -> 93964
      [] name = "MIAO LETTER YI TA" -> 93965
      [] name = "MIAO LETTER TTA" -> 93966
      [] name = "MIAO LETTER DDA" -> 93967
      [] name = "MIAO LETTER NA" -> 93968
      [] name = "MIAO LETTER NHA" -> 93969
      [] name = "MIAO LETTER YI NNA" -> 93970
      [] name = "MIAO LETTER ARCHAIC NA" -> 93971
      [] name = "MIAO LETTER NNA" -> 93972
      [] name = "MIAO LETTER NNHA" -> 93973
      [] name = "MIAO LETTER LA" -> 93974
      [] name = "MIAO LETTER LYA" -> 93975
      [] name = "MIAO LETTER LHA" -> 93976
      [] name = "MIAO LETTER LHYA" -> 93977
      [] name = "MIAO LETTER TLHA" -> 93978
      [] name = "MIAO LETTER DLHA" -> 93979
      [] name = "MIAO LETTER TLHYA" -> 93980
      [] name = "MIAO LETTER DLHYA" -> 93981
      [] name = "MIAO LETTER KA" -> 93982
      [] name = "MIAO LETTER GA" -> 93983
      [] name = "MIAO LETTER YI KA" -> 93984
      [] name = "MIAO LETTER QA" -> 93985
      [] name = "MIAO LETTER QGA" -> 93986
      [] name = "MIAO LETTER NGA" -> 93987
      [] name = "MIAO LETTER NGHA" -> 93988
      [] name = "MIAO LETTER ARCHAIC NGA" -> 93989
      [] name = "MIAO LETTER HA" -> 93990
      [] name = "MIAO LETTER XA" -> 93991
      [] name = "MIAO LETTER GHA" -> 93992
      [] name = "MIAO LETTER GHHA" -> 93993
      [] name = "MIAO LETTER TSSA" -> 93994
      [] name = "MIAO LETTER DZZA" -> 93995
      [] name = "MIAO LETTER NYA" -> 93996
      [] name = "MIAO LETTER NYHA" -> 93997
      [] name = "MIAO LETTER TSHA" -> 93998
      [] name = "MIAO LETTER DZHA" -> 93999
      [] name = "MIAO LETTER YI TSHA" -> 94000
      [] name = "MIAO LETTER YI DZHA" -> 94001
      [] name = "MIAO LETTER REFORMED TSHA" -> 94002
      [] name = "MIAO LETTER SHA" -> 94003
      [] name = "MIAO LETTER SSA" -> 94004
      [] name = "MIAO LETTER ZHA" -> 94005
      [] name = "MIAO LETTER ZSHA" -> 94006
      [] name = "MIAO LETTER TSA" -> 94007
      [] name = "MIAO LETTER DZA" -> 94008
      [] name = "MIAO LETTER YI TSA" -> 94009
      [] name = "MIAO LETTER SA" -> 94010
      [] name = "MIAO LETTER ZA" -> 94011
      [] name = "MIAO LETTER ZSA" -> 94012
      [] name = "MIAO LETTER ZZA" -> 94013
      [] name = "MIAO LETTER ZZSA" -> 94014
      [] name = "MIAO LETTER ARCHAIC ZZA" -> 94015
      [] name = "MIAO LETTER ZZYA" -> 94016
      [] name = "MIAO LETTER ZZSYA" -> 94017
      [] name = "MIAO LETTER WA" -> 94018
      [] name = "MIAO LETTER AH" -> 94019
      [] name = "MIAO LETTER HHA" -> 94020
      [] name = "MIAO LETTER BRI" -> 94021
      [] name = "MIAO LETTER SYI" -> 94022
      [] name = "MIAO LETTER DZYI" -> 94023
      [] name = "MIAO LETTER TE" -> 94024
      [] name = "MIAO LETTER TSE" -> 94025
      [] name = "MIAO LETTER RTE" -> 94026
      [] name = "MIAO SIGN CONSONANT MODIFIER BAR" -> 94031
      [] name = "MIAO LETTER NASALIZATION" -> 94032
      [] name = "MIAO SIGN ASPIRATION" -> 94033
      [] name = "MIAO SIGN REFORMED VOICING" -> 94034
      [] name = "MIAO SIGN REFORMED ASPIRATION" -> 94035
      [] name = "MIAO VOWEL SIGN A" -> 94036
      [] name = "MIAO VOWEL SIGN AA" -> 94037
      [] name = "MIAO VOWEL SIGN AHH" -> 94038
      [] name = "MIAO VOWEL SIGN AN" -> 94039
      [] name = "MIAO VOWEL SIGN ANG" -> 94040
      [] name = "MIAO VOWEL SIGN O" -> 94041
      [] name = "MIAO VOWEL SIGN OO" -> 94042
      [] name = "MIAO VOWEL SIGN WO" -> 94043
      [] name = "MIAO VOWEL SIGN W" -> 94044
      [] name = "MIAO VOWEL SIGN E" -> 94045
      [] name = "MIAO VOWEL SIGN EN" -> 94046
      [] name = "MIAO VOWEL SIGN ENG" -> 94047
      [] name = "MIAO VOWEL SIGN OEY" -> 94048
      [] name = "MIAO VOWEL SIGN I" -> 94049
      [] name = "MIAO VOWEL SIGN IA" -> 94050
      [] name = "MIAO VOWEL SIGN IAN" -> 94051
      [] name = "MIAO VOWEL SIGN IANG" -> 94052
      [] name = "MIAO VOWEL SIGN IO" -> 94053
      [] name = "MIAO VOWEL SIGN IE" -> 94054
      [] name = "MIAO VOWEL SIGN II" -> 94055
      [] name = "MIAO VOWEL SIGN IU" -> 94056
      [] name = "MIAO VOWEL SIGN ING" -> 94057
      [] name = "MIAO VOWEL SIGN U" -> 94058
      [] name = "MIAO VOWEL SIGN UA" -> 94059
      [] name = "MIAO VOWEL SIGN UAN" -> 94060
      [] name = "MIAO VOWEL SIGN UANG" -> 94061
      [] name = "MIAO VOWEL SIGN UU" -> 94062
      [] name = "MIAO VOWEL SIGN UEI" -> 94063
      [] name = "MIAO VOWEL SIGN UNG" -> 94064
      [] name = "MIAO VOWEL SIGN Y" -> 94065
      [] name = "MIAO VOWEL SIGN YI" -> 94066
      [] name = "MIAO VOWEL SIGN AE" -> 94067
      [] name = "MIAO VOWEL SIGN AEE" -> 94068
      [] name = "MIAO VOWEL SIGN ERR" -> 94069
      [] name = "MIAO VOWEL SIGN ROUNDED ERR" -> 94070
      [] name = "MIAO VOWEL SIGN ER" -> 94071
      [] name = "MIAO VOWEL SIGN ROUNDED ER" -> 94072
      [] name = "MIAO VOWEL SIGN AI" -> 94073
      [] name = "MIAO VOWEL SIGN EI" -> 94074
      [] name = "MIAO VOWEL SIGN AU" -> 94075
      [] name = "MIAO VOWEL SIGN OU" -> 94076
      [] name = "MIAO VOWEL SIGN N" -> 94077
      [] name = "MIAO VOWEL SIGN NG" -> 94078
      [] name = "MIAO VOWEL SIGN UOG" -> 94079
      [] name = "MIAO VOWEL SIGN YUI" -> 94080
      [] name = "MIAO VOWEL SIGN OG" -> 94081
      [] name = "MIAO VOWEL SIGN OER" -> 94082
      [] name = "MIAO VOWEL SIGN VW" -> 94083
      [] name = "MIAO VOWEL SIGN IG" -> 94084
      [] name = "MIAO VOWEL SIGN EA" -> 94085
      [] name = "MIAO VOWEL SIGN IONG" -> 94086
      [] name = "MIAO VOWEL SIGN UI" -> 94087
      [] name = "MIAO TONE RIGHT" -> 94095
      [] name = "MIAO TONE TOP RIGHT" -> 94096
      [] name = "MIAO TONE ABOVE" -> 94097
      [] name = "MIAO TONE BELOW" -> 94098
      [] name = "MIAO LETTER TONE-2" -> 94099
      [] name = "MIAO LETTER TONE-3" -> 94100
      [] name = "MIAO LETTER TONE-4" -> 94101
      [] name = "MIAO LETTER TONE-5" -> 94102
      [] name = "MIAO LETTER TONE-6" -> 94103
      [] name = "MIAO LETTER TONE-7" -> 94104
      [] name = "MIAO LETTER TONE-8" -> 94105
      [] name = "MIAO LETTER REFORMED TONE-1" -> 94106
      [] name = "MIAO LETTER REFORMED TONE-2" -> 94107
      [] name = "MIAO LETTER REFORMED TONE-4" -> 94108
      [] name = "MIAO LETTER REFORMED TONE-5" -> 94109
      [] name = "MIAO LETTER REFORMED TONE-6" -> 94110
      [] name = "MIAO LETTER REFORMED TONE-8" -> 94111
      [] name = "TANGUT ITERATION MARK" -> 94176
      [] name = "NUSHU ITERATION MARK" -> 94177
      [] name = "OLD CHINESE HOOK MARK" -> 94178
      [] name = "OLD CHINESE ITERATION MARK" -> 94179
      [] name = "KHITAN SMALL SCRIPT FILLER" -> 94180
      [] name = "VIETNAMESE ALTERNATE READING MARK CA" -> 94192
      [] name = "VIETNAMESE ALTERNATE READING MARK NHAY" -> 94193
      [] name = "TANGUT COMPONENT-001" -> 100352
      [] name = "TANGUT COMPONENT-002" -> 100353
      [] name = "TANGUT COMPONENT-003" -> 100354
      [] name = "TANGUT COMPONENT-004" -> 100355
      [] name = "TANGUT COMPONENT-005" -> 100356
      [] name = "TANGUT COMPONENT-006" -> 100357
      [] name = "TANGUT COMPONENT-007" -> 100358
      [] name = "TANGUT COMPONENT-008" -> 100359
      [] name = "TANGUT COMPONENT-009" -> 100360
      [] name = "TANGUT COMPONENT-010" -> 100361
      [] name = "TANGUT COMPONENT-011" -> 100362
      [] name = "TANGUT COMPONENT-012" -> 100363
      [] name = "TANGUT COMPONENT-013" -> 100364
      [] name = "TANGUT COMPONENT-014" -> 100365
      [] name = "TANGUT COMPONENT-015" -> 100366
      [] name = "TANGUT COMPONENT-016" -> 100367
      [] name = "TANGUT COMPONENT-017" -> 100368
      [] name = "TANGUT COMPONENT-018" -> 100369
      [] name = "TANGUT COMPONENT-019" -> 100370
      [] name = "TANGUT COMPONENT-020" -> 100371
      [] name = "TANGUT COMPONENT-021" -> 100372
      [] name = "TANGUT COMPONENT-022" -> 100373
      [] name = "TANGUT COMPONENT-023" -> 100374
      [] name = "TANGUT COMPONENT-024" -> 100375
      [] name = "TANGUT COMPONENT-025" -> 100376
      [] name = "TANGUT COMPONENT-026" -> 100377
      [] name = "TANGUT COMPONENT-027" -> 100378
      [] name = "TANGUT COMPONENT-028" -> 100379
      [] name = "TANGUT COMPONENT-029" -> 100380
      [] name = "TANGUT COMPONENT-030" -> 100381
      [] name = "TANGUT COMPONENT-031" -> 100382
      [] name = "TANGUT COMPONENT-032" -> 100383
      [] name = "TANGUT COMPONENT-033" -> 100384
      [] name = "TANGUT COMPONENT-034" -> 100385
      [] name = "TANGUT COMPONENT-035" -> 100386
      [] name = "TANGUT COMPONENT-036" -> 100387
      [] name = "TANGUT COMPONENT-037" -> 100388
      [] name = "TANGUT COMPONENT-038" -> 100389
      [] name = "TANGUT COMPONENT-039" -> 100390
      [] name = "TANGUT COMPONENT-040" -> 100391
      [] name = "TANGUT COMPONENT-041" -> 100392
      [] name = "TANGUT COMPONENT-042" -> 100393
      [] name = "TANGUT COMPONENT-043" -> 100394
      [] name = "TANGUT COMPONENT-044" -> 100395
      [] name = "TANGUT COMPONENT-045" -> 100396
      [] name = "TANGUT COMPONENT-046" -> 100397
      [] name = "TANGUT COMPONENT-047" -> 100398
      [] name = "TANGUT COMPONENT-048" -> 100399
      [] name = "TANGUT COMPONENT-049" -> 100400
      [] name = "TANGUT COMPONENT-050" -> 100401
      [] name = "TANGUT COMPONENT-051" -> 100402
      [] name = "TANGUT COMPONENT-052" -> 100403
      [] name = "TANGUT COMPONENT-053" -> 100404
      [] name = "TANGUT COMPONENT-054" -> 100405
      [] name = "TANGUT COMPONENT-055" -> 100406
      [] name = "TANGUT COMPONENT-056" -> 100407
      [] name = "TANGUT COMPONENT-057" -> 100408
      [] name = "TANGUT COMPONENT-058" -> 100409
      [] name = "TANGUT COMPONENT-059" -> 100410
      [] name = "TANGUT COMPONENT-060" -> 100411
      [] name = "TANGUT COMPONENT-061" -> 100412
      [] name = "TANGUT COMPONENT-062" -> 100413
      [] name = "TANGUT COMPONENT-063" -> 100414
      [] name = "TANGUT COMPONENT-064" -> 100415
      [] name = "TANGUT COMPONENT-065" -> 100416
      [] name = "TANGUT COMPONENT-066" -> 100417
      [] name = "TANGUT COMPONENT-067" -> 100418
      [] name = "TANGUT COMPONENT-068" -> 100419
      [] name = "TANGUT COMPONENT-069" -> 100420
      [] name = "TANGUT COMPONENT-070" -> 100421
      [] name = "TANGUT COMPONENT-071" -> 100422
      [] name = "TANGUT COMPONENT-072" -> 100423
      [] name = "TANGUT COMPONENT-073" -> 100424
      [] name = "TANGUT COMPONENT-074" -> 100425
      [] name = "TANGUT COMPONENT-075" -> 100426
      [] name = "TANGUT COMPONENT-076" -> 100427
      [] name = "TANGUT COMPONENT-077" -> 100428
      [] name = "TANGUT COMPONENT-078" -> 100429
      [] name = "TANGUT COMPONENT-079" -> 100430
      [] name = "TANGUT COMPONENT-080" -> 100431
      [] name = "TANGUT COMPONENT-081" -> 100432
      [] name = "TANGUT COMPONENT-082" -> 100433
      [] name = "TANGUT COMPONENT-083" -> 100434
      [] name = "TANGUT COMPONENT-084" -> 100435
      [] name = "TANGUT COMPONENT-085" -> 100436
      [] name = "TANGUT COMPONENT-086" -> 100437
      [] name = "TANGUT COMPONENT-087" -> 100438
      [] name = "TANGUT COMPONENT-088" -> 100439
      [] name = "TANGUT COMPONENT-089" -> 100440
      [] name = "TANGUT COMPONENT-090" -> 100441
      [] name = "TANGUT COMPONENT-091" -> 100442
      [] name = "TANGUT COMPONENT-092" -> 100443
      [] name = "TANGUT COMPONENT-093" -> 100444
      [] name = "TANGUT COMPONENT-094" -> 100445
      [] name = "TANGUT COMPONENT-095" -> 100446
      [] name = "TANGUT COMPONENT-096" -> 100447
      [] name = "TANGUT COMPONENT-097" -> 100448
      [] name = "TANGUT COMPONENT-098" -> 100449
      [] name = "TANGUT COMPONENT-099" -> 100450
      [] name = "TANGUT COMPONENT-100" -> 100451
      [] name = "TANGUT COMPONENT-101" -> 100452
      [] name = "TANGUT COMPONENT-102" -> 100453
      [] name = "TANGUT COMPONENT-103" -> 100454
      [] name = "TANGUT COMPONENT-104" -> 100455
      [] name = "TANGUT COMPONENT-105" -> 100456
      [] name = "TANGUT COMPONENT-106" -> 100457
      [] name = "TANGUT COMPONENT-107" -> 100458
      [] name = "TANGUT COMPONENT-108" -> 100459
      [] name = "TANGUT COMPONENT-109" -> 100460
      [] name = "TANGUT COMPONENT-110" -> 100461
      [] name = "TANGUT COMPONENT-111" -> 100462
      [] name = "TANGUT COMPONENT-112" -> 100463
      [] name = "TANGUT COMPONENT-113" -> 100464
      [] name = "TANGUT COMPONENT-114" -> 100465
      [] name = "TANGUT COMPONENT-115" -> 100466
      [] name = "TANGUT COMPONENT-116" -> 100467
      [] name = "TANGUT COMPONENT-117" -> 100468
      [] name = "TANGUT COMPONENT-118" -> 100469
      [] name = "TANGUT COMPONENT-119" -> 100470
      [] name = "TANGUT COMPONENT-120" -> 100471
      [] name = "TANGUT COMPONENT-121" -> 100472
      [] name = "TANGUT COMPONENT-122" -> 100473
      [] name = "TANGUT COMPONENT-123" -> 100474
      [] name = "TANGUT COMPONENT-124" -> 100475
      [] name = "TANGUT COMPONENT-125" -> 100476
      [] name = "TANGUT COMPONENT-126" -> 100477
      [] name = "TANGUT COMPONENT-127" -> 100478
      [] name = "TANGUT COMPONENT-128" -> 100479
      [] name = "TANGUT COMPONENT-129" -> 100480
      [] name = "TANGUT COMPONENT-130" -> 100481
      [] name = "TANGUT COMPONENT-131" -> 100482
      [] name = "TANGUT COMPONENT-132" -> 100483
      [] name = "TANGUT COMPONENT-133" -> 100484
      [] name = "TANGUT COMPONENT-134" -> 100485
      [] name = "TANGUT COMPONENT-135" -> 100486
      [] name = "TANGUT COMPONENT-136" -> 100487
      [] name = "TANGUT COMPONENT-137" -> 100488
      [] name = "TANGUT COMPONENT-138" -> 100489
      [] name = "TANGUT COMPONENT-139" -> 100490
      [] name = "TANGUT COMPONENT-140" -> 100491
      [] name = "TANGUT COMPONENT-141" -> 100492
      [] name = "TANGUT COMPONENT-142" -> 100493
      [] name = "TANGUT COMPONENT-143" -> 100494
      [] name = "TANGUT COMPONENT-144" -> 100495
      [] name = "TANGUT COMPONENT-145" -> 100496
      [] name = "TANGUT COMPONENT-146" -> 100497
      [] name = "TANGUT COMPONENT-147" -> 100498
      [] name = "TANGUT COMPONENT-148" -> 100499
      [] name = "TANGUT COMPONENT-149" -> 100500
      [] name = "TANGUT COMPONENT-150" -> 100501
      [] name = "TANGUT COMPONENT-151" -> 100502
      [] name = "TANGUT COMPONENT-152" -> 100503
      [] name = "TANGUT COMPONENT-153" -> 100504
      [] name = "TANGUT COMPONENT-154" -> 100505
      [] name = "TANGUT COMPONENT-155" -> 100506
      [] name = "TANGUT COMPONENT-156" -> 100507
      [] name = "TANGUT COMPONENT-157" -> 100508
      [] name = "TANGUT COMPONENT-158" -> 100509
      [] name = "TANGUT COMPONENT-159" -> 100510
      [] name = "TANGUT COMPONENT-160" -> 100511
      [] name = "TANGUT COMPONENT-161" -> 100512
      [] name = "TANGUT COMPONENT-162" -> 100513
      [] name = "TANGUT COMPONENT-163" -> 100514
      [] name = "TANGUT COMPONENT-164" -> 100515
      [] name = "TANGUT COMPONENT-165" -> 100516
      [] name = "TANGUT COMPONENT-166" -> 100517
      [] name = "TANGUT COMPONENT-167" -> 100518
      [] name = "TANGUT COMPONENT-168" -> 100519
      [] name = "TANGUT COMPONENT-169" -> 100520
      [] name = "TANGUT COMPONENT-170" -> 100521
      [] name = "TANGUT COMPONENT-171" -> 100522
      [] name = "TANGUT COMPONENT-172" -> 100523
      [] name = "TANGUT COMPONENT-173" -> 100524
      [] name = "TANGUT COMPONENT-174" -> 100525
      [] name = "TANGUT COMPONENT-175" -> 100526
      [] name = "TANGUT COMPONENT-176" -> 100527
      [] name = "TANGUT COMPONENT-177" -> 100528
      [] name = "TANGUT COMPONENT-178" -> 100529
      [] name = "TANGUT COMPONENT-179" -> 100530
      [] name = "TANGUT COMPONENT-180" -> 100531
      [] name = "TANGUT COMPONENT-181" -> 100532
      [] name = "TANGUT COMPONENT-182" -> 100533
      [] name = "TANGUT COMPONENT-183" -> 100534
      [] name = "TANGUT COMPONENT-184" -> 100535
      [] name = "TANGUT COMPONENT-185" -> 100536
      [] name = "TANGUT COMPONENT-186" -> 100537
      [] name = "TANGUT COMPONENT-187" -> 100538
      [] name = "TANGUT COMPONENT-188" -> 100539
      [] name = "TANGUT COMPONENT-189" -> 100540
      [] name = "TANGUT COMPONENT-190" -> 100541
      [] name = "TANGUT COMPONENT-191" -> 100542
      [] name = "TANGUT COMPONENT-192" -> 100543
      [] name = "TANGUT COMPONENT-193" -> 100544
      [] name = "TANGUT COMPONENT-194" -> 100545
      [] name = "TANGUT COMPONENT-195" -> 100546
      [] name = "TANGUT COMPONENT-196" -> 100547
      [] name = "TANGUT COMPONENT-197" -> 100548
      [] name = "TANGUT COMPONENT-198" -> 100549
      [] name = "TANGUT COMPONENT-199" -> 100550
      [] name = "TANGUT COMPONENT-200" -> 100551
      [] name = "TANGUT COMPONENT-201" -> 100552
      [] name = "TANGUT COMPONENT-202" -> 100553
      [] name = "TANGUT COMPONENT-203" -> 100554
      [] name = "TANGUT COMPONENT-204" -> 100555
      [] name = "TANGUT COMPONENT-205" -> 100556
      [] name = "TANGUT COMPONENT-206" -> 100557
      [] name = "TANGUT COMPONENT-207" -> 100558
      [] name = "TANGUT COMPONENT-208" -> 100559
      [] name = "TANGUT COMPONENT-209" -> 100560
      [] name = "TANGUT COMPONENT-210" -> 100561
      [] name = "TANGUT COMPONENT-211" -> 100562
      [] name = "TANGUT COMPONENT-212" -> 100563
      [] name = "TANGUT COMPONENT-213" -> 100564
      [] name = "TANGUT COMPONENT-214" -> 100565
      [] name = "TANGUT COMPONENT-215" -> 100566
      [] name = "TANGUT COMPONENT-216" -> 100567
      [] name = "TANGUT COMPONENT-217" -> 100568
      [] name = "TANGUT COMPONENT-218" -> 100569
      [] name = "TANGUT COMPONENT-219" -> 100570
      [] name = "TANGUT COMPONENT-220" -> 100571
      [] name = "TANGUT COMPONENT-221" -> 100572
      [] name = "TANGUT COMPONENT-222" -> 100573
      [] name = "TANGUT COMPONENT-223" -> 100574
      [] name = "TANGUT COMPONENT-224" -> 100575
      [] name = "TANGUT COMPONENT-225" -> 100576
      [] name = "TANGUT COMPONENT-226" -> 100577
      [] name = "TANGUT COMPONENT-227" -> 100578
      [] name = "TANGUT COMPONENT-228" -> 100579
      [] name = "TANGUT COMPONENT-229" -> 100580
      [] name = "TANGUT COMPONENT-230" -> 100581
      [] name = "TANGUT COMPONENT-231" -> 100582
      [] name = "TANGUT COMPONENT-232" -> 100583
      [] name = "TANGUT COMPONENT-233" -> 100584
      [] name = "TANGUT COMPONENT-234" -> 100585
      [] name = "TANGUT COMPONENT-235" -> 100586
      [] name = "TANGUT COMPONENT-236" -> 100587
      [] name = "TANGUT COMPONENT-237" -> 100588
      [] name = "TANGUT COMPONENT-238" -> 100589
      [] name = "TANGUT COMPONENT-239" -> 100590
      [] name = "TANGUT COMPONENT-240" -> 100591
      [] name = "TANGUT COMPONENT-241" -> 100592
      [] name = "TANGUT COMPONENT-242" -> 100593
      [] name = "TANGUT COMPONENT-243" -> 100594
      [] name = "TANGUT COMPONENT-244" -> 100595
      [] name = "TANGUT COMPONENT-245" -> 100596
      [] name = "TANGUT COMPONENT-246" -> 100597
      [] name = "TANGUT COMPONENT-247" -> 100598
      [] name = "TANGUT COMPONENT-248" -> 100599
      [] name = "TANGUT COMPONENT-249" -> 100600
      [] name = "TANGUT COMPONENT-250" -> 100601
      [] name = "TANGUT COMPONENT-251" -> 100602
      [] name = "TANGUT COMPONENT-252" -> 100603
      [] name = "TANGUT COMPONENT-253" -> 100604
      [] name = "TANGUT COMPONENT-254" -> 100605
      [] name = "TANGUT COMPONENT-255" -> 100606
      [] name = "TANGUT COMPONENT-256" -> 100607
      [] name = "TANGUT COMPONENT-257" -> 100608
      [] name = "TANGUT COMPONENT-258" -> 100609
      [] name = "TANGUT COMPONENT-259" -> 100610
      [] name = "TANGUT COMPONENT-260" -> 100611
      [] name = "TANGUT COMPONENT-261" -> 100612
      [] name = "TANGUT COMPONENT-262" -> 100613
      [] name = "TANGUT COMPONENT-263" -> 100614
      [] name = "TANGUT COMPONENT-264" -> 100615
      [] name = "TANGUT COMPONENT-265" -> 100616
      [] name = "TANGUT COMPONENT-266" -> 100617
      [] name = "TANGUT COMPONENT-267" -> 100618
      [] name = "TANGUT COMPONENT-268" -> 100619
      [] name = "TANGUT COMPONENT-269" -> 100620
      [] name = "TANGUT COMPONENT-270" -> 100621
      [] name = "TANGUT COMPONENT-271" -> 100622
      [] name = "TANGUT COMPONENT-272" -> 100623
      [] name = "TANGUT COMPONENT-273" -> 100624
      [] name = "TANGUT COMPONENT-274" -> 100625
      [] name = "TANGUT COMPONENT-275" -> 100626
      [] name = "TANGUT COMPONENT-276" -> 100627
      [] name = "TANGUT COMPONENT-277" -> 100628
      [] name = "TANGUT COMPONENT-278" -> 100629
      [] name = "TANGUT COMPONENT-279" -> 100630
      [] name = "TANGUT COMPONENT-280" -> 100631
      [] name = "TANGUT COMPONENT-281" -> 100632
      [] name = "TANGUT COMPONENT-282" -> 100633
      [] name = "TANGUT COMPONENT-283" -> 100634
      [] name = "TANGUT COMPONENT-284" -> 100635
      [] name = "TANGUT COMPONENT-285" -> 100636
      [] name = "TANGUT COMPONENT-286" -> 100637
      [] name = "TANGUT COMPONENT-287" -> 100638
      [] name = "TANGUT COMPONENT-288" -> 100639
      [] name = "TANGUT COMPONENT-289" -> 100640
      [] name = "TANGUT COMPONENT-290" -> 100641
      [] name = "TANGUT COMPONENT-291" -> 100642
      [] name = "TANGUT COMPONENT-292" -> 100643
      [] name = "TANGUT COMPONENT-293" -> 100644
      [] name = "TANGUT COMPONENT-294" -> 100645
      [] name = "TANGUT COMPONENT-295" -> 100646
      [] name = "TANGUT COMPONENT-296" -> 100647
      [] name = "TANGUT COMPONENT-297" -> 100648
      [] name = "TANGUT COMPONENT-298" -> 100649
      [] name = "TANGUT COMPONENT-299" -> 100650
      [] name = "TANGUT COMPONENT-300" -> 100651
      [] name = "TANGUT COMPONENT-301" -> 100652
      [] name = "TANGUT COMPONENT-302" -> 100653
      [] name = "TANGUT COMPONENT-303" -> 100654
      [] name = "TANGUT COMPONENT-304" -> 100655
      [] name = "TANGUT COMPONENT-305" -> 100656
      [] name = "TANGUT COMPONENT-306" -> 100657
      [] name = "TANGUT COMPONENT-307" -> 100658
      [] name = "TANGUT COMPONENT-308" -> 100659
      [] name = "TANGUT COMPONENT-309" -> 100660
      [] name = "TANGUT COMPONENT-310" -> 100661
      [] name = "TANGUT COMPONENT-311" -> 100662
      [] name = "TANGUT COMPONENT-312" -> 100663
      [] name = "TANGUT COMPONENT-313" -> 100664
      [] name = "TANGUT COMPONENT-314" -> 100665
      [] name = "TANGUT COMPONENT-315" -> 100666
      [] name = "TANGUT COMPONENT-316" -> 100667
      [] name = "TANGUT COMPONENT-317" -> 100668
      [] name = "TANGUT COMPONENT-318" -> 100669
      [] name = "TANGUT COMPONENT-319" -> 100670
      [] name = "TANGUT COMPONENT-320" -> 100671
      [] name = "TANGUT COMPONENT-321" -> 100672
      [] name = "TANGUT COMPONENT-322" -> 100673
      [] name = "TANGUT COMPONENT-323" -> 100674
      [] name = "TANGUT COMPONENT-324" -> 100675
      [] name = "TANGUT COMPONENT-325" -> 100676
      [] name = "TANGUT COMPONENT-326" -> 100677
      [] name = "TANGUT COMPONENT-327" -> 100678
      [] name = "TANGUT COMPONENT-328" -> 100679
      [] name = "TANGUT COMPONENT-329" -> 100680
      [] name = "TANGUT COMPONENT-330" -> 100681
      [] name = "TANGUT COMPONENT-331" -> 100682
      [] name = "TANGUT COMPONENT-332" -> 100683
      [] name = "TANGUT COMPONENT-333" -> 100684
      [] name = "TANGUT COMPONENT-334" -> 100685
      [] name = "TANGUT COMPONENT-335" -> 100686
      [] name = "TANGUT COMPONENT-336" -> 100687
      [] name = "TANGUT COMPONENT-337" -> 100688
      [] name = "TANGUT COMPONENT-338" -> 100689
      [] name = "TANGUT COMPONENT-339" -> 100690
      [] name = "TANGUT COMPONENT-340" -> 100691
      [] name = "TANGUT COMPONENT-341" -> 100692
      [] name = "TANGUT COMPONENT-342" -> 100693
      [] name = "TANGUT COMPONENT-343" -> 100694
      [] name = "TANGUT COMPONENT-344" -> 100695
      [] name = "TANGUT COMPONENT-345" -> 100696
      [] name = "TANGUT COMPONENT-346" -> 100697
      [] name = "TANGUT COMPONENT-347" -> 100698
      [] name = "TANGUT COMPONENT-348" -> 100699
      [] name = "TANGUT COMPONENT-349" -> 100700
      [] name = "TANGUT COMPONENT-350" -> 100701
      [] name = "TANGUT COMPONENT-351" -> 100702
      [] name = "TANGUT COMPONENT-352" -> 100703
      [] name = "TANGUT COMPONENT-353" -> 100704
      [] name = "TANGUT COMPONENT-354" -> 100705
      [] name = "TANGUT COMPONENT-355" -> 100706
      [] name = "TANGUT COMPONENT-356" -> 100707
      [] name = "TANGUT COMPONENT-357" -> 100708
      [] name = "TANGUT COMPONENT-358" -> 100709
      [] name = "TANGUT COMPONENT-359" -> 100710
      [] name = "TANGUT COMPONENT-360" -> 100711
      [] name = "TANGUT COMPONENT-361" -> 100712
      [] name = "TANGUT COMPONENT-362" -> 100713
      [] name = "TANGUT COMPONENT-363" -> 100714
      [] name = "TANGUT COMPONENT-364" -> 100715
      [] name = "TANGUT COMPONENT-365" -> 100716
      [] name = "TANGUT COMPONENT-366" -> 100717
      [] name = "TANGUT COMPONENT-367" -> 100718
      [] name = "TANGUT COMPONENT-368" -> 100719
      [] name = "TANGUT COMPONENT-369" -> 100720
      [] name = "TANGUT COMPONENT-370" -> 100721
      [] name = "TANGUT COMPONENT-371" -> 100722
      [] name = "TANGUT COMPONENT-372" -> 100723
      [] name = "TANGUT COMPONENT-373" -> 100724
      [] name = "TANGUT COMPONENT-374" -> 100725
      [] name = "TANGUT COMPONENT-375" -> 100726
      [] name = "TANGUT COMPONENT-376" -> 100727
      [] name = "TANGUT COMPONENT-377" -> 100728
      [] name = "TANGUT COMPONENT-378" -> 100729
      [] name = "TANGUT COMPONENT-379" -> 100730
      [] name = "TANGUT COMPONENT-380" -> 100731
      [] name = "TANGUT COMPONENT-381" -> 100732
      [] name = "TANGUT COMPONENT-382" -> 100733
      [] name = "TANGUT COMPONENT-383" -> 100734
      [] name = "TANGUT COMPONENT-384" -> 100735
      [] name = "TANGUT COMPONENT-385" -> 100736
      [] name = "TANGUT COMPONENT-386" -> 100737
      [] name = "TANGUT COMPONENT-387" -> 100738
      [] name = "TANGUT COMPONENT-388" -> 100739
      [] name = "TANGUT COMPONENT-389" -> 100740
      [] name = "TANGUT COMPONENT-390" -> 100741
      [] name = "TANGUT COMPONENT-391" -> 100742
      [] name = "TANGUT COMPONENT-392" -> 100743
      [] name = "TANGUT COMPONENT-393" -> 100744
      [] name = "TANGUT COMPONENT-394" -> 100745
      [] name = "TANGUT COMPONENT-395" -> 100746
      [] name = "TANGUT COMPONENT-396" -> 100747
      [] name = "TANGUT COMPONENT-397" -> 100748
      [] name = "TANGUT COMPONENT-398" -> 100749
      [] name = "TANGUT COMPONENT-399" -> 100750
      [] name = "TANGUT COMPONENT-400" -> 100751
      [] name = "TANGUT COMPONENT-401" -> 100752
      [] name = "TANGUT COMPONENT-402" -> 100753
      [] name = "TANGUT COMPONENT-403" -> 100754
      [] name = "TANGUT COMPONENT-404" -> 100755
      [] name = "TANGUT COMPONENT-405" -> 100756
      [] name = "TANGUT COMPONENT-406" -> 100757
      [] name = "TANGUT COMPONENT-407" -> 100758
      [] name = "TANGUT COMPONENT-408" -> 100759
      [] name = "TANGUT COMPONENT-409" -> 100760
      [] name = "TANGUT COMPONENT-410" -> 100761
      [] name = "TANGUT COMPONENT-411" -> 100762
      [] name = "TANGUT COMPONENT-412" -> 100763
      [] name = "TANGUT COMPONENT-413" -> 100764
      [] name = "TANGUT COMPONENT-414" -> 100765
      [] name = "TANGUT COMPONENT-415" -> 100766
      [] name = "TANGUT COMPONENT-416" -> 100767
      [] name = "TANGUT COMPONENT-417" -> 100768
      [] name = "TANGUT COMPONENT-418" -> 100769
      [] name = "TANGUT COMPONENT-419" -> 100770
      [] name = "TANGUT COMPONENT-420" -> 100771
      [] name = "TANGUT COMPONENT-421" -> 100772
      [] name = "TANGUT COMPONENT-422" -> 100773
      [] name = "TANGUT COMPONENT-423" -> 100774
      [] name = "TANGUT COMPONENT-424" -> 100775
      [] name = "TANGUT COMPONENT-425" -> 100776
      [] name = "TANGUT COMPONENT-426" -> 100777
      [] name = "TANGUT COMPONENT-427" -> 100778
      [] name = "TANGUT COMPONENT-428" -> 100779
      [] name = "TANGUT COMPONENT-429" -> 100780
      [] name = "TANGUT COMPONENT-430" -> 100781
      [] name = "TANGUT COMPONENT-431" -> 100782
      [] name = "TANGUT COMPONENT-432" -> 100783
      [] name = "TANGUT COMPONENT-433" -> 100784
      [] name = "TANGUT COMPONENT-434" -> 100785
      [] name = "TANGUT COMPONENT-435" -> 100786
      [] name = "TANGUT COMPONENT-436" -> 100787
      [] name = "TANGUT COMPONENT-437" -> 100788
      [] name = "TANGUT COMPONENT-438" -> 100789
      [] name = "TANGUT COMPONENT-439" -> 100790
      [] name = "TANGUT COMPONENT-440" -> 100791
      [] name = "TANGUT COMPONENT-441" -> 100792
      [] name = "TANGUT COMPONENT-442" -> 100793
      [] name = "TANGUT COMPONENT-443" -> 100794
      [] name = "TANGUT COMPONENT-444" -> 100795
      [] name = "TANGUT COMPONENT-445" -> 100796
      [] name = "TANGUT COMPONENT-446" -> 100797
      [] name = "TANGUT COMPONENT-447" -> 100798
      [] name = "TANGUT COMPONENT-448" -> 100799
      [] name = "TANGUT COMPONENT-449" -> 100800
      [] name = "TANGUT COMPONENT-450" -> 100801
      [] name = "TANGUT COMPONENT-451" -> 100802
      [] name = "TANGUT COMPONENT-452" -> 100803
      [] name = "TANGUT COMPONENT-453" -> 100804
      [] name = "TANGUT COMPONENT-454" -> 100805
      [] name = "TANGUT COMPONENT-455" -> 100806
      [] name = "TANGUT COMPONENT-456" -> 100807
      [] name = "TANGUT COMPONENT-457" -> 100808
      [] name = "TANGUT COMPONENT-458" -> 100809
      [] name = "TANGUT COMPONENT-459" -> 100810
      [] name = "TANGUT COMPONENT-460" -> 100811
      [] name = "TANGUT COMPONENT-461" -> 100812
      [] name = "TANGUT COMPONENT-462" -> 100813
      [] name = "TANGUT COMPONENT-463" -> 100814
      [] name = "TANGUT COMPONENT-464" -> 100815
      [] name = "TANGUT COMPONENT-465" -> 100816
      [] name = "TANGUT COMPONENT-466" -> 100817
      [] name = "TANGUT COMPONENT-467" -> 100818
      [] name = "TANGUT COMPONENT-468" -> 100819
      [] name = "TANGUT COMPONENT-469" -> 100820
      [] name = "TANGUT COMPONENT-470" -> 100821
      [] name = "TANGUT COMPONENT-471" -> 100822
      [] name = "TANGUT COMPONENT-472" -> 100823
      [] name = "TANGUT COMPONENT-473" -> 100824
      [] name = "TANGUT COMPONENT-474" -> 100825
      [] name = "TANGUT COMPONENT-475" -> 100826
      [] name = "TANGUT COMPONENT-476" -> 100827
      [] name = "TANGUT COMPONENT-477" -> 100828
      [] name = "TANGUT COMPONENT-478" -> 100829
      [] name = "TANGUT COMPONENT-479" -> 100830
      [] name = "TANGUT COMPONENT-480" -> 100831
      [] name = "TANGUT COMPONENT-481" -> 100832
      [] name = "TANGUT COMPONENT-482" -> 100833
      [] name = "TANGUT COMPONENT-483" -> 100834
      [] name = "TANGUT COMPONENT-484" -> 100835
      [] name = "TANGUT COMPONENT-485" -> 100836
      [] name = "TANGUT COMPONENT-486" -> 100837
      [] name = "TANGUT COMPONENT-487" -> 100838
      [] name = "TANGUT COMPONENT-488" -> 100839
      [] name = "TANGUT COMPONENT-489" -> 100840
      [] name = "TANGUT COMPONENT-490" -> 100841
      [] name = "TANGUT COMPONENT-491" -> 100842
      [] name = "TANGUT COMPONENT-492" -> 100843
      [] name = "TANGUT COMPONENT-493" -> 100844
      [] name = "TANGUT COMPONENT-494" -> 100845
      [] name = "TANGUT COMPONENT-495" -> 100846
      [] name = "TANGUT COMPONENT-496" -> 100847
      [] name = "TANGUT COMPONENT-497" -> 100848
      [] name = "TANGUT COMPONENT-498" -> 100849
      [] name = "TANGUT COMPONENT-499" -> 100850
      [] name = "TANGUT COMPONENT-500" -> 100851
      [] name = "TANGUT COMPONENT-501" -> 100852
      [] name = "TANGUT COMPONENT-502" -> 100853
      [] name = "TANGUT COMPONENT-503" -> 100854
      [] name = "TANGUT COMPONENT-504" -> 100855
      [] name = "TANGUT COMPONENT-505" -> 100856
      [] name = "TANGUT COMPONENT-506" -> 100857
      [] name = "TANGUT COMPONENT-507" -> 100858
      [] name = "TANGUT COMPONENT-508" -> 100859
      [] name = "TANGUT COMPONENT-509" -> 100860
      [] name = "TANGUT COMPONENT-510" -> 100861
      [] name = "TANGUT COMPONENT-511" -> 100862
      [] name = "TANGUT COMPONENT-512" -> 100863
      [] name = "TANGUT COMPONENT-513" -> 100864
      [] name = "TANGUT COMPONENT-514" -> 100865
      [] name = "TANGUT COMPONENT-515" -> 100866
      [] name = "TANGUT COMPONENT-516" -> 100867
      [] name = "TANGUT COMPONENT-517" -> 100868
      [] name = "TANGUT COMPONENT-518" -> 100869
      [] name = "TANGUT COMPONENT-519" -> 100870
      [] name = "TANGUT COMPONENT-520" -> 100871
      [] name = "TANGUT COMPONENT-521" -> 100872
      [] name = "TANGUT COMPONENT-522" -> 100873
      [] name = "TANGUT COMPONENT-523" -> 100874
      [] name = "TANGUT COMPONENT-524" -> 100875
      [] name = "TANGUT COMPONENT-525" -> 100876
      [] name = "TANGUT COMPONENT-526" -> 100877
      [] name = "TANGUT COMPONENT-527" -> 100878
      [] name = "TANGUT COMPONENT-528" -> 100879
      [] name = "TANGUT COMPONENT-529" -> 100880
      [] name = "TANGUT COMPONENT-530" -> 100881
      [] name = "TANGUT COMPONENT-531" -> 100882
      [] name = "TANGUT COMPONENT-532" -> 100883
      [] name = "TANGUT COMPONENT-533" -> 100884
      [] name = "TANGUT COMPONENT-534" -> 100885
      [] name = "TANGUT COMPONENT-535" -> 100886
      [] name = "TANGUT COMPONENT-536" -> 100887
      [] name = "TANGUT COMPONENT-537" -> 100888
      [] name = "TANGUT COMPONENT-538" -> 100889
      [] name = "TANGUT COMPONENT-539" -> 100890
      [] name = "TANGUT COMPONENT-540" -> 100891
      [] name = "TANGUT COMPONENT-541" -> 100892
      [] name = "TANGUT COMPONENT-542" -> 100893
      [] name = "TANGUT COMPONENT-543" -> 100894
      [] name = "TANGUT COMPONENT-544" -> 100895
      [] name = "TANGUT COMPONENT-545" -> 100896
      [] name = "TANGUT COMPONENT-546" -> 100897
      [] name = "TANGUT COMPONENT-547" -> 100898
      [] name = "TANGUT COMPONENT-548" -> 100899
      [] name = "TANGUT COMPONENT-549" -> 100900
      [] name = "TANGUT COMPONENT-550" -> 100901
      [] name = "TANGUT COMPONENT-551" -> 100902
      [] name = "TANGUT COMPONENT-552" -> 100903
      [] name = "TANGUT COMPONENT-553" -> 100904
      [] name = "TANGUT COMPONENT-554" -> 100905
      [] name = "TANGUT COMPONENT-555" -> 100906
      [] name = "TANGUT COMPONENT-556" -> 100907
      [] name = "TANGUT COMPONENT-557" -> 100908
      [] name = "TANGUT COMPONENT-558" -> 100909
      [] name = "TANGUT COMPONENT-559" -> 100910
      [] name = "TANGUT COMPONENT-560" -> 100911
      [] name = "TANGUT COMPONENT-561" -> 100912
      [] name = "TANGUT COMPONENT-562" -> 100913
      [] name = "TANGUT COMPONENT-563" -> 100914
      [] name = "TANGUT COMPONENT-564" -> 100915
      [] name = "TANGUT COMPONENT-565" -> 100916
      [] name = "TANGUT COMPONENT-566" -> 100917
      [] name = "TANGUT COMPONENT-567" -> 100918
      [] name = "TANGUT COMPONENT-568" -> 100919
      [] name = "TANGUT COMPONENT-569" -> 100920
      [] name = "TANGUT COMPONENT-570" -> 100921
      [] name = "TANGUT COMPONENT-571" -> 100922
      [] name = "TANGUT COMPONENT-572" -> 100923
      [] name = "TANGUT COMPONENT-573" -> 100924
      [] name = "TANGUT COMPONENT-574" -> 100925
      [] name = "TANGUT COMPONENT-575" -> 100926
      [] name = "TANGUT COMPONENT-576" -> 100927
      [] name = "TANGUT COMPONENT-577" -> 100928
      [] name = "TANGUT COMPONENT-578" -> 100929
      [] name = "TANGUT COMPONENT-579" -> 100930
      [] name = "TANGUT COMPONENT-580" -> 100931
      [] name = "TANGUT COMPONENT-581" -> 100932
      [] name = "TANGUT COMPONENT-582" -> 100933
      [] name = "TANGUT COMPONENT-583" -> 100934
      [] name = "TANGUT COMPONENT-584" -> 100935
      [] name = "TANGUT COMPONENT-585" -> 100936
      [] name = "TANGUT COMPONENT-586" -> 100937
      [] name = "TANGUT COMPONENT-587" -> 100938
      [] name = "TANGUT COMPONENT-588" -> 100939
      [] name = "TANGUT COMPONENT-589" -> 100940
      [] name = "TANGUT COMPONENT-590" -> 100941
      [] name = "TANGUT COMPONENT-591" -> 100942
      [] name = "TANGUT COMPONENT-592" -> 100943
      [] name = "TANGUT COMPONENT-593" -> 100944
      [] name = "TANGUT COMPONENT-594" -> 100945
      [] name = "TANGUT COMPONENT-595" -> 100946
      [] name = "TANGUT COMPONENT-596" -> 100947
      [] name = "TANGUT COMPONENT-597" -> 100948
      [] name = "TANGUT COMPONENT-598" -> 100949
      [] name = "TANGUT COMPONENT-599" -> 100950
      [] name = "TANGUT COMPONENT-600" -> 100951
      [] name = "TANGUT COMPONENT-601" -> 100952
      [] name = "TANGUT COMPONENT-602" -> 100953
      [] name = "TANGUT COMPONENT-603" -> 100954
      [] name = "TANGUT COMPONENT-604" -> 100955
      [] name = "TANGUT COMPONENT-605" -> 100956
      [] name = "TANGUT COMPONENT-606" -> 100957
      [] name = "TANGUT COMPONENT-607" -> 100958
      [] name = "TANGUT COMPONENT-608" -> 100959
      [] name = "TANGUT COMPONENT-609" -> 100960
      [] name = "TANGUT COMPONENT-610" -> 100961
      [] name = "TANGUT COMPONENT-611" -> 100962
      [] name = "TANGUT COMPONENT-612" -> 100963
      [] name = "TANGUT COMPONENT-613" -> 100964
      [] name = "TANGUT COMPONENT-614" -> 100965
      [] name = "TANGUT COMPONENT-615" -> 100966
      [] name = "TANGUT COMPONENT-616" -> 100967
      [] name = "TANGUT COMPONENT-617" -> 100968
      [] name = "TANGUT COMPONENT-618" -> 100969
      [] name = "TANGUT COMPONENT-619" -> 100970
      [] name = "TANGUT COMPONENT-620" -> 100971
      [] name = "TANGUT COMPONENT-621" -> 100972
      [] name = "TANGUT COMPONENT-622" -> 100973
      [] name = "TANGUT COMPONENT-623" -> 100974
      [] name = "TANGUT COMPONENT-624" -> 100975
      [] name = "TANGUT COMPONENT-625" -> 100976
      [] name = "TANGUT COMPONENT-626" -> 100977
      [] name = "TANGUT COMPONENT-627" -> 100978
      [] name = "TANGUT COMPONENT-628" -> 100979
      [] name = "TANGUT COMPONENT-629" -> 100980
      [] name = "TANGUT COMPONENT-630" -> 100981
      [] name = "TANGUT COMPONENT-631" -> 100982
      [] name = "TANGUT COMPONENT-632" -> 100983
      [] name = "TANGUT COMPONENT-633" -> 100984
      [] name = "TANGUT COMPONENT-634" -> 100985
      [] name = "TANGUT COMPONENT-635" -> 100986
      [] name = "TANGUT COMPONENT-636" -> 100987
      [] name = "TANGUT COMPONENT-637" -> 100988
      [] name = "TANGUT COMPONENT-638" -> 100989
      [] name = "TANGUT COMPONENT-639" -> 100990
      [] name = "TANGUT COMPONENT-640" -> 100991
      [] name = "TANGUT COMPONENT-641" -> 100992
      [] name = "TANGUT COMPONENT-642" -> 100993
      [] name = "TANGUT COMPONENT-643" -> 100994
      [] name = "TANGUT COMPONENT-644" -> 100995
      [] name = "TANGUT COMPONENT-645" -> 100996
      [] name = "TANGUT COMPONENT-646" -> 100997
      [] name = "TANGUT COMPONENT-647" -> 100998
      [] name = "TANGUT COMPONENT-648" -> 100999
      [] name = "TANGUT COMPONENT-649" -> 101000
      [] name = "TANGUT COMPONENT-650" -> 101001
      [] name = "TANGUT COMPONENT-651" -> 101002
      [] name = "TANGUT COMPONENT-652" -> 101003
      [] name = "TANGUT COMPONENT-653" -> 101004
      [] name = "TANGUT COMPONENT-654" -> 101005
      [] name = "TANGUT COMPONENT-655" -> 101006
      [] name = "TANGUT COMPONENT-656" -> 101007
      [] name = "TANGUT COMPONENT-657" -> 101008
      [] name = "TANGUT COMPONENT-658" -> 101009
      [] name = "TANGUT COMPONENT-659" -> 101010
      [] name = "TANGUT COMPONENT-660" -> 101011
      [] name = "TANGUT COMPONENT-661" -> 101012
      [] name = "TANGUT COMPONENT-662" -> 101013
      [] name = "TANGUT COMPONENT-663" -> 101014
      [] name = "TANGUT COMPONENT-664" -> 101015
      [] name = "TANGUT COMPONENT-665" -> 101016
      [] name = "TANGUT COMPONENT-666" -> 101017
      [] name = "TANGUT COMPONENT-667" -> 101018
      [] name = "TANGUT COMPONENT-668" -> 101019
      [] name = "TANGUT COMPONENT-669" -> 101020
      [] name = "TANGUT COMPONENT-670" -> 101021
      [] name = "TANGUT COMPONENT-671" -> 101022
      [] name = "TANGUT COMPONENT-672" -> 101023
      [] name = "TANGUT COMPONENT-673" -> 101024
      [] name = "TANGUT COMPONENT-674" -> 101025
      [] name = "TANGUT COMPONENT-675" -> 101026
      [] name = "TANGUT COMPONENT-676" -> 101027
      [] name = "TANGUT COMPONENT-677" -> 101028
      [] name = "TANGUT COMPONENT-678" -> 101029
      [] name = "TANGUT COMPONENT-679" -> 101030
      [] name = "TANGUT COMPONENT-680" -> 101031
      [] name = "TANGUT COMPONENT-681" -> 101032
      [] name = "TANGUT COMPONENT-682" -> 101033
      [] name = "TANGUT COMPONENT-683" -> 101034
      [] name = "TANGUT COMPONENT-684" -> 101035
      [] name = "TANGUT COMPONENT-685" -> 101036
      [] name = "TANGUT COMPONENT-686" -> 101037
      [] name = "TANGUT COMPONENT-687" -> 101038
      [] name = "TANGUT COMPONENT-688" -> 101039
      [] name = "TANGUT COMPONENT-689" -> 101040
      [] name = "TANGUT COMPONENT-690" -> 101041
      [] name = "TANGUT COMPONENT-691" -> 101042
      [] name = "TANGUT COMPONENT-692" -> 101043
      [] name = "TANGUT COMPONENT-693" -> 101044
      [] name = "TANGUT COMPONENT-694" -> 101045
      [] name = "TANGUT COMPONENT-695" -> 101046
      [] name = "TANGUT COMPONENT-696" -> 101047
      [] name = "TANGUT COMPONENT-697" -> 101048
      [] name = "TANGUT COMPONENT-698" -> 101049
      [] name = "TANGUT COMPONENT-699" -> 101050
      [] name = "TANGUT COMPONENT-700" -> 101051
      [] name = "TANGUT COMPONENT-701" -> 101052
      [] name = "TANGUT COMPONENT-702" -> 101053
      [] name = "TANGUT COMPONENT-703" -> 101054
      [] name = "TANGUT COMPONENT-704" -> 101055
      [] name = "TANGUT COMPONENT-705" -> 101056
      [] name = "TANGUT COMPONENT-706" -> 101057
      [] name = "TANGUT COMPONENT-707" -> 101058
      [] name = "TANGUT COMPONENT-708" -> 101059
      [] name = "TANGUT COMPONENT-709" -> 101060
      [] name = "TANGUT COMPONENT-710" -> 101061
      [] name = "TANGUT COMPONENT-711" -> 101062
      [] name = "TANGUT COMPONENT-712" -> 101063
      [] name = "TANGUT COMPONENT-713" -> 101064
      [] name = "TANGUT COMPONENT-714" -> 101065
      [] name = "TANGUT COMPONENT-715" -> 101066
      [] name = "TANGUT COMPONENT-716" -> 101067
      [] name = "TANGUT COMPONENT-717" -> 101068
      [] name = "TANGUT COMPONENT-718" -> 101069
      [] name = "TANGUT COMPONENT-719" -> 101070
      [] name = "TANGUT COMPONENT-720" -> 101071
      [] name = "TANGUT COMPONENT-721" -> 101072
      [] name = "TANGUT COMPONENT-722" -> 101073
      [] name = "TANGUT COMPONENT-723" -> 101074
      [] name = "TANGUT COMPONENT-724" -> 101075
      [] name = "TANGUT COMPONENT-725" -> 101076
      [] name = "TANGUT COMPONENT-726" -> 101077
      [] name = "TANGUT COMPONENT-727" -> 101078
      [] name = "TANGUT COMPONENT-728" -> 101079
      [] name = "TANGUT COMPONENT-729" -> 101080
      [] name = "TANGUT COMPONENT-730" -> 101081
      [] name = "TANGUT COMPONENT-731" -> 101082
      [] name = "TANGUT COMPONENT-732" -> 101083
      [] name = "TANGUT COMPONENT-733" -> 101084
      [] name = "TANGUT COMPONENT-734" -> 101085
      [] name = "TANGUT COMPONENT-735" -> 101086
      [] name = "TANGUT COMPONENT-736" -> 101087
      [] name = "TANGUT COMPONENT-737" -> 101088
      [] name = "TANGUT COMPONENT-738" -> 101089
      [] name = "TANGUT COMPONENT-739" -> 101090
      [] name = "TANGUT COMPONENT-740" -> 101091
      [] name = "TANGUT COMPONENT-741" -> 101092
      [] name = "TANGUT COMPONENT-742" -> 101093
      [] name = "TANGUT COMPONENT-743" -> 101094
      [] name = "TANGUT COMPONENT-744" -> 101095
      [] name = "TANGUT COMPONENT-745" -> 101096
      [] name = "TANGUT COMPONENT-746" -> 101097
      [] name = "TANGUT COMPONENT-747" -> 101098
      [] name = "TANGUT COMPONENT-748" -> 101099
      [] name = "TANGUT COMPONENT-749" -> 101100
      [] name = "TANGUT COMPONENT-750" -> 101101
      [] name = "TANGUT COMPONENT-751" -> 101102
      [] name = "TANGUT COMPONENT-752" -> 101103
      [] name = "TANGUT COMPONENT-753" -> 101104
      [] name = "TANGUT COMPONENT-754" -> 101105
      [] name = "TANGUT COMPONENT-755" -> 101106
      [] name = "TANGUT COMPONENT-756" -> 101107
      [] name = "TANGUT COMPONENT-757" -> 101108
      [] name = "TANGUT COMPONENT-758" -> 101109
      [] name = "TANGUT COMPONENT-759" -> 101110
      [] name = "TANGUT COMPONENT-760" -> 101111
      [] name = "TANGUT COMPONENT-761" -> 101112
      [] name = "TANGUT COMPONENT-762" -> 101113
      [] name = "TANGUT COMPONENT-763" -> 101114
      [] name = "TANGUT COMPONENT-764" -> 101115
      [] name = "TANGUT COMPONENT-765" -> 101116
      [] name = "TANGUT COMPONENT-766" -> 101117
      [] name = "TANGUT COMPONENT-767" -> 101118
      [] name = "TANGUT COMPONENT-768" -> 101119
      [] name = "KHITAN SMALL SCRIPT CHARACTER-18B00" -> 101120
      [] name = "KHITAN SMALL SCRIPT CHARACTER-18B01" -> 101121
      [] name = "KHITAN SMALL SCRIPT CHARACTER-18B02" -> 101122
      [] name = "KHITAN SMALL SCRIPT CHARACTER-18B03" -> 101123
      [] name = "KHITAN SMALL SCRIPT CHARACTER-18B04" -> 101124
      [] name = "KHITAN SMALL SCRIPT CHARACTER-18B05" -> 101125
      [] name = "KHITAN SMALL SCRIPT CHARACTER-18B06" -> 101126
      [] name = "KHITAN SMALL SCRIPT CHARACTER-18B07" -> 101127
      [] name = "KHITAN SMALL SCRIPT CHARACTER-18B08" -> 101128
      [] name = "KHITAN SMALL SCRIPT CHARACTER-18B09" -> 101129
      [] name = "KHITAN SMALL SCRIPT CHARACTER-18B0A" -> 101130
      [] name = "KHITAN SMALL SCRIPT CHARACTER-18B0B" -> 101131
      [] name = "KHITAN SMALL SCRIPT CHARACTER-18B0C" -> 101132
      [] name = "KHITAN SMALL SCRIPT CHARACTER-18B0D" -> 101133
      [] name = "KHITAN SMALL SCRIPT CHARACTER-18B0E" -> 101134
      [] name = "KHITAN SMALL SCRIPT CHARACTER-18B0F" -> 101135
      [] name = "KHITAN SMALL SCRIPT CHARACTER-18B10" -> 101136
      [] name = "KHITAN SMALL SCRIPT CHARACTER-18B11" -> 101137
      [] name = "KHITAN SMALL SCRIPT CHARACTER-18B12" -> 101138
      [] name = "KHITAN SMALL SCRIPT CHARACTER-18B13" -> 101139
      [] name = "KHITAN SMALL SCRIPT CHARACTER-18B14" -> 101140
      [] name = "KHITAN SMALL SCRIPT CHARACTER-18B15" -> 101141
      [] name = "KHITAN SMALL SCRIPT CHARACTER-18B16" -> 101142
      [] name = "KHITAN SMALL SCRIPT CHARACTER-18B17" -> 101143
      [] name = "KHITAN SMALL SCRIPT CHARACTER-18B18" -> 101144
      [] name = "KHITAN SMALL SCRIPT CHARACTER-18B19" -> 101145
      [] name = "KHITAN SMALL SCRIPT CHARACTER-18B1A" -> 101146
      [] name = "KHITAN SMALL SCRIPT CHARACTER-18B1B" -> 101147
      [] name = "KHITAN SMALL SCRIPT CHARACTER-18B1C" -> 101148
      [] name = "KHITAN SMALL SCRIPT CHARACTER-18B1D" -> 101149
      [] name = "KHITAN SMALL SCRIPT CHARACTER-18B1E" -> 101150
      [] name = "KHITAN SMALL SCRIPT CHARACTER-18B1F" -> 101151
      [] name = "KHITAN SMALL SCRIPT CHARACTER-18B20" -> 101152
      [] name = "KHITAN SMALL SCRIPT CHARACTER-18B21" -> 101153
      [] name = "KHITAN SMALL SCRIPT CHARACTER-18B22" -> 101154
      [] name = "KHITAN SMALL SCRIPT CHARACTER-18B23" -> 101155
      [] name = "KHITAN SMALL SCRIPT CHARACTER-18B24" -> 101156
      [] name = "KHITAN SMALL SCRIPT CHARACTER-18B25" -> 101157
      [] name = "KHITAN SMALL SCRIPT CHARACTER-18B26" -> 101158
      [] name = "KHITAN SMALL SCRIPT CHARACTER-18B27" -> 101159
      [] name = "KHITAN SMALL SCRIPT CHARACTER-18B28" -> 101160
      [] name = "KHITAN SMALL SCRIPT CHARACTER-18B29" -> 101161
      [] name = "KHITAN SMALL SCRIPT CHARACTER-18B2A" -> 101162
      [] name = "KHITAN SMALL SCRIPT CHARACTER-18B2B" -> 101163
      [] name = "KHITAN SMALL SCRIPT CHARACTER-18B2C" -> 101164
      [] name = "KHITAN SMALL SCRIPT CHARACTER-18B2D" -> 101165
      [] name = "KHITAN SMALL SCRIPT CHARACTER-18B2E" -> 101166
      [] name = "KHITAN SMALL SCRIPT CHARACTER-18B2F" -> 101167
      [] name = "KHITAN SMALL SCRIPT CHARACTER-18B30" -> 101168
      [] name = "KHITAN SMALL SCRIPT CHARACTER-18B31" -> 101169
      [] name = "KHITAN SMALL SCRIPT CHARACTER-18B32" -> 101170
      [] name = "KHITAN SMALL SCRIPT CHARACTER-18B33" -> 101171
      [] name = "KHITAN SMALL SCRIPT CHARACTER-18B34" -> 101172
      [] name = "KHITAN SMALL SCRIPT CHARACTER-18B35" -> 101173
      [] name = "KHITAN SMALL SCRIPT CHARACTER-18B36" -> 101174
      [] name = "KHITAN SMALL SCRIPT CHARACTER-18B37" -> 101175
      [] name = "KHITAN SMALL SCRIPT CHARACTER-18B38" -> 101176
      [] name = "KHITAN SMALL SCRIPT CHARACTER-18B39" -> 101177
      [] name = "KHITAN SMALL SCRIPT CHARACTER-18B3A" -> 101178
      [] name = "KHITAN SMALL SCRIPT CHARACTER-18B3B" -> 101179
      [] name = "KHITAN SMALL SCRIPT CHARACTER-18B3C" -> 101180
      [] name = "KHITAN SMALL SCRIPT CHARACTER-18B3D" -> 101181
      [] name = "KHITAN SMALL SCRIPT CHARACTER-18B3E" -> 101182
      [] name = "KHITAN SMALL SCRIPT CHARACTER-18B3F" -> 101183
      [] name = "KHITAN SMALL SCRIPT CHARACTER-18B40" -> 101184
      [] name = "KHITAN SMALL SCRIPT CHARACTER-18B41" -> 101185
      [] name = "KHITAN SMALL SCRIPT CHARACTER-18B42" -> 101186
      [] name = "KHITAN SMALL SCRIPT CHARACTER-18B43" -> 101187
      [] name = "KHITAN SMALL SCRIPT CHARACTER-18B44" -> 101188
      [] name = "KHITAN SMALL SCRIPT CHARACTER-18B45" -> 101189
      [] name = "KHITAN SMALL SCRIPT CHARACTER-18B46" -> 101190
      [] name = "KHITAN SMALL SCRIPT CHARACTER-18B47" -> 101191
      [] name = "KHITAN SMALL SCRIPT CHARACTER-18B48" -> 101192
      [] name = "KHITAN SMALL SCRIPT CHARACTER-18B49" -> 101193
      [] name = "KHITAN SMALL SCRIPT CHARACTER-18B4A" -> 101194
      [] name = "KHITAN SMALL SCRIPT CHARACTER-18B4B" -> 101195
      [] name = "KHITAN SMALL SCRIPT CHARACTER-18B4C" -> 101196
      [] name = "KHITAN SMALL SCRIPT CHARACTER-18B4D" -> 101197
      [] name = "KHITAN SMALL SCRIPT CHARACTER-18B4E" -> 101198
      [] name = "KHITAN SMALL SCRIPT CHARACTER-18B4F" -> 101199
      [] name = "KHITAN SMALL SCRIPT CHARACTER-18B50" -> 101200
      [] name = "KHITAN SMALL SCRIPT CHARACTER-18B51" -> 101201
      [] name = "KHITAN SMALL SCRIPT CHARACTER-18B52" -> 101202
      [] name = "KHITAN SMALL SCRIPT CHARACTER-18B53" -> 101203
      [] name = "KHITAN SMALL SCRIPT CHARACTER-18B54" -> 101204
      [] name = "KHITAN SMALL SCRIPT CHARACTER-18B55" -> 101205
      [] name = "KHITAN SMALL SCRIPT CHARACTER-18B56" -> 101206
      [] name = "KHITAN SMALL SCRIPT CHARACTER-18B57" -> 101207
      [] name = "KHITAN SMALL SCRIPT CHARACTER-18B58" -> 101208
      [] name = "KHITAN SMALL SCRIPT CHARACTER-18B59" -> 101209
      [] name = "KHITAN SMALL SCRIPT CHARACTER-18B5A" -> 101210
      [] name = "KHITAN SMALL SCRIPT CHARACTER-18B5B" -> 101211
      [] name = "KHITAN SMALL SCRIPT CHARACTER-18B5C" -> 101212
      [] name = "KHITAN SMALL SCRIPT CHARACTER-18B5D" -> 101213
      [] name = "KHITAN SMALL SCRIPT CHARACTER-18B5E" -> 101214
      [] name = "KHITAN SMALL SCRIPT CHARACTER-18B5F" -> 101215
      [] name = "KHITAN SMALL SCRIPT CHARACTER-18B60" -> 101216
      [] name = "KHITAN SMALL SCRIPT CHARACTER-18B61" -> 101217
      [] name = "KHITAN SMALL SCRIPT CHARACTER-18B62" -> 101218
      [] name = "KHITAN SMALL SCRIPT CHARACTER-18B63" -> 101219
      [] name = "KHITAN SMALL SCRIPT CHARACTER-18B64" -> 101220
      [] name = "KHITAN SMALL SCRIPT CHARACTER-18B65" -> 101221
      [] name = "KHITAN SMALL SCRIPT CHARACTER-18B66" -> 101222
      [] name = "KHITAN SMALL SCRIPT CHARACTER-18B67" -> 101223
      [] name = "KHITAN SMALL SCRIPT CHARACTER-18B68" -> 101224
      [] name = "KHITAN SMALL SCRIPT CHARACTER-18B69" -> 101225
      [] name = "KHITAN SMALL SCRIPT CHARACTER-18B6A" -> 101226
      [] name = "KHITAN SMALL SCRIPT CHARACTER-18B6B" -> 101227
      [] name = "KHITAN SMALL SCRIPT CHARACTER-18B6C" -> 101228
      [] name = "KHITAN SMALL SCRIPT CHARACTER-18B6D" -> 101229
      [] name = "KHITAN SMALL SCRIPT CHARACTER-18B6E" -> 101230
      [] name = "KHITAN SMALL SCRIPT CHARACTER-18B6F" -> 101231
      [] name = "KHITAN SMALL SCRIPT CHARACTER-18B70" -> 101232
      [] name = "KHITAN SMALL SCRIPT CHARACTER-18B71" -> 101233
      [] name = "KHITAN SMALL SCRIPT CHARACTER-18B72" -> 101234
      [] name = "KHITAN SMALL SCRIPT CHARACTER-18B73" -> 101235
      [] name = "KHITAN SMALL SCRIPT CHARACTER-18B74" -> 101236
      [] name = "KHITAN SMALL SCRIPT CHARACTER-18B75" -> 101237
      [] name = "KHITAN SMALL SCRIPT CHARACTER-18B76" -> 101238
      [] name = "KHITAN SMALL SCRIPT CHARACTER-18B77" -> 101239
      [] name = "KHITAN SMALL SCRIPT CHARACTER-18B78" -> 101240
      [] name = "KHITAN SMALL SCRIPT CHARACTER-18B79" -> 101241
      [] name = "KHITAN SMALL SCRIPT CHARACTER-18B7A" -> 101242
      [] name = "KHITAN SMALL SCRIPT CHARACTER-18B7B" -> 101243
      [] name = "KHITAN SMALL SCRIPT CHARACTER-18B7C" -> 101244
      [] name = "KHITAN SMALL SCRIPT CHARACTER-18B7D" -> 101245
      [] name = "KHITAN SMALL SCRIPT CHARACTER-18B7E" -> 101246
      [] name = "KHITAN SMALL SCRIPT CHARACTER-18B7F" -> 101247
      [] name = "KHITAN SMALL SCRIPT CHARACTER-18B80" -> 101248
      [] name = "KHITAN SMALL SCRIPT CHARACTER-18B81" -> 101249
      [] name = "KHITAN SMALL SCRIPT CHARACTER-18B82" -> 101250
      [] name = "KHITAN SMALL SCRIPT CHARACTER-18B83" -> 101251
      [] name = "KHITAN SMALL SCRIPT CHARACTER-18B84" -> 101252
      [] name = "KHITAN SMALL SCRIPT CHARACTER-18B85" -> 101253
      [] name = "KHITAN SMALL SCRIPT CHARACTER-18B86" -> 101254
      [] name = "KHITAN SMALL SCRIPT CHARACTER-18B87" -> 101255
      [] name = "KHITAN SMALL SCRIPT CHARACTER-18B88" -> 101256
      [] name = "KHITAN SMALL SCRIPT CHARACTER-18B89" -> 101257
      [] name = "KHITAN SMALL SCRIPT CHARACTER-18B8A" -> 101258
      [] name = "KHITAN SMALL SCRIPT CHARACTER-18B8B" -> 101259
      [] name = "KHITAN SMALL SCRIPT CHARACTER-18B8C" -> 101260
      [] name = "KHITAN SMALL SCRIPT CHARACTER-18B8D" -> 101261
      [] name = "KHITAN SMALL SCRIPT CHARACTER-18B8E" -> 101262
      [] name = "KHITAN SMALL SCRIPT CHARACTER-18B8F" -> 101263
      [] name = "KHITAN SMALL SCRIPT CHARACTER-18B90" -> 101264
      [] name = "KHITAN SMALL SCRIPT CHARACTER-18B91" -> 101265
      [] name = "KHITAN SMALL SCRIPT CHARACTER-18B92" -> 101266
      [] name = "KHITAN SMALL SCRIPT CHARACTER-18B93" -> 101267
      [] name = "KHITAN SMALL SCRIPT CHARACTER-18B94" -> 101268
      [] name = "KHITAN SMALL SCRIPT CHARACTER-18B95" -> 101269
      [] name = "KHITAN SMALL SCRIPT CHARACTER-18B96" -> 101270
      [] name = "KHITAN SMALL SCRIPT CHARACTER-18B97" -> 101271
      [] name = "KHITAN SMALL SCRIPT CHARACTER-18B98" -> 101272
      [] name = "KHITAN SMALL SCRIPT CHARACTER-18B99" -> 101273
      [] name = "KHITAN SMALL SCRIPT CHARACTER-18B9A" -> 101274
      [] name = "KHITAN SMALL SCRIPT CHARACTER-18B9B" -> 101275
      [] name = "KHITAN SMALL SCRIPT CHARACTER-18B9C" -> 101276
      [] name = "KHITAN SMALL SCRIPT CHARACTER-18B9D" -> 101277
      [] name = "KHITAN SMALL SCRIPT CHARACTER-18B9E" -> 101278
      [] name = "KHITAN SMALL SCRIPT CHARACTER-18B9F" -> 101279
      [] name = "KHITAN SMALL SCRIPT CHARACTER-18BA0" -> 101280
      [] name = "KHITAN SMALL SCRIPT CHARACTER-18BA1" -> 101281
      [] name = "KHITAN SMALL SCRIPT CHARACTER-18BA2" -> 101282
      [] name = "KHITAN SMALL SCRIPT CHARACTER-18BA3" -> 101283
      [] name = "KHITAN SMALL SCRIPT CHARACTER-18BA4" -> 101284
      [] name = "KHITAN SMALL SCRIPT CHARACTER-18BA5" -> 101285
      [] name = "KHITAN SMALL SCRIPT CHARACTER-18BA6" -> 101286
      [] name = "KHITAN SMALL SCRIPT CHARACTER-18BA7" -> 101287
      [] name = "KHITAN SMALL SCRIPT CHARACTER-18BA8" -> 101288
      [] name = "KHITAN SMALL SCRIPT CHARACTER-18BA9" -> 101289
      [] name = "KHITAN SMALL SCRIPT CHARACTER-18BAA" -> 101290
      [] name = "KHITAN SMALL SCRIPT CHARACTER-18BAB" -> 101291
      [] name = "KHITAN SMALL SCRIPT CHARACTER-18BAC" -> 101292
      [] name = "KHITAN SMALL SCRIPT CHARACTER-18BAD" -> 101293
      [] name = "KHITAN SMALL SCRIPT CHARACTER-18BAE" -> 101294
      [] name = "KHITAN SMALL SCRIPT CHARACTER-18BAF" -> 101295
      [] name = "KHITAN SMALL SCRIPT CHARACTER-18BB0" -> 101296
      [] name = "KHITAN SMALL SCRIPT CHARACTER-18BB1" -> 101297
      [] name = "KHITAN SMALL SCRIPT CHARACTER-18BB2" -> 101298
      [] name = "KHITAN SMALL SCRIPT CHARACTER-18BB3" -> 101299
      [] name = "KHITAN SMALL SCRIPT CHARACTER-18BB4" -> 101300
      [] name = "KHITAN SMALL SCRIPT CHARACTER-18BB5" -> 101301
      [] name = "KHITAN SMALL SCRIPT CHARACTER-18BB6" -> 101302
      [] name = "KHITAN SMALL SCRIPT CHARACTER-18BB7" -> 101303
      [] name = "KHITAN SMALL SCRIPT CHARACTER-18BB8" -> 101304
      [] name = "KHITAN SMALL SCRIPT CHARACTER-18BB9" -> 101305
      [] name = "KHITAN SMALL SCRIPT CHARACTER-18BBA" -> 101306
      [] name = "KHITAN SMALL SCRIPT CHARACTER-18BBB" -> 101307
      [] name = "KHITAN SMALL SCRIPT CHARACTER-18BBC" -> 101308
      [] name = "KHITAN SMALL SCRIPT CHARACTER-18BBD" -> 101309
      [] name = "KHITAN SMALL SCRIPT CHARACTER-18BBE" -> 101310
      [] name = "KHITAN SMALL SCRIPT CHARACTER-18BBF" -> 101311
      [] name = "KHITAN SMALL SCRIPT CHARACTER-18BC0" -> 101312
      [] name = "KHITAN SMALL SCRIPT CHARACTER-18BC1" -> 101313
      [] name = "KHITAN SMALL SCRIPT CHARACTER-18BC2" -> 101314
      [] name = "KHITAN SMALL SCRIPT CHARACTER-18BC3" -> 101315
      [] name = "KHITAN SMALL SCRIPT CHARACTER-18BC4" -> 101316
      [] name = "KHITAN SMALL SCRIPT CHARACTER-18BC5" -> 101317
      [] name = "KHITAN SMALL SCRIPT CHARACTER-18BC6" -> 101318
      [] name = "KHITAN SMALL SCRIPT CHARACTER-18BC7" -> 101319
      [] name = "KHITAN SMALL SCRIPT CHARACTER-18BC8" -> 101320
      [] name = "KHITAN SMALL SCRIPT CHARACTER-18BC9" -> 101321
      [] name = "KHITAN SMALL SCRIPT CHARACTER-18BCA" -> 101322
      [] name = "KHITAN SMALL SCRIPT CHARACTER-18BCB" -> 101323
      [] name = "KHITAN SMALL SCRIPT CHARACTER-18BCC" -> 101324
      [] name = "KHITAN SMALL SCRIPT CHARACTER-18BCD" -> 101325
      [] name = "KHITAN SMALL SCRIPT CHARACTER-18BCE" -> 101326
      [] name = "KHITAN SMALL SCRIPT CHARACTER-18BCF" -> 101327
      [] name = "KHITAN SMALL SCRIPT CHARACTER-18BD0" -> 101328
      [] name = "KHITAN SMALL SCRIPT CHARACTER-18BD1" -> 101329
      [] name = "KHITAN SMALL SCRIPT CHARACTER-18BD2" -> 101330
      [] name = "KHITAN SMALL SCRIPT CHARACTER-18BD3" -> 101331
      [] name = "KHITAN SMALL SCRIPT CHARACTER-18BD4" -> 101332
      [] name = "KHITAN SMALL SCRIPT CHARACTER-18BD5" -> 101333
      [] name = "KHITAN SMALL SCRIPT CHARACTER-18BD6" -> 101334
      [] name = "KHITAN SMALL SCRIPT CHARACTER-18BD7" -> 101335
      [] name = "KHITAN SMALL SCRIPT CHARACTER-18BD8" -> 101336
      [] name = "KHITAN SMALL SCRIPT CHARACTER-18BD9" -> 101337
      [] name = "KHITAN SMALL SCRIPT CHARACTER-18BDA" -> 101338
      [] name = "KHITAN SMALL SCRIPT CHARACTER-18BDB" -> 101339
      [] name = "KHITAN SMALL SCRIPT CHARACTER-18BDC" -> 101340
      [] name = "KHITAN SMALL SCRIPT CHARACTER-18BDD" -> 101341
      [] name = "KHITAN SMALL SCRIPT CHARACTER-18BDE" -> 101342
      [] name = "KHITAN SMALL SCRIPT CHARACTER-18BDF" -> 101343
      [] name = "KHITAN SMALL SCRIPT CHARACTER-18BE0" -> 101344
      [] name = "KHITAN SMALL SCRIPT CHARACTER-18BE1" -> 101345
      [] name = "KHITAN SMALL SCRIPT CHARACTER-18BE2" -> 101346
      [] name = "KHITAN SMALL SCRIPT CHARACTER-18BE3" -> 101347
      [] name = "KHITAN SMALL SCRIPT CHARACTER-18BE4" -> 101348
      [] name = "KHITAN SMALL SCRIPT CHARACTER-18BE5" -> 101349
      [] name = "KHITAN SMALL SCRIPT CHARACTER-18BE6" -> 101350
      [] name = "KHITAN SMALL SCRIPT CHARACTER-18BE7" -> 101351
      [] name = "KHITAN SMALL SCRIPT CHARACTER-18BE8" -> 101352
      [] name = "KHITAN SMALL SCRIPT CHARACTER-18BE9" -> 101353
      [] name = "KHITAN SMALL SCRIPT CHARACTER-18BEA" -> 101354
      [] name = "KHITAN SMALL SCRIPT CHARACTER-18BEB" -> 101355
      [] name = "KHITAN SMALL SCRIPT CHARACTER-18BEC" -> 101356
      [] name = "KHITAN SMALL SCRIPT CHARACTER-18BED" -> 101357
      [] name = "KHITAN SMALL SCRIPT CHARACTER-18BEE" -> 101358
      [] name = "KHITAN SMALL SCRIPT CHARACTER-18BEF" -> 101359
      [] name = "KHITAN SMALL SCRIPT CHARACTER-18BF0" -> 101360
      [] name = "KHITAN SMALL SCRIPT CHARACTER-18BF1" -> 101361
      [] name = "KHITAN SMALL SCRIPT CHARACTER-18BF2" -> 101362
      [] name = "KHITAN SMALL SCRIPT CHARACTER-18BF3" -> 101363
      [] name = "KHITAN SMALL SCRIPT CHARACTER-18BF4" -> 101364
      [] name = "KHITAN SMALL SCRIPT CHARACTER-18BF5" -> 101365
      [] name = "KHITAN SMALL SCRIPT CHARACTER-18BF6" -> 101366
      [] name = "KHITAN SMALL SCRIPT CHARACTER-18BF7" -> 101367
      [] name = "KHITAN SMALL SCRIPT CHARACTER-18BF8" -> 101368
      [] name = "KHITAN SMALL SCRIPT CHARACTER-18BF9" -> 101369
      [] name = "KHITAN SMALL SCRIPT CHARACTER-18BFA" -> 101370
      [] name = "KHITAN SMALL SCRIPT CHARACTER-18BFB" -> 101371
      [] name = "KHITAN SMALL SCRIPT CHARACTER-18BFC" -> 101372
      [] name = "KHITAN SMALL SCRIPT CHARACTER-18BFD" -> 101373
      [] name = "KHITAN SMALL SCRIPT CHARACTER-18BFE" -> 101374
      [] name = "KHITAN SMALL SCRIPT CHARACTER-18BFF" -> 101375
      [] name = "KHITAN SMALL SCRIPT CHARACTER-18C00" -> 101376
      [] name = "KHITAN SMALL SCRIPT CHARACTER-18C01" -> 101377
      [] name = "KHITAN SMALL SCRIPT CHARACTER-18C02" -> 101378
      [] name = "KHITAN SMALL SCRIPT CHARACTER-18C03" -> 101379
      [] name = "KHITAN SMALL SCRIPT CHARACTER-18C04" -> 101380
      [] name = "KHITAN SMALL SCRIPT CHARACTER-18C05" -> 101381
      [] name = "KHITAN SMALL SCRIPT CHARACTER-18C06" -> 101382
      [] name = "KHITAN SMALL SCRIPT CHARACTER-18C07" -> 101383
      [] name = "KHITAN SMALL SCRIPT CHARACTER-18C08" -> 101384
      [] name = "KHITAN SMALL SCRIPT CHARACTER-18C09" -> 101385
      [] name = "KHITAN SMALL SCRIPT CHARACTER-18C0A" -> 101386
      [] name = "KHITAN SMALL SCRIPT CHARACTER-18C0B" -> 101387
      [] name = "KHITAN SMALL SCRIPT CHARACTER-18C0C" -> 101388
      [] name = "KHITAN SMALL SCRIPT CHARACTER-18C0D" -> 101389
      [] name = "KHITAN SMALL SCRIPT CHARACTER-18C0E" -> 101390
      [] name = "KHITAN SMALL SCRIPT CHARACTER-18C0F" -> 101391
      [] name = "KHITAN SMALL SCRIPT CHARACTER-18C10" -> 101392
      [] name = "KHITAN SMALL SCRIPT CHARACTER-18C11" -> 101393
      [] name = "KHITAN SMALL SCRIPT CHARACTER-18C12" -> 101394
      [] name = "KHITAN SMALL SCRIPT CHARACTER-18C13" -> 101395
      [] name = "KHITAN SMALL SCRIPT CHARACTER-18C14" -> 101396
      [] name = "KHITAN SMALL SCRIPT CHARACTER-18C15" -> 101397
      [] name = "KHITAN SMALL SCRIPT CHARACTER-18C16" -> 101398
      [] name = "KHITAN SMALL SCRIPT CHARACTER-18C17" -> 101399
      [] name = "KHITAN SMALL SCRIPT CHARACTER-18C18" -> 101400
      [] name = "KHITAN SMALL SCRIPT CHARACTER-18C19" -> 101401
      [] name = "KHITAN SMALL SCRIPT CHARACTER-18C1A" -> 101402
      [] name = "KHITAN SMALL SCRIPT CHARACTER-18C1B" -> 101403
      [] name = "KHITAN SMALL SCRIPT CHARACTER-18C1C" -> 101404
      [] name = "KHITAN SMALL SCRIPT CHARACTER-18C1D" -> 101405
      [] name = "KHITAN SMALL SCRIPT CHARACTER-18C1E" -> 101406
      [] name = "KHITAN SMALL SCRIPT CHARACTER-18C1F" -> 101407
      [] name = "KHITAN SMALL SCRIPT CHARACTER-18C20" -> 101408
      [] name = "KHITAN SMALL SCRIPT CHARACTER-18C21" -> 101409
      [] name = "KHITAN SMALL SCRIPT CHARACTER-18C22" -> 101410
      [] name = "KHITAN SMALL SCRIPT CHARACTER-18C23" -> 101411
      [] name = "KHITAN SMALL SCRIPT CHARACTER-18C24" -> 101412
      [] name = "KHITAN SMALL SCRIPT CHARACTER-18C25" -> 101413
      [] name = "KHITAN SMALL SCRIPT CHARACTER-18C26" -> 101414
      [] name = "KHITAN SMALL SCRIPT CHARACTER-18C27" -> 101415
      [] name = "KHITAN SMALL SCRIPT CHARACTER-18C28" -> 101416
      [] name = "KHITAN SMALL SCRIPT CHARACTER-18C29" -> 101417
      [] name = "KHITAN SMALL SCRIPT CHARACTER-18C2A" -> 101418
      [] name = "KHITAN SMALL SCRIPT CHARACTER-18C2B" -> 101419
      [] name = "KHITAN SMALL SCRIPT CHARACTER-18C2C" -> 101420
      [] name = "KHITAN SMALL SCRIPT CHARACTER-18C2D" -> 101421
      [] name = "KHITAN SMALL SCRIPT CHARACTER-18C2E" -> 101422
      [] name = "KHITAN SMALL SCRIPT CHARACTER-18C2F" -> 101423
      [] name = "KHITAN SMALL SCRIPT CHARACTER-18C30" -> 101424
      [] name = "KHITAN SMALL SCRIPT CHARACTER-18C31" -> 101425
      [] name = "KHITAN SMALL SCRIPT CHARACTER-18C32" -> 101426
      [] name = "KHITAN SMALL SCRIPT CHARACTER-18C33" -> 101427
      [] name = "KHITAN SMALL SCRIPT CHARACTER-18C34" -> 101428
      [] name = "KHITAN SMALL SCRIPT CHARACTER-18C35" -> 101429
      [] name = "KHITAN SMALL SCRIPT CHARACTER-18C36" -> 101430
      [] name = "KHITAN SMALL SCRIPT CHARACTER-18C37" -> 101431
      [] name = "KHITAN SMALL SCRIPT CHARACTER-18C38" -> 101432
      [] name = "KHITAN SMALL SCRIPT CHARACTER-18C39" -> 101433
      [] name = "KHITAN SMALL SCRIPT CHARACTER-18C3A" -> 101434
      [] name = "KHITAN SMALL SCRIPT CHARACTER-18C3B" -> 101435
      [] name = "KHITAN SMALL SCRIPT CHARACTER-18C3C" -> 101436
      [] name = "KHITAN SMALL SCRIPT CHARACTER-18C3D" -> 101437
      [] name = "KHITAN SMALL SCRIPT CHARACTER-18C3E" -> 101438
      [] name = "KHITAN SMALL SCRIPT CHARACTER-18C3F" -> 101439
      [] name = "KHITAN SMALL SCRIPT CHARACTER-18C40" -> 101440
      [] name = "KHITAN SMALL SCRIPT CHARACTER-18C41" -> 101441
      [] name = "KHITAN SMALL SCRIPT CHARACTER-18C42" -> 101442
      [] name = "KHITAN SMALL SCRIPT CHARACTER-18C43" -> 101443
      [] name = "KHITAN SMALL SCRIPT CHARACTER-18C44" -> 101444
      [] name = "KHITAN SMALL SCRIPT CHARACTER-18C45" -> 101445
      [] name = "KHITAN SMALL SCRIPT CHARACTER-18C46" -> 101446
      [] name = "KHITAN SMALL SCRIPT CHARACTER-18C47" -> 101447
      [] name = "KHITAN SMALL SCRIPT CHARACTER-18C48" -> 101448
      [] name = "KHITAN SMALL SCRIPT CHARACTER-18C49" -> 101449
      [] name = "KHITAN SMALL SCRIPT CHARACTER-18C4A" -> 101450
      [] name = "KHITAN SMALL SCRIPT CHARACTER-18C4B" -> 101451
      [] name = "KHITAN SMALL SCRIPT CHARACTER-18C4C" -> 101452
      [] name = "KHITAN SMALL SCRIPT CHARACTER-18C4D" -> 101453
      [] name = "KHITAN SMALL SCRIPT CHARACTER-18C4E" -> 101454
      [] name = "KHITAN SMALL SCRIPT CHARACTER-18C4F" -> 101455
      [] name = "KHITAN SMALL SCRIPT CHARACTER-18C50" -> 101456
      [] name = "KHITAN SMALL SCRIPT CHARACTER-18C51" -> 101457
      [] name = "KHITAN SMALL SCRIPT CHARACTER-18C52" -> 101458
      [] name = "KHITAN SMALL SCRIPT CHARACTER-18C53" -> 101459
      [] name = "KHITAN SMALL SCRIPT CHARACTER-18C54" -> 101460
      [] name = "KHITAN SMALL SCRIPT CHARACTER-18C55" -> 101461
      [] name = "KHITAN SMALL SCRIPT CHARACTER-18C56" -> 101462
      [] name = "KHITAN SMALL SCRIPT CHARACTER-18C57" -> 101463
      [] name = "KHITAN SMALL SCRIPT CHARACTER-18C58" -> 101464
      [] name = "KHITAN SMALL SCRIPT CHARACTER-18C59" -> 101465
      [] name = "KHITAN SMALL SCRIPT CHARACTER-18C5A" -> 101466
      [] name = "KHITAN SMALL SCRIPT CHARACTER-18C5B" -> 101467
      [] name = "KHITAN SMALL SCRIPT CHARACTER-18C5C" -> 101468
      [] name = "KHITAN SMALL SCRIPT CHARACTER-18C5D" -> 101469
      [] name = "KHITAN SMALL SCRIPT CHARACTER-18C5E" -> 101470
      [] name = "KHITAN SMALL SCRIPT CHARACTER-18C5F" -> 101471
      [] name = "KHITAN SMALL SCRIPT CHARACTER-18C60" -> 101472
      [] name = "KHITAN SMALL SCRIPT CHARACTER-18C61" -> 101473
      [] name = "KHITAN SMALL SCRIPT CHARACTER-18C62" -> 101474
      [] name = "KHITAN SMALL SCRIPT CHARACTER-18C63" -> 101475
      [] name = "KHITAN SMALL SCRIPT CHARACTER-18C64" -> 101476
      [] name = "KHITAN SMALL SCRIPT CHARACTER-18C65" -> 101477
      [] name = "KHITAN SMALL SCRIPT CHARACTER-18C66" -> 101478
      [] name = "KHITAN SMALL SCRIPT CHARACTER-18C67" -> 101479
      [] name = "KHITAN SMALL SCRIPT CHARACTER-18C68" -> 101480
      [] name = "KHITAN SMALL SCRIPT CHARACTER-18C69" -> 101481
      [] name = "KHITAN SMALL SCRIPT CHARACTER-18C6A" -> 101482
      [] name = "KHITAN SMALL SCRIPT CHARACTER-18C6B" -> 101483
      [] name = "KHITAN SMALL SCRIPT CHARACTER-18C6C" -> 101484
      [] name = "KHITAN SMALL SCRIPT CHARACTER-18C6D" -> 101485
      [] name = "KHITAN SMALL SCRIPT CHARACTER-18C6E" -> 101486
      [] name = "KHITAN SMALL SCRIPT CHARACTER-18C6F" -> 101487
      [] name = "KHITAN SMALL SCRIPT CHARACTER-18C70" -> 101488
      [] name = "KHITAN SMALL SCRIPT CHARACTER-18C71" -> 101489
      [] name = "KHITAN SMALL SCRIPT CHARACTER-18C72" -> 101490
      [] name = "KHITAN SMALL SCRIPT CHARACTER-18C73" -> 101491
      [] name = "KHITAN SMALL SCRIPT CHARACTER-18C74" -> 101492
      [] name = "KHITAN SMALL SCRIPT CHARACTER-18C75" -> 101493
      [] name = "KHITAN SMALL SCRIPT CHARACTER-18C76" -> 101494
      [] name = "KHITAN SMALL SCRIPT CHARACTER-18C77" -> 101495
      [] name = "KHITAN SMALL SCRIPT CHARACTER-18C78" -> 101496
      [] name = "KHITAN SMALL SCRIPT CHARACTER-18C79" -> 101497
      [] name = "KHITAN SMALL SCRIPT CHARACTER-18C7A" -> 101498
      [] name = "KHITAN SMALL SCRIPT CHARACTER-18C7B" -> 101499
      [] name = "KHITAN SMALL SCRIPT CHARACTER-18C7C" -> 101500
      [] name = "KHITAN SMALL SCRIPT CHARACTER-18C7D" -> 101501
      [] name = "KHITAN SMALL SCRIPT CHARACTER-18C7E" -> 101502
      [] name = "KHITAN SMALL SCRIPT CHARACTER-18C7F" -> 101503
      [] name = "KHITAN SMALL SCRIPT CHARACTER-18C80" -> 101504
      [] name = "KHITAN SMALL SCRIPT CHARACTER-18C81" -> 101505
      [] name = "KHITAN SMALL SCRIPT CHARACTER-18C82" -> 101506
      [] name = "KHITAN SMALL SCRIPT CHARACTER-18C83" -> 101507
      [] name = "KHITAN SMALL SCRIPT CHARACTER-18C84" -> 101508
      [] name = "KHITAN SMALL SCRIPT CHARACTER-18C85" -> 101509
      [] name = "KHITAN SMALL SCRIPT CHARACTER-18C86" -> 101510
      [] name = "KHITAN SMALL SCRIPT CHARACTER-18C87" -> 101511
      [] name = "KHITAN SMALL SCRIPT CHARACTER-18C88" -> 101512
      [] name = "KHITAN SMALL SCRIPT CHARACTER-18C89" -> 101513
      [] name = "KHITAN SMALL SCRIPT CHARACTER-18C8A" -> 101514
      [] name = "KHITAN SMALL SCRIPT CHARACTER-18C8B" -> 101515
      [] name = "KHITAN SMALL SCRIPT CHARACTER-18C8C" -> 101516
      [] name = "KHITAN SMALL SCRIPT CHARACTER-18C8D" -> 101517
      [] name = "KHITAN SMALL SCRIPT CHARACTER-18C8E" -> 101518
      [] name = "KHITAN SMALL SCRIPT CHARACTER-18C8F" -> 101519
      [] name = "KHITAN SMALL SCRIPT CHARACTER-18C90" -> 101520
      [] name = "KHITAN SMALL SCRIPT CHARACTER-18C91" -> 101521
      [] name = "KHITAN SMALL SCRIPT CHARACTER-18C92" -> 101522
      [] name = "KHITAN SMALL SCRIPT CHARACTER-18C93" -> 101523
      [] name = "KHITAN SMALL SCRIPT CHARACTER-18C94" -> 101524
      [] name = "KHITAN SMALL SCRIPT CHARACTER-18C95" -> 101525
      [] name = "KHITAN SMALL SCRIPT CHARACTER-18C96" -> 101526
      [] name = "KHITAN SMALL SCRIPT CHARACTER-18C97" -> 101527
      [] name = "KHITAN SMALL SCRIPT CHARACTER-18C98" -> 101528
      [] name = "KHITAN SMALL SCRIPT CHARACTER-18C99" -> 101529
      [] name = "KHITAN SMALL SCRIPT CHARACTER-18C9A" -> 101530
      [] name = "KHITAN SMALL SCRIPT CHARACTER-18C9B" -> 101531
      [] name = "KHITAN SMALL SCRIPT CHARACTER-18C9C" -> 101532
      [] name = "KHITAN SMALL SCRIPT CHARACTER-18C9D" -> 101533
      [] name = "KHITAN SMALL SCRIPT CHARACTER-18C9E" -> 101534
      [] name = "KHITAN SMALL SCRIPT CHARACTER-18C9F" -> 101535
      [] name = "KHITAN SMALL SCRIPT CHARACTER-18CA0" -> 101536
      [] name = "KHITAN SMALL SCRIPT CHARACTER-18CA1" -> 101537
      [] name = "KHITAN SMALL SCRIPT CHARACTER-18CA2" -> 101538
      [] name = "KHITAN SMALL SCRIPT CHARACTER-18CA3" -> 101539
      [] name = "KHITAN SMALL SCRIPT CHARACTER-18CA4" -> 101540
      [] name = "KHITAN SMALL SCRIPT CHARACTER-18CA5" -> 101541
      [] name = "KHITAN SMALL SCRIPT CHARACTER-18CA6" -> 101542
      [] name = "KHITAN SMALL SCRIPT CHARACTER-18CA7" -> 101543
      [] name = "KHITAN SMALL SCRIPT CHARACTER-18CA8" -> 101544
      [] name = "KHITAN SMALL SCRIPT CHARACTER-18CA9" -> 101545
      [] name = "KHITAN SMALL SCRIPT CHARACTER-18CAA" -> 101546
      [] name = "KHITAN SMALL SCRIPT CHARACTER-18CAB" -> 101547
      [] name = "KHITAN SMALL SCRIPT CHARACTER-18CAC" -> 101548
      [] name = "KHITAN SMALL SCRIPT CHARACTER-18CAD" -> 101549
      [] name = "KHITAN SMALL SCRIPT CHARACTER-18CAE" -> 101550
      [] name = "KHITAN SMALL SCRIPT CHARACTER-18CAF" -> 101551
      [] name = "KHITAN SMALL SCRIPT CHARACTER-18CB0" -> 101552
      [] name = "KHITAN SMALL SCRIPT CHARACTER-18CB1" -> 101553
      [] name = "KHITAN SMALL SCRIPT CHARACTER-18CB2" -> 101554
      [] name = "KHITAN SMALL SCRIPT CHARACTER-18CB3" -> 101555
      [] name = "KHITAN SMALL SCRIPT CHARACTER-18CB4" -> 101556
      [] name = "KHITAN SMALL SCRIPT CHARACTER-18CB5" -> 101557
      [] name = "KHITAN SMALL SCRIPT CHARACTER-18CB6" -> 101558
      [] name = "KHITAN SMALL SCRIPT CHARACTER-18CB7" -> 101559
      [] name = "KHITAN SMALL SCRIPT CHARACTER-18CB8" -> 101560
      [] name = "KHITAN SMALL SCRIPT CHARACTER-18CB9" -> 101561
      [] name = "KHITAN SMALL SCRIPT CHARACTER-18CBA" -> 101562
      [] name = "KHITAN SMALL SCRIPT CHARACTER-18CBB" -> 101563
      [] name = "KHITAN SMALL SCRIPT CHARACTER-18CBC" -> 101564
      [] name = "KHITAN SMALL SCRIPT CHARACTER-18CBD" -> 101565
      [] name = "KHITAN SMALL SCRIPT CHARACTER-18CBE" -> 101566
      [] name = "KHITAN SMALL SCRIPT CHARACTER-18CBF" -> 101567
      [] name = "KHITAN SMALL SCRIPT CHARACTER-18CC0" -> 101568
      [] name = "KHITAN SMALL SCRIPT CHARACTER-18CC1" -> 101569
      [] name = "KHITAN SMALL SCRIPT CHARACTER-18CC2" -> 101570
      [] name = "KHITAN SMALL SCRIPT CHARACTER-18CC3" -> 101571
      [] name = "KHITAN SMALL SCRIPT CHARACTER-18CC4" -> 101572
      [] name = "KHITAN SMALL SCRIPT CHARACTER-18CC5" -> 101573
      [] name = "KHITAN SMALL SCRIPT CHARACTER-18CC6" -> 101574
      [] name = "KHITAN SMALL SCRIPT CHARACTER-18CC7" -> 101575
      [] name = "KHITAN SMALL SCRIPT CHARACTER-18CC8" -> 101576
      [] name = "KHITAN SMALL SCRIPT CHARACTER-18CC9" -> 101577
      [] name = "KHITAN SMALL SCRIPT CHARACTER-18CCA" -> 101578
      [] name = "KHITAN SMALL SCRIPT CHARACTER-18CCB" -> 101579
      [] name = "KHITAN SMALL SCRIPT CHARACTER-18CCC" -> 101580
      [] name = "KHITAN SMALL SCRIPT CHARACTER-18CCD" -> 101581
      [] name = "KHITAN SMALL SCRIPT CHARACTER-18CCE" -> 101582
      [] name = "KHITAN SMALL SCRIPT CHARACTER-18CCF" -> 101583
      [] name = "KHITAN SMALL SCRIPT CHARACTER-18CD0" -> 101584
      [] name = "KHITAN SMALL SCRIPT CHARACTER-18CD1" -> 101585
      [] name = "KHITAN SMALL SCRIPT CHARACTER-18CD2" -> 101586
      [] name = "KHITAN SMALL SCRIPT CHARACTER-18CD3" -> 101587
      [] name = "KHITAN SMALL SCRIPT CHARACTER-18CD4" -> 101588
      [] name = "KHITAN SMALL SCRIPT CHARACTER-18CD5" -> 101589
      [] name = "KATAKANA LETTER MINNAN TONE-2" -> 110576
      [] name = "KATAKANA LETTER MINNAN TONE-3" -> 110577
      [] name = "KATAKANA LETTER MINNAN TONE-4" -> 110578
      [] name = "KATAKANA LETTER MINNAN TONE-5" -> 110579
      [] name = "KATAKANA LETTER MINNAN TONE-7" -> 110581
      [] name = "KATAKANA LETTER MINNAN TONE-8" -> 110582
      [] name = "KATAKANA LETTER MINNAN NASALIZED TONE-1" -> 110583
      [] name = "KATAKANA LETTER MINNAN NASALIZED TONE-2" -> 110584
      [] name = "KATAKANA LETTER MINNAN NASALIZED TONE-3" -> 110585
      [] name = "KATAKANA LETTER MINNAN NASALIZED TONE-4" -> 110586
      [] name = "KATAKANA LETTER MINNAN NASALIZED TONE-5" -> 110587
      [] name = "KATAKANA LETTER MINNAN NASALIZED TONE-7" -> 110589
      [] name = "KATAKANA LETTER MINNAN NASALIZED TONE-8" -> 110590
      [] name = "KATAKANA LETTER ARCHAIC E" -> 110592
      [] name = "HENTAIGANA LETTER E-1" -> 110593
      [] name = "HIRAGANA LETTER ARCHAIC YE" -> 110593
      [] name = "HENTAIGANA LETTER A-1" -> 110594
      [] name = "HENTAIGANA LETTER A-2" -> 110595
      [] name = "HENTAIGANA LETTER A-3" -> 110596
      [] name = "HENTAIGANA LETTER A-WO" -> 110597
      [] name = "HENTAIGANA LETTER I-1" -> 110598
      [] name = "HENTAIGANA LETTER I-2" -> 110599
      [] name = "HENTAIGANA LETTER I-3" -> 110600
      [] name = "HENTAIGANA LETTER I-4" -> 110601
      [] name = "HENTAIGANA LETTER U-1" -> 110602
      [] name = "HENTAIGANA LETTER U-2" -> 110603
      [] name = "HENTAIGANA LETTER U-3" -> 110604
      [] name = "HENTAIGANA LETTER U-4" -> 110605
      [] name = "HENTAIGANA LETTER U-5" -> 110606
      [] name = "HENTAIGANA LETTER E-2" -> 110607
      [] name = "HENTAIGANA LETTER E-3" -> 110608
      [] name = "HENTAIGANA LETTER E-4" -> 110609
      [] name = "HENTAIGANA LETTER E-5" -> 110610
      [] name = "HENTAIGANA LETTER E-6" -> 110611
      [] name = "HENTAIGANA LETTER O-1" -> 110612
      [] name = "HENTAIGANA LETTER O-2" -> 110613
      [] name = "HENTAIGANA LETTER O-3" -> 110614
      [] name = "HENTAIGANA LETTER KA-1" -> 110615
      [] name = "HENTAIGANA LETTER KA-2" -> 110616
      [] name = "HENTAIGANA LETTER KA-3" -> 110617
      [] name = "HENTAIGANA LETTER KA-4" -> 110618
      [] name = "HENTAIGANA LETTER KA-5" -> 110619
      [] name = "HENTAIGANA LETTER KA-6" -> 110620
      [] name = "HENTAIGANA LETTER KA-7" -> 110621
      [] name = "HENTAIGANA LETTER KA-8" -> 110622
      [] name = "HENTAIGANA LETTER KA-9" -> 110623
      [] name = "HENTAIGANA LETTER KA-10" -> 110624
      [] name = "HENTAIGANA LETTER KA-11" -> 110625
      [] name = "HENTAIGANA LETTER KA-KE" -> 110626
      [] name = "HENTAIGANA LETTER KI-1" -> 110627
      [] name = "HENTAIGANA LETTER KI-2" -> 110628
      [] name = "HENTAIGANA LETTER KI-3" -> 110629
      [] name = "HENTAIGANA LETTER KI-4" -> 110630
      [] name = "HENTAIGANA LETTER KI-5" -> 110631
      [] name = "HENTAIGANA LETTER KI-6" -> 110632
      [] name = "HENTAIGANA LETTER KI-7" -> 110633
      [] name = "HENTAIGANA LETTER KI-8" -> 110634
      [] name = "HENTAIGANA LETTER KU-1" -> 110635
      [] name = "HENTAIGANA LETTER KU-2" -> 110636
      [] name = "HENTAIGANA LETTER KU-3" -> 110637
      [] name = "HENTAIGANA LETTER KU-4" -> 110638
      [] name = "HENTAIGANA LETTER KU-5" -> 110639
      [] name = "HENTAIGANA LETTER KU-6" -> 110640
      [] name = "HENTAIGANA LETTER KU-7" -> 110641
      [] name = "HENTAIGANA LETTER KE-1" -> 110642
      [] name = "HENTAIGANA LETTER KE-2" -> 110643
      [] name = "HENTAIGANA LETTER KE-3" -> 110644
      [] name = "HENTAIGANA LETTER KE-4" -> 110645
      [] name = "HENTAIGANA LETTER KE-5" -> 110646
      [] name = "HENTAIGANA LETTER KE-6" -> 110647
      [] name = "HENTAIGANA LETTER KO-1" -> 110648
      [] name = "HENTAIGANA LETTER KO-2" -> 110649
      [] name = "HENTAIGANA LETTER KO-3" -> 110650
      [] name = "HENTAIGANA LETTER KO-KI" -> 110651
      [] name = "HENTAIGANA LETTER SA-1" -> 110652
      [] name = "HENTAIGANA LETTER SA-2" -> 110653
      [] name = "HENTAIGANA LETTER SA-3" -> 110654
      [] name = "HENTAIGANA LETTER SA-4" -> 110655
      [] name = "HENTAIGANA LETTER SA-5" -> 110656
      [] name = "HENTAIGANA LETTER SA-6" -> 110657
      [] name = "HENTAIGANA LETTER SA-7" -> 110658
      [] name = "HENTAIGANA LETTER SA-8" -> 110659
      [] name = "HENTAIGANA LETTER SI-1" -> 110660
      [] name = "HENTAIGANA LETTER SI-2" -> 110661
      [] name = "HENTAIGANA LETTER SI-3" -> 110662
      [] name = "HENTAIGANA LETTER SI-4" -> 110663
      [] name = "HENTAIGANA LETTER SI-5" -> 110664
      [] name = "HENTAIGANA LETTER SI-6" -> 110665
      [] name = "HENTAIGANA LETTER SU-1" -> 110666
      [] name = "HENTAIGANA LETTER SU-2" -> 110667
      [] name = "HENTAIGANA LETTER SU-3" -> 110668
      [] name = "HENTAIGANA LETTER SU-4" -> 110669
      [] name = "HENTAIGANA LETTER SU-5" -> 110670
      [] name = "HENTAIGANA LETTER SU-6" -> 110671
      [] name = "HENTAIGANA LETTER SU-7" -> 110672
      [] name = "HENTAIGANA LETTER SU-8" -> 110673
      [] name = "HENTAIGANA LETTER SE-1" -> 110674
      [] name = "HENTAIGANA LETTER SE-2" -> 110675
      [] name = "HENTAIGANA LETTER SE-3" -> 110676
      [] name = "HENTAIGANA LETTER SE-4" -> 110677
      [] name = "HENTAIGANA LETTER SE-5" -> 110678
      [] name = "HENTAIGANA LETTER SO-1" -> 110679
      [] name = "HENTAIGANA LETTER SO-2" -> 110680
      [] name = "HENTAIGANA LETTER SO-3" -> 110681
      [] name = "HENTAIGANA LETTER SO-4" -> 110682
      [] name = "HENTAIGANA LETTER SO-5" -> 110683
      [] name = "HENTAIGANA LETTER SO-6" -> 110684
      [] name = "HENTAIGANA LETTER SO-7" -> 110685
      [] name = "HENTAIGANA LETTER TA-1" -> 110686
      [] name = "HENTAIGANA LETTER TA-2" -> 110687
      [] name = "HENTAIGANA LETTER TA-3" -> 110688
      [] name = "HENTAIGANA LETTER TA-4" -> 110689
      [] name = "HENTAIGANA LETTER TI-1" -> 110690
      [] name = "HENTAIGANA LETTER TI-2" -> 110691
      [] name = "HENTAIGANA LETTER TI-3" -> 110692
      [] name = "HENTAIGANA LETTER TI-4" -> 110693
      [] name = "HENTAIGANA LETTER TI-5" -> 110694
      [] name = "HENTAIGANA LETTER TI-6" -> 110695
      [] name = "HENTAIGANA LETTER TI-7" -> 110696
      [] name = "HENTAIGANA LETTER TU-1" -> 110697
      [] name = "HENTAIGANA LETTER TU-2" -> 110698
      [] name = "HENTAIGANA LETTER TU-3" -> 110699
      [] name = "HENTAIGANA LETTER TU-4" -> 110700
      [] name = "HENTAIGANA LETTER TU-TO" -> 110701
      [] name = "HENTAIGANA LETTER TE-1" -> 110702
      [] name = "HENTAIGANA LETTER TE-2" -> 110703
      [] name = "HENTAIGANA LETTER TE-3" -> 110704
      [] name = "HENTAIGANA LETTER TE-4" -> 110705
      [] name = "HENTAIGANA LETTER TE-5" -> 110706
      [] name = "HENTAIGANA LETTER TE-6" -> 110707
      [] name = "HENTAIGANA LETTER TE-7" -> 110708
      [] name = "HENTAIGANA LETTER TE-8" -> 110709
      [] name = "HENTAIGANA LETTER TE-9" -> 110710
      [] name = "HENTAIGANA LETTER TO-1" -> 110711
      [] name = "HENTAIGANA LETTER TO-2" -> 110712
      [] name = "HENTAIGANA LETTER TO-3" -> 110713
      [] name = "HENTAIGANA LETTER TO-4" -> 110714
      [] name = "HENTAIGANA LETTER TO-5" -> 110715
      [] name = "HENTAIGANA LETTER TO-6" -> 110716
      [] name = "HENTAIGANA LETTER TO-RA" -> 110717
      [] name = "HENTAIGANA LETTER NA-1" -> 110718
      [] name = "HENTAIGANA LETTER NA-2" -> 110719
      [] name = "HENTAIGANA LETTER NA-3" -> 110720
      [] name = "HENTAIGANA LETTER NA-4" -> 110721
      [] name = "HENTAIGANA LETTER NA-5" -> 110722
      [] name = "HENTAIGANA LETTER NA-6" -> 110723
      [] name = "HENTAIGANA LETTER NA-7" -> 110724
      [] name = "HENTAIGANA LETTER NA-8" -> 110725
      [] name = "HENTAIGANA LETTER NA-9" -> 110726
      [] name = "HENTAIGANA LETTER NI-1" -> 110727
      [] name = "HENTAIGANA LETTER NI-2" -> 110728
      [] name = "HENTAIGANA LETTER NI-3" -> 110729
      [] name = "HENTAIGANA LETTER NI-4" -> 110730
      [] name = "HENTAIGANA LETTER NI-5" -> 110731
      [] name = "HENTAIGANA LETTER NI-6" -> 110732
      [] name = "HENTAIGANA LETTER NI-7" -> 110733
      [] name = "HENTAIGANA LETTER NI-TE" -> 110734
      [] name = "HENTAIGANA LETTER NU-1" -> 110735
      [] name = "HENTAIGANA LETTER NU-2" -> 110736
      [] name = "HENTAIGANA LETTER NU-3" -> 110737
      [] name = "HENTAIGANA LETTER NE-1" -> 110738
      [] name = "HENTAIGANA LETTER NE-2" -> 110739
      [] name = "HENTAIGANA LETTER NE-3" -> 110740
      [] name = "HENTAIGANA LETTER NE-4" -> 110741
      [] name = "HENTAIGANA LETTER NE-5" -> 110742
      [] name = "HENTAIGANA LETTER NE-6" -> 110743
      [] name = "HENTAIGANA LETTER NE-KO" -> 110744
      [] name = "HENTAIGANA LETTER NO-1" -> 110745
      [] name = "HENTAIGANA LETTER NO-2" -> 110746
      [] name = "HENTAIGANA LETTER NO-3" -> 110747
      [] name = "HENTAIGANA LETTER NO-4" -> 110748
      [] name = "HENTAIGANA LETTER NO-5" -> 110749
      [] name = "HENTAIGANA LETTER HA-1" -> 110750
      [] name = "HENTAIGANA LETTER HA-2" -> 110751
      [] name = "HENTAIGANA LETTER HA-3" -> 110752
      [] name = "HENTAIGANA LETTER HA-4" -> 110753
      [] name = "HENTAIGANA LETTER HA-5" -> 110754
      [] name = "HENTAIGANA LETTER HA-6" -> 110755
      [] name = "HENTAIGANA LETTER HA-7" -> 110756
      [] name = "HENTAIGANA LETTER HA-8" -> 110757
      [] name = "HENTAIGANA LETTER HA-9" -> 110758
      [] name = "HENTAIGANA LETTER HA-10" -> 110759
      [] name = "HENTAIGANA LETTER HA-11" -> 110760
      [] name = "HENTAIGANA LETTER HI-1" -> 110761
      [] name = "HENTAIGANA LETTER HI-2" -> 110762
      [] name = "HENTAIGANA LETTER HI-3" -> 110763
      [] name = "HENTAIGANA LETTER HI-4" -> 110764
      [] name = "HENTAIGANA LETTER HI-5" -> 110765
      [] name = "HENTAIGANA LETTER HI-6" -> 110766
      [] name = "HENTAIGANA LETTER HI-7" -> 110767
      [] name = "HENTAIGANA LETTER HU-1" -> 110768
      [] name = "HENTAIGANA LETTER HU-2" -> 110769
      [] name = "HENTAIGANA LETTER HU-3" -> 110770
      [] name = "HENTAIGANA LETTER HE-1" -> 110771
      [] name = "HENTAIGANA LETTER HE-2" -> 110772
      [] name = "HENTAIGANA LETTER HE-3" -> 110773
      [] name = "HENTAIGANA LETTER HE-4" -> 110774
      [] name = "HENTAIGANA LETTER HE-5" -> 110775
      [] name = "HENTAIGANA LETTER HE-6" -> 110776
      [] name = "HENTAIGANA LETTER HE-7" -> 110777
      [] name = "HENTAIGANA LETTER HO-1" -> 110778
      [] name = "HENTAIGANA LETTER HO-2" -> 110779
      [] name = "HENTAIGANA LETTER HO-3" -> 110780
      [] name = "HENTAIGANA LETTER HO-4" -> 110781
      [] name = "HENTAIGANA LETTER HO-5" -> 110782
      [] name = "HENTAIGANA LETTER HO-6" -> 110783
      [] name = "HENTAIGANA LETTER HO-7" -> 110784
      [] name = "HENTAIGANA LETTER HO-8" -> 110785
      [] name = "HENTAIGANA LETTER MA-1" -> 110786
      [] name = "HENTAIGANA LETTER MA-2" -> 110787
      [] name = "HENTAIGANA LETTER MA-3" -> 110788
      [] name = "HENTAIGANA LETTER MA-4" -> 110789
      [] name = "HENTAIGANA LETTER MA-5" -> 110790
      [] name = "HENTAIGANA LETTER MA-6" -> 110791
      [] name = "HENTAIGANA LETTER MA-7" -> 110792
      [] name = "HENTAIGANA LETTER MI-1" -> 110793
      [] name = "HENTAIGANA LETTER MI-2" -> 110794
      [] name = "HENTAIGANA LETTER MI-3" -> 110795
      [] name = "HENTAIGANA LETTER MI-4" -> 110796
      [] name = "HENTAIGANA LETTER MI-5" -> 110797
      [] name = "HENTAIGANA LETTER MI-6" -> 110798
      [] name = "HENTAIGANA LETTER MI-7" -> 110799
      [] name = "HENTAIGANA LETTER MU-1" -> 110800
      [] name = "HENTAIGANA LETTER MU-2" -> 110801
      [] name = "HENTAIGANA LETTER MU-3" -> 110802
      [] name = "HENTAIGANA LETTER MU-4" -> 110803
      [] name = "HENTAIGANA LETTER ME-1" -> 110804
      [] name = "HENTAIGANA LETTER ME-2" -> 110805
      [] name = "HENTAIGANA LETTER ME-MA" -> 110806
      [] name = "HENTAIGANA LETTER MO-1" -> 110807
      [] name = "HENTAIGANA LETTER MO-2" -> 110808
      [] name = "HENTAIGANA LETTER MO-3" -> 110809
      [] name = "HENTAIGANA LETTER MO-4" -> 110810
      [] name = "HENTAIGANA LETTER MO-5" -> 110811
      [] name = "HENTAIGANA LETTER MO-6" -> 110812
      [] name = "HENTAIGANA LETTER YA-1" -> 110813
      [] name = "HENTAIGANA LETTER YA-2" -> 110814
      [] name = "HENTAIGANA LETTER YA-3" -> 110815
      [] name = "HENTAIGANA LETTER YA-4" -> 110816
      [] name = "HENTAIGANA LETTER YA-5" -> 110817
      [] name = "HENTAIGANA LETTER YA-YO" -> 110818
      [] name = "HENTAIGANA LETTER YU-1" -> 110819
      [] name = "HENTAIGANA LETTER YU-2" -> 110820
      [] name = "HENTAIGANA LETTER YU-3" -> 110821
      [] name = "HENTAIGANA LETTER YU-4" -> 110822
      [] name = "HENTAIGANA LETTER YO-1" -> 110823
      [] name = "HENTAIGANA LETTER YO-2" -> 110824
      [] name = "HENTAIGANA LETTER YO-3" -> 110825
      [] name = "HENTAIGANA LETTER YO-4" -> 110826
      [] name = "HENTAIGANA LETTER YO-5" -> 110827
      [] name = "HENTAIGANA LETTER YO-6" -> 110828
      [] name = "HENTAIGANA LETTER RA-1" -> 110829
      [] name = "HENTAIGANA LETTER RA-2" -> 110830
      [] name = "HENTAIGANA LETTER RA-3" -> 110831
      [] name = "HENTAIGANA LETTER RA-4" -> 110832
      [] name = "HENTAIGANA LETTER RI-1" -> 110833
      [] name = "HENTAIGANA LETTER RI-2" -> 110834
      [] name = "HENTAIGANA LETTER RI-3" -> 110835
      [] name = "HENTAIGANA LETTER RI-4" -> 110836
      [] name = "HENTAIGANA LETTER RI-5" -> 110837
      [] name = "HENTAIGANA LETTER RI-6" -> 110838
      [] name = "HENTAIGANA LETTER RI-7" -> 110839
      [] name = "HENTAIGANA LETTER RU-1" -> 110840
      [] name = "HENTAIGANA LETTER RU-2" -> 110841
      [] name = "HENTAIGANA LETTER RU-3" -> 110842
      [] name = "HENTAIGANA LETTER RU-4" -> 110843
      [] name = "HENTAIGANA LETTER RU-5" -> 110844
      [] name = "HENTAIGANA LETTER RU-6" -> 110845
      [] name = "HENTAIGANA LETTER RE-1" -> 110846
      [] name = "HENTAIGANA LETTER RE-2" -> 110847
      [] name = "HENTAIGANA LETTER RE-3" -> 110848
      [] name = "HENTAIGANA LETTER RE-4" -> 110849
      [] name = "HENTAIGANA LETTER RO-1" -> 110850
      [] name = "HENTAIGANA LETTER RO-2" -> 110851
      [] name = "HENTAIGANA LETTER RO-3" -> 110852
      [] name = "HENTAIGANA LETTER RO-4" -> 110853
      [] name = "HENTAIGANA LETTER RO-5" -> 110854
      [] name = "HENTAIGANA LETTER RO-6" -> 110855
      [] name = "HENTAIGANA LETTER WA-1" -> 110856
      [] name = "HENTAIGANA LETTER WA-2" -> 110857
      [] name = "HENTAIGANA LETTER WA-3" -> 110858
      [] name = "HENTAIGANA LETTER WA-4" -> 110859
      [] name = "HENTAIGANA LETTER WA-5" -> 110860
      [] name = "HENTAIGANA LETTER WI-1" -> 110861
      [] name = "HENTAIGANA LETTER WI-2" -> 110862
      [] name = "HENTAIGANA LETTER WI-3" -> 110863
      [] name = "HENTAIGANA LETTER WI-4" -> 110864
      [] name = "HENTAIGANA LETTER WI-5" -> 110865
      [] name = "HENTAIGANA LETTER WE-1" -> 110866
      [] name = "HENTAIGANA LETTER WE-2" -> 110867
      [] name = "HENTAIGANA LETTER WE-3" -> 110868
      [] name = "HENTAIGANA LETTER WE-4" -> 110869
      [] name = "HENTAIGANA LETTER WO-1" -> 110870
      [] name = "HENTAIGANA LETTER WO-2" -> 110871
      [] name = "HENTAIGANA LETTER WO-3" -> 110872
      [] name = "HENTAIGANA LETTER WO-4" -> 110873
      [] name = "HENTAIGANA LETTER WO-5" -> 110874
      [] name = "HENTAIGANA LETTER WO-6" -> 110875
      [] name = "HENTAIGANA LETTER WO-7" -> 110876
      [] name = "HENTAIGANA LETTER N-MU-MO-1" -> 110877
      [] name = "HENTAIGANA LETTER N-MU-MO-2" -> 110878
      [] name = "HIRAGANA LETTER ARCHAIC WU" -> 110879
      [] name = "KATAKANA LETTER ARCHAIC YI" -> 110880
      [] name = "KATAKANA LETTER ARCHAIC YE" -> 110881
      [] name = "KATAKANA LETTER ARCHAIC WU" -> 110882
      [] name = "HIRAGANA LETTER SMALL WI" -> 110928
      [] name = "HIRAGANA LETTER SMALL WE" -> 110929
      [] name = "HIRAGANA LETTER SMALL WO" -> 110930
      [] name = "KATAKANA LETTER SMALL WI" -> 110948
      [] name = "KATAKANA LETTER SMALL WE" -> 110949
      [] name = "KATAKANA LETTER SMALL WO" -> 110950
      [] name = "KATAKANA LETTER SMALL N" -> 110951
      [] name = "NUSHU CHARACTER-1B170" -> 110960
      [] name = "NUSHU CHARACTER-1B171" -> 110961
      [] name = "NUSHU CHARACTER-1B172" -> 110962
      [] name = "NUSHU CHARACTER-1B173" -> 110963
      [] name = "NUSHU CHARACTER-1B174" -> 110964
      [] name = "NUSHU CHARACTER-1B175" -> 110965
      [] name = "NUSHU CHARACTER-1B176" -> 110966
      [] name = "NUSHU CHARACTER-1B177" -> 110967
      [] name = "NUSHU CHARACTER-1B178" -> 110968
      [] name = "NUSHU CHARACTER-1B179" -> 110969
      [] name = "NUSHU CHARACTER-1B17A" -> 110970
      [] name = "NUSHU CHARACTER-1B17B" -> 110971
      [] name = "NUSHU CHARACTER-1B17C" -> 110972
      [] name = "NUSHU CHARACTER-1B17D" -> 110973
      [] name = "NUSHU CHARACTER-1B17E" -> 110974
      [] name = "NUSHU CHARACTER-1B17F" -> 110975
      [] name = "NUSHU CHARACTER-1B180" -> 110976
      [] name = "NUSHU CHARACTER-1B181" -> 110977
      [] name = "NUSHU CHARACTER-1B182" -> 110978
      [] name = "NUSHU CHARACTER-1B183" -> 110979
      [] name = "NUSHU CHARACTER-1B184" -> 110980
      [] name = "NUSHU CHARACTER-1B185" -> 110981
      [] name = "NUSHU CHARACTER-1B186" -> 110982
      [] name = "NUSHU CHARACTER-1B187" -> 110983
      [] name = "NUSHU CHARACTER-1B188" -> 110984
      [] name = "NUSHU CHARACTER-1B189" -> 110985
      [] name = "NUSHU CHARACTER-1B18A" -> 110986
      [] name = "NUSHU CHARACTER-1B18B" -> 110987
      [] name = "NUSHU CHARACTER-1B18C" -> 110988
      [] name = "NUSHU CHARACTER-1B18D" -> 110989
      [] name = "NUSHU CHARACTER-1B18E" -> 110990
      [] name = "NUSHU CHARACTER-1B18F" -> 110991
      [] name = "NUSHU CHARACTER-1B190" -> 110992
      [] name = "NUSHU CHARACTER-1B191" -> 110993
      [] name = "NUSHU CHARACTER-1B192" -> 110994
      [] name = "NUSHU CHARACTER-1B193" -> 110995
      [] name = "NUSHU CHARACTER-1B194" -> 110996
      [] name = "NUSHU CHARACTER-1B195" -> 110997
      [] name = "NUSHU CHARACTER-1B196" -> 110998
      [] name = "NUSHU CHARACTER-1B197" -> 110999
      [] name = "NUSHU CHARACTER-1B198" -> 111000
      [] name = "NUSHU CHARACTER-1B199" -> 111001
      [] name = "NUSHU CHARACTER-1B19A" -> 111002
      [] name = "NUSHU CHARACTER-1B19B" -> 111003
      [] name = "NUSHU CHARACTER-1B19C" -> 111004
      [] name = "NUSHU CHARACTER-1B19D" -> 111005
      [] name = "NUSHU CHARACTER-1B19E" -> 111006
      [] name = "NUSHU CHARACTER-1B19F" -> 111007
      [] name = "NUSHU CHARACTER-1B1A0" -> 111008
      [] name = "NUSHU CHARACTER-1B1A1" -> 111009
      [] name = "NUSHU CHARACTER-1B1A2" -> 111010
      [] name = "NUSHU CHARACTER-1B1A3" -> 111011
      [] name = "NUSHU CHARACTER-1B1A4" -> 111012
      [] name = "NUSHU CHARACTER-1B1A5" -> 111013
      [] name = "NUSHU CHARACTER-1B1A6" -> 111014
      [] name = "NUSHU CHARACTER-1B1A7" -> 111015
      [] name = "NUSHU CHARACTER-1B1A8" -> 111016
      [] name = "NUSHU CHARACTER-1B1A9" -> 111017
      [] name = "NUSHU CHARACTER-1B1AA" -> 111018
      [] name = "NUSHU CHARACTER-1B1AB" -> 111019
      [] name = "NUSHU CHARACTER-1B1AC" -> 111020
      [] name = "NUSHU CHARACTER-1B1AD" -> 111021
      [] name = "NUSHU CHARACTER-1B1AE" -> 111022
      [] name = "NUSHU CHARACTER-1B1AF" -> 111023
      [] name = "NUSHU CHARACTER-1B1B0" -> 111024
      [] name = "NUSHU CHARACTER-1B1B1" -> 111025
      [] name = "NUSHU CHARACTER-1B1B2" -> 111026
      [] name = "NUSHU CHARACTER-1B1B3" -> 111027
      [] name = "NUSHU CHARACTER-1B1B4" -> 111028
      [] name = "NUSHU CHARACTER-1B1B5" -> 111029
      [] name = "NUSHU CHARACTER-1B1B6" -> 111030
      [] name = "NUSHU CHARACTER-1B1B7" -> 111031
      [] name = "NUSHU CHARACTER-1B1B8" -> 111032
      [] name = "NUSHU CHARACTER-1B1B9" -> 111033
      [] name = "NUSHU CHARACTER-1B1BA" -> 111034
      [] name = "NUSHU CHARACTER-1B1BB" -> 111035
      [] name = "NUSHU CHARACTER-1B1BC" -> 111036
      [] name = "NUSHU CHARACTER-1B1BD" -> 111037
      [] name = "NUSHU CHARACTER-1B1BE" -> 111038
      [] name = "NUSHU CHARACTER-1B1BF" -> 111039
      [] name = "NUSHU CHARACTER-1B1C0" -> 111040
      [] name = "NUSHU CHARACTER-1B1C1" -> 111041
      [] name = "NUSHU CHARACTER-1B1C2" -> 111042
      [] name = "NUSHU CHARACTER-1B1C3" -> 111043
      [] name = "NUSHU CHARACTER-1B1C4" -> 111044
      [] name = "NUSHU CHARACTER-1B1C5" -> 111045
      [] name = "NUSHU CHARACTER-1B1C6" -> 111046
      [] name = "NUSHU CHARACTER-1B1C7" -> 111047
      [] name = "NUSHU CHARACTER-1B1C8" -> 111048
      [] name = "NUSHU CHARACTER-1B1C9" -> 111049
      [] name = "NUSHU CHARACTER-1B1CA" -> 111050
      [] name = "NUSHU CHARACTER-1B1CB" -> 111051
      [] name = "NUSHU CHARACTER-1B1CC" -> 111052
      [] name = "NUSHU CHARACTER-1B1CD" -> 111053
      [] name = "NUSHU CHARACTER-1B1CE" -> 111054
      [] name = "NUSHU CHARACTER-1B1CF" -> 111055
      [] name = "NUSHU CHARACTER-1B1D0" -> 111056
      [] name = "NUSHU CHARACTER-1B1D1" -> 111057
      [] name = "NUSHU CHARACTER-1B1D2" -> 111058
      [] name = "NUSHU CHARACTER-1B1D3" -> 111059
      [] name = "NUSHU CHARACTER-1B1D4" -> 111060
      [] name = "NUSHU CHARACTER-1B1D5" -> 111061
      [] name = "NUSHU CHARACTER-1B1D6" -> 111062
      [] name = "NUSHU CHARACTER-1B1D7" -> 111063
      [] name = "NUSHU CHARACTER-1B1D8" -> 111064
      [] name = "NUSHU CHARACTER-1B1D9" -> 111065
      [] name = "NUSHU CHARACTER-1B1DA" -> 111066
      [] name = "NUSHU CHARACTER-1B1DB" -> 111067
      [] name = "NUSHU CHARACTER-1B1DC" -> 111068
      [] name = "NUSHU CHARACTER-1B1DD" -> 111069
      [] name = "NUSHU CHARACTER-1B1DE" -> 111070
      [] name = "NUSHU CHARACTER-1B1DF" -> 111071
      [] name = "NUSHU CHARACTER-1B1E0" -> 111072
      [] name = "NUSHU CHARACTER-1B1E1" -> 111073
      [] name = "NUSHU CHARACTER-1B1E2" -> 111074
      [] name = "NUSHU CHARACTER-1B1E3" -> 111075
      [] name = "NUSHU CHARACTER-1B1E4" -> 111076
      [] name = "NUSHU CHARACTER-1B1E5" -> 111077
      [] name = "NUSHU CHARACTER-1B1E6" -> 111078
      [] name = "NUSHU CHARACTER-1B1E7" -> 111079
      [] name = "NUSHU CHARACTER-1B1E8" -> 111080
      [] name = "NUSHU CHARACTER-1B1E9" -> 111081
      [] name = "NUSHU CHARACTER-1B1EA" -> 111082
      [] name = "NUSHU CHARACTER-1B1EB" -> 111083
      [] name = "NUSHU CHARACTER-1B1EC" -> 111084
      [] name = "NUSHU CHARACTER-1B1ED" -> 111085
      [] name = "NUSHU CHARACTER-1B1EE" -> 111086
      [] name = "NUSHU CHARACTER-1B1EF" -> 111087
      [] name = "NUSHU CHARACTER-1B1F0" -> 111088
      [] name = "NUSHU CHARACTER-1B1F1" -> 111089
      [] name = "NUSHU CHARACTER-1B1F2" -> 111090
      [] name = "NUSHU CHARACTER-1B1F3" -> 111091
      [] name = "NUSHU CHARACTER-1B1F4" -> 111092
      [] name = "NUSHU CHARACTER-1B1F5" -> 111093
      [] name = "NUSHU CHARACTER-1B1F6" -> 111094
      [] name = "NUSHU CHARACTER-1B1F7" -> 111095
      [] name = "NUSHU CHARACTER-1B1F8" -> 111096
      [] name = "NUSHU CHARACTER-1B1F9" -> 111097
      [] name = "NUSHU CHARACTER-1B1FA" -> 111098
      [] name = "NUSHU CHARACTER-1B1FB" -> 111099
      [] name = "NUSHU CHARACTER-1B1FC" -> 111100
      [] name = "NUSHU CHARACTER-1B1FD" -> 111101
      [] name = "NUSHU CHARACTER-1B1FE" -> 111102
      [] name = "NUSHU CHARACTER-1B1FF" -> 111103
      [] name = "NUSHU CHARACTER-1B200" -> 111104
      [] name = "NUSHU CHARACTER-1B201" -> 111105
      [] name = "NUSHU CHARACTER-1B202" -> 111106
      [] name = "NUSHU CHARACTER-1B203" -> 111107
      [] name = "NUSHU CHARACTER-1B204" -> 111108
      [] name = "NUSHU CHARACTER-1B205" -> 111109
      [] name = "NUSHU CHARACTER-1B206" -> 111110
      [] name = "NUSHU CHARACTER-1B207" -> 111111
      [] name = "NUSHU CHARACTER-1B208" -> 111112
      [] name = "NUSHU CHARACTER-1B209" -> 111113
      [] name = "NUSHU CHARACTER-1B20A" -> 111114
      [] name = "NUSHU CHARACTER-1B20B" -> 111115
      [] name = "NUSHU CHARACTER-1B20C" -> 111116
      [] name = "NUSHU CHARACTER-1B20D" -> 111117
      [] name = "NUSHU CHARACTER-1B20E" -> 111118
      [] name = "NUSHU CHARACTER-1B20F" -> 111119
      [] name = "NUSHU CHARACTER-1B210" -> 111120
      [] name = "NUSHU CHARACTER-1B211" -> 111121
      [] name = "NUSHU CHARACTER-1B212" -> 111122
      [] name = "NUSHU CHARACTER-1B213" -> 111123
      [] name = "NUSHU CHARACTER-1B214" -> 111124
      [] name = "NUSHU CHARACTER-1B215" -> 111125
      [] name = "NUSHU CHARACTER-1B216" -> 111126
      [] name = "NUSHU CHARACTER-1B217" -> 111127
      [] name = "NUSHU CHARACTER-1B218" -> 111128
      [] name = "NUSHU CHARACTER-1B219" -> 111129
      [] name = "NUSHU CHARACTER-1B21A" -> 111130
      [] name = "NUSHU CHARACTER-1B21B" -> 111131
      [] name = "NUSHU CHARACTER-1B21C" -> 111132
      [] name = "NUSHU CHARACTER-1B21D" -> 111133
      [] name = "NUSHU CHARACTER-1B21E" -> 111134
      [] name = "NUSHU CHARACTER-1B21F" -> 111135
      [] name = "NUSHU CHARACTER-1B220" -> 111136
      [] name = "NUSHU CHARACTER-1B221" -> 111137
      [] name = "NUSHU CHARACTER-1B222" -> 111138
      [] name = "NUSHU CHARACTER-1B223" -> 111139
      [] name = "NUSHU CHARACTER-1B224" -> 111140
      [] name = "NUSHU CHARACTER-1B225" -> 111141
      [] name = "NUSHU CHARACTER-1B226" -> 111142
      [] name = "NUSHU CHARACTER-1B227" -> 111143
      [] name = "NUSHU CHARACTER-1B228" -> 111144
      [] name = "NUSHU CHARACTER-1B229" -> 111145
      [] name = "NUSHU CHARACTER-1B22A" -> 111146
      [] name = "NUSHU CHARACTER-1B22B" -> 111147
      [] name = "NUSHU CHARACTER-1B22C" -> 111148
      [] name = "NUSHU CHARACTER-1B22D" -> 111149
      [] name = "NUSHU CHARACTER-1B22E" -> 111150
      [] name = "NUSHU CHARACTER-1B22F" -> 111151
      [] name = "NUSHU CHARACTER-1B230" -> 111152
      [] name = "NUSHU CHARACTER-1B231" -> 111153
      [] name = "NUSHU CHARACTER-1B232" -> 111154
      [] name = "NUSHU CHARACTER-1B233" -> 111155
      [] name = "NUSHU CHARACTER-1B234" -> 111156
      [] name = "NUSHU CHARACTER-1B235" -> 111157
      [] name = "NUSHU CHARACTER-1B236" -> 111158
      [] name = "NUSHU CHARACTER-1B237" -> 111159
      [] name = "NUSHU CHARACTER-1B238" -> 111160
      [] name = "NUSHU CHARACTER-1B239" -> 111161
      [] name = "NUSHU CHARACTER-1B23A" -> 111162
      [] name = "NUSHU CHARACTER-1B23B" -> 111163
      [] name = "NUSHU CHARACTER-1B23C" -> 111164
      [] name = "NUSHU CHARACTER-1B23D" -> 111165
      [] name = "NUSHU CHARACTER-1B23E" -> 111166
      [] name = "NUSHU CHARACTER-1B23F" -> 111167
      [] name = "NUSHU CHARACTER-1B240" -> 111168
      [] name = "NUSHU CHARACTER-1B241" -> 111169
      [] name = "NUSHU CHARACTER-1B242" -> 111170
      [] name = "NUSHU CHARACTER-1B243" -> 111171
      [] name = "NUSHU CHARACTER-1B244" -> 111172
      [] name = "NUSHU CHARACTER-1B245" -> 111173
      [] name = "NUSHU CHARACTER-1B246" -> 111174
      [] name = "NUSHU CHARACTER-1B247" -> 111175
      [] name = "NUSHU CHARACTER-1B248" -> 111176
      [] name = "NUSHU CHARACTER-1B249" -> 111177
      [] name = "NUSHU CHARACTER-1B24A" -> 111178
      [] name = "NUSHU CHARACTER-1B24B" -> 111179
      [] name = "NUSHU CHARACTER-1B24C" -> 111180
      [] name = "NUSHU CHARACTER-1B24D" -> 111181
      [] name = "NUSHU CHARACTER-1B24E" -> 111182
      [] name = "NUSHU CHARACTER-1B24F" -> 111183
      [] name = "NUSHU CHARACTER-1B250" -> 111184
      [] name = "NUSHU CHARACTER-1B251" -> 111185
      [] name = "NUSHU CHARACTER-1B252" -> 111186
      [] name = "NUSHU CHARACTER-1B253" -> 111187
      [] name = "NUSHU CHARACTER-1B254" -> 111188
      [] name = "NUSHU CHARACTER-1B255" -> 111189
      [] name = "NUSHU CHARACTER-1B256" -> 111190
      [] name = "NUSHU CHARACTER-1B257" -> 111191
      [] name = "NUSHU CHARACTER-1B258" -> 111192
      [] name = "NUSHU CHARACTER-1B259" -> 111193
      [] name = "NUSHU CHARACTER-1B25A" -> 111194
      [] name = "NUSHU CHARACTER-1B25B" -> 111195
      [] name = "NUSHU CHARACTER-1B25C" -> 111196
      [] name = "NUSHU CHARACTER-1B25D" -> 111197
      [] name = "NUSHU CHARACTER-1B25E" -> 111198
      [] name = "NUSHU CHARACTER-1B25F" -> 111199
      [] name = "NUSHU CHARACTER-1B260" -> 111200
      [] name = "NUSHU CHARACTER-1B261" -> 111201
      [] name = "NUSHU CHARACTER-1B262" -> 111202
      [] name = "NUSHU CHARACTER-1B263" -> 111203
      [] name = "NUSHU CHARACTER-1B264" -> 111204
      [] name = "NUSHU CHARACTER-1B265" -> 111205
      [] name = "NUSHU CHARACTER-1B266" -> 111206
      [] name = "NUSHU CHARACTER-1B267" -> 111207
      [] name = "NUSHU CHARACTER-1B268" -> 111208
      [] name = "NUSHU CHARACTER-1B269" -> 111209
      [] name = "NUSHU CHARACTER-1B26A" -> 111210
      [] name = "NUSHU CHARACTER-1B26B" -> 111211
      [] name = "NUSHU CHARACTER-1B26C" -> 111212
      [] name = "NUSHU CHARACTER-1B26D" -> 111213
      [] name = "NUSHU CHARACTER-1B26E" -> 111214
      [] name = "NUSHU CHARACTER-1B26F" -> 111215
      [] name = "NUSHU CHARACTER-1B270" -> 111216
      [] name = "NUSHU CHARACTER-1B271" -> 111217
      [] name = "NUSHU CHARACTER-1B272" -> 111218
      [] name = "NUSHU CHARACTER-1B273" -> 111219
      [] name = "NUSHU CHARACTER-1B274" -> 111220
      [] name = "NUSHU CHARACTER-1B275" -> 111221
      [] name = "NUSHU CHARACTER-1B276" -> 111222
      [] name = "NUSHU CHARACTER-1B277" -> 111223
      [] name = "NUSHU CHARACTER-1B278" -> 111224
      [] name = "NUSHU CHARACTER-1B279" -> 111225
      [] name = "NUSHU CHARACTER-1B27A" -> 111226
      [] name = "NUSHU CHARACTER-1B27B" -> 111227
      [] name = "NUSHU CHARACTER-1B27C" -> 111228
      [] name = "NUSHU CHARACTER-1B27D" -> 111229
      [] name = "NUSHU CHARACTER-1B27E" -> 111230
      [] name = "NUSHU CHARACTER-1B27F" -> 111231
      [] name = "NUSHU CHARACTER-1B280" -> 111232
      [] name = "NUSHU CHARACTER-1B281" -> 111233
      [] name = "NUSHU CHARACTER-1B282" -> 111234
      [] name = "NUSHU CHARACTER-1B283" -> 111235
      [] name = "NUSHU CHARACTER-1B284" -> 111236
      [] name = "NUSHU CHARACTER-1B285" -> 111237
      [] name = "NUSHU CHARACTER-1B286" -> 111238
      [] name = "NUSHU CHARACTER-1B287" -> 111239
      [] name = "NUSHU CHARACTER-1B288" -> 111240
      [] name = "NUSHU CHARACTER-1B289" -> 111241
      [] name = "NUSHU CHARACTER-1B28A" -> 111242
      [] name = "NUSHU CHARACTER-1B28B" -> 111243
      [] name = "NUSHU CHARACTER-1B28C" -> 111244
      [] name = "NUSHU CHARACTER-1B28D" -> 111245
      [] name = "NUSHU CHARACTER-1B28E" -> 111246
      [] name = "NUSHU CHARACTER-1B28F" -> 111247
      [] name = "NUSHU CHARACTER-1B290" -> 111248
      [] name = "NUSHU CHARACTER-1B291" -> 111249
      [] name = "NUSHU CHARACTER-1B292" -> 111250
      [] name = "NUSHU CHARACTER-1B293" -> 111251
      [] name = "NUSHU CHARACTER-1B294" -> 111252
      [] name = "NUSHU CHARACTER-1B295" -> 111253
      [] name = "NUSHU CHARACTER-1B296" -> 111254
      [] name = "NUSHU CHARACTER-1B297" -> 111255
      [] name = "NUSHU CHARACTER-1B298" -> 111256
      [] name = "NUSHU CHARACTER-1B299" -> 111257
      [] name = "NUSHU CHARACTER-1B29A" -> 111258
      [] name = "NUSHU CHARACTER-1B29B" -> 111259
      [] name = "NUSHU CHARACTER-1B29C" -> 111260
      [] name = "NUSHU CHARACTER-1B29D" -> 111261
      [] name = "NUSHU CHARACTER-1B29E" -> 111262
      [] name = "NUSHU CHARACTER-1B29F" -> 111263
      [] name = "NUSHU CHARACTER-1B2A0" -> 111264
      [] name = "NUSHU CHARACTER-1B2A1" -> 111265
      [] name = "NUSHU CHARACTER-1B2A2" -> 111266
      [] name = "NUSHU CHARACTER-1B2A3" -> 111267
      [] name = "NUSHU CHARACTER-1B2A4" -> 111268
      [] name = "NUSHU CHARACTER-1B2A5" -> 111269
      [] name = "NUSHU CHARACTER-1B2A6" -> 111270
      [] name = "NUSHU CHARACTER-1B2A7" -> 111271
      [] name = "NUSHU CHARACTER-1B2A8" -> 111272
      [] name = "NUSHU CHARACTER-1B2A9" -> 111273
      [] name = "NUSHU CHARACTER-1B2AA" -> 111274
      [] name = "NUSHU CHARACTER-1B2AB" -> 111275
      [] name = "NUSHU CHARACTER-1B2AC" -> 111276
      [] name = "NUSHU CHARACTER-1B2AD" -> 111277
      [] name = "NUSHU CHARACTER-1B2AE" -> 111278
      [] name = "NUSHU CHARACTER-1B2AF" -> 111279
      [] name = "NUSHU CHARACTER-1B2B0" -> 111280
      [] name = "NUSHU CHARACTER-1B2B1" -> 111281
      [] name = "NUSHU CHARACTER-1B2B2" -> 111282
      [] name = "NUSHU CHARACTER-1B2B3" -> 111283
      [] name = "NUSHU CHARACTER-1B2B4" -> 111284
      [] name = "NUSHU CHARACTER-1B2B5" -> 111285
      [] name = "NUSHU CHARACTER-1B2B6" -> 111286
      [] name = "NUSHU CHARACTER-1B2B7" -> 111287
      [] name = "NUSHU CHARACTER-1B2B8" -> 111288
      [] name = "NUSHU CHARACTER-1B2B9" -> 111289
      [] name = "NUSHU CHARACTER-1B2BA" -> 111290
      [] name = "NUSHU CHARACTER-1B2BB" -> 111291
      [] name = "NUSHU CHARACTER-1B2BC" -> 111292
      [] name = "NUSHU CHARACTER-1B2BD" -> 111293
      [] name = "NUSHU CHARACTER-1B2BE" -> 111294
      [] name = "NUSHU CHARACTER-1B2BF" -> 111295
      [] name = "NUSHU CHARACTER-1B2C0" -> 111296
      [] name = "NUSHU CHARACTER-1B2C1" -> 111297
      [] name = "NUSHU CHARACTER-1B2C2" -> 111298
      [] name = "NUSHU CHARACTER-1B2C3" -> 111299
      [] name = "NUSHU CHARACTER-1B2C4" -> 111300
      [] name = "NUSHU CHARACTER-1B2C5" -> 111301
      [] name = "NUSHU CHARACTER-1B2C6" -> 111302
      [] name = "NUSHU CHARACTER-1B2C7" -> 111303
      [] name = "NUSHU CHARACTER-1B2C8" -> 111304
      [] name = "NUSHU CHARACTER-1B2C9" -> 111305
      [] name = "NUSHU CHARACTER-1B2CA" -> 111306
      [] name = "NUSHU CHARACTER-1B2CB" -> 111307
      [] name = "NUSHU CHARACTER-1B2CC" -> 111308
      [] name = "NUSHU CHARACTER-1B2CD" -> 111309
      [] name = "NUSHU CHARACTER-1B2CE" -> 111310
      [] name = "NUSHU CHARACTER-1B2CF" -> 111311
      [] name = "NUSHU CHARACTER-1B2D0" -> 111312
      [] name = "NUSHU CHARACTER-1B2D1" -> 111313
      [] name = "NUSHU CHARACTER-1B2D2" -> 111314
      [] name = "NUSHU CHARACTER-1B2D3" -> 111315
      [] name = "NUSHU CHARACTER-1B2D4" -> 111316
      [] name = "NUSHU CHARACTER-1B2D5" -> 111317
      [] name = "NUSHU CHARACTER-1B2D6" -> 111318
      [] name = "NUSHU CHARACTER-1B2D7" -> 111319
      [] name = "NUSHU CHARACTER-1B2D8" -> 111320
      [] name = "NUSHU CHARACTER-1B2D9" -> 111321
      [] name = "NUSHU CHARACTER-1B2DA" -> 111322
      [] name = "NUSHU CHARACTER-1B2DB" -> 111323
      [] name = "NUSHU CHARACTER-1B2DC" -> 111324
      [] name = "NUSHU CHARACTER-1B2DD" -> 111325
      [] name = "NUSHU CHARACTER-1B2DE" -> 111326
      [] name = "NUSHU CHARACTER-1B2DF" -> 111327
      [] name = "NUSHU CHARACTER-1B2E0" -> 111328
      [] name = "NUSHU CHARACTER-1B2E1" -> 111329
      [] name = "NUSHU CHARACTER-1B2E2" -> 111330
      [] name = "NUSHU CHARACTER-1B2E3" -> 111331
      [] name = "NUSHU CHARACTER-1B2E4" -> 111332
      [] name = "NUSHU CHARACTER-1B2E5" -> 111333
      [] name = "NUSHU CHARACTER-1B2E6" -> 111334
      [] name = "NUSHU CHARACTER-1B2E7" -> 111335
      [] name = "NUSHU CHARACTER-1B2E8" -> 111336
      [] name = "NUSHU CHARACTER-1B2E9" -> 111337
      [] name = "NUSHU CHARACTER-1B2EA" -> 111338
      [] name = "NUSHU CHARACTER-1B2EB" -> 111339
      [] name = "NUSHU CHARACTER-1B2EC" -> 111340
      [] name = "NUSHU CHARACTER-1B2ED" -> 111341
      [] name = "NUSHU CHARACTER-1B2EE" -> 111342
      [] name = "NUSHU CHARACTER-1B2EF" -> 111343
      [] name = "NUSHU CHARACTER-1B2F0" -> 111344
      [] name = "NUSHU CHARACTER-1B2F1" -> 111345
      [] name = "NUSHU CHARACTER-1B2F2" -> 111346
      [] name = "NUSHU CHARACTER-1B2F3" -> 111347
      [] name = "NUSHU CHARACTER-1B2F4" -> 111348
      [] name = "NUSHU CHARACTER-1B2F5" -> 111349
      [] name = "NUSHU CHARACTER-1B2F6" -> 111350
      [] name = "NUSHU CHARACTER-1B2F7" -> 111351
      [] name = "NUSHU CHARACTER-1B2F8" -> 111352
      [] name = "NUSHU CHARACTER-1B2F9" -> 111353
      [] name = "NUSHU CHARACTER-1B2FA" -> 111354
      [] name = "NUSHU CHARACTER-1B2FB" -> 111355
      [] name = "DUPLOYAN LETTER H" -> 113664
      [] name = "DUPLOYAN LETTER X" -> 113665
      [] name = "DUPLOYAN LETTER P" -> 113666
      [] name = "DUPLOYAN LETTER T" -> 113667
      [] name = "DUPLOYAN LETTER F" -> 113668
      [] name = "DUPLOYAN LETTER K" -> 113669
      [] name = "DUPLOYAN LETTER L" -> 113670
      [] name = "DUPLOYAN LETTER B" -> 113671
      [] name = "DUPLOYAN LETTER D" -> 113672
      [] name = "DUPLOYAN LETTER V" -> 113673
      [] name = "DUPLOYAN LETTER G" -> 113674
      [] name = "DUPLOYAN LETTER R" -> 113675
      [] name = "DUPLOYAN LETTER P N" -> 113676
      [] name = "DUPLOYAN LETTER D S" -> 113677
      [] name = "DUPLOYAN LETTER F N" -> 113678
      [] name = "DUPLOYAN LETTER K M" -> 113679
      [] name = "DUPLOYAN LETTER R S" -> 113680
      [] name = "DUPLOYAN LETTER TH" -> 113681
      [] name = "DUPLOYAN LETTER SLOAN DH" -> 113682
      [] name = "DUPLOYAN LETTER DH" -> 113683
      [] name = "DUPLOYAN LETTER KK" -> 113684
      [] name = "DUPLOYAN LETTER SLOAN J" -> 113685
      [] name = "DUPLOYAN LETTER HL" -> 113686
      [] name = "DUPLOYAN LETTER LH" -> 113687
      [] name = "DUPLOYAN LETTER RH" -> 113688
      [] name = "DUPLOYAN LETTER M" -> 113689
      [] name = "DUPLOYAN LETTER N" -> 113690
      [] name = "DUPLOYAN LETTER J" -> 113691
      [] name = "DUPLOYAN LETTER S" -> 113692
      [] name = "DUPLOYAN LETTER M N" -> 113693
      [] name = "DUPLOYAN LETTER N M" -> 113694
      [] name = "DUPLOYAN LETTER J M" -> 113695
      [] name = "DUPLOYAN LETTER S J" -> 113696
      [] name = "DUPLOYAN LETTER M WITH DOT" -> 113697
      [] name = "DUPLOYAN LETTER N WITH DOT" -> 113698
      [] name = "DUPLOYAN LETTER J WITH DOT" -> 113699
      [] name = "DUPLOYAN LETTER J WITH DOTS INSIDE AND ABOVE" -> 113700
      [] name = "DUPLOYAN LETTER S WITH DOT" -> 113701
      [] name = "DUPLOYAN LETTER S WITH DOT BELOW" -> 113702
      [] name = "DUPLOYAN LETTER M S" -> 113703
      [] name = "DUPLOYAN LETTER N S" -> 113704
      [] name = "DUPLOYAN LETTER J S" -> 113705
      [] name = "DUPLOYAN LETTER S S" -> 113706
      [] name = "DUPLOYAN LETTER M N S" -> 113707
      [] name = "DUPLOYAN LETTER N M S" -> 113708
      [] name = "DUPLOYAN LETTER J M S" -> 113709
      [] name = "DUPLOYAN LETTER S J S" -> 113710
      [] name = "DUPLOYAN LETTER J S WITH DOT" -> 113711
      [] name = "DUPLOYAN LETTER J N" -> 113712
      [] name = "DUPLOYAN LETTER J N S" -> 113713
      [] name = "DUPLOYAN LETTER S T" -> 113714
      [] name = "DUPLOYAN LETTER S T R" -> 113715
      [] name = "DUPLOYAN LETTER S P" -> 113716
      [] name = "DUPLOYAN LETTER S P R" -> 113717
      [] name = "DUPLOYAN LETTER T S" -> 113718
      [] name = "DUPLOYAN LETTER T R S" -> 113719
      [] name = "DUPLOYAN LETTER W" -> 113720
      [] name = "DUPLOYAN LETTER WH" -> 113721
      [] name = "DUPLOYAN LETTER W R" -> 113722
      [] name = "DUPLOYAN LETTER S N" -> 113723
      [] name = "DUPLOYAN LETTER S M" -> 113724
      [] name = "DUPLOYAN LETTER K R S" -> 113725
      [] name = "DUPLOYAN LETTER G R S" -> 113726
      [] name = "DUPLOYAN LETTER S K" -> 113727
      [] name = "DUPLOYAN LETTER S K R" -> 113728
      [] name = "DUPLOYAN LETTER A" -> 113729
      [] name = "DUPLOYAN LETTER SLOAN OW" -> 113730
      [] name = "DUPLOYAN LETTER OA" -> 113731
      [] name = "DUPLOYAN LETTER O" -> 113732
      [] name = "DUPLOYAN LETTER AOU" -> 113733
      [] name = "DUPLOYAN LETTER I" -> 113734
      [] name = "DUPLOYAN LETTER E" -> 113735
      [] name = "DUPLOYAN LETTER IE" -> 113736
      [] name = "DUPLOYAN LETTER SHORT I" -> 113737
      [] name = "DUPLOYAN LETTER UI" -> 113738
      [] name = "DUPLOYAN LETTER EE" -> 113739
      [] name = "DUPLOYAN LETTER SLOAN EH" -> 113740
      [] name = "DUPLOYAN LETTER ROMANIAN I" -> 113741
      [] name = "DUPLOYAN LETTER SLOAN EE" -> 113742
      [] name = "DUPLOYAN LETTER LONG I" -> 113743
      [] name = "DUPLOYAN LETTER YE" -> 113744
      [] name = "DUPLOYAN LETTER U" -> 113745
      [] name = "DUPLOYAN LETTER EU" -> 113746
      [] name = "DUPLOYAN LETTER XW" -> 113747
      [] name = "DUPLOYAN LETTER U N" -> 113748
      [] name = "DUPLOYAN LETTER LONG U" -> 113749
      [] name = "DUPLOYAN LETTER ROMANIAN U" -> 113750
      [] name = "DUPLOYAN LETTER UH" -> 113751
      [] name = "DUPLOYAN LETTER SLOAN U" -> 113752
      [] name = "DUPLOYAN LETTER OOH" -> 113753
      [] name = "DUPLOYAN LETTER OW" -> 113754
      [] name = "DUPLOYAN LETTER OU" -> 113755
      [] name = "DUPLOYAN LETTER WA" -> 113756
      [] name = "DUPLOYAN LETTER WO" -> 113757
      [] name = "DUPLOYAN LETTER WI" -> 113758
      [] name = "DUPLOYAN LETTER WEI" -> 113759
      [] name = "DUPLOYAN LETTER WOW" -> 113760
      [] name = "DUPLOYAN LETTER NASAL U" -> 113761
      [] name = "DUPLOYAN LETTER NASAL O" -> 113762
      [] name = "DUPLOYAN LETTER NASAL I" -> 113763
      [] name = "DUPLOYAN LETTER NASAL A" -> 113764
      [] name = "DUPLOYAN LETTER PERNIN AN" -> 113765
      [] name = "DUPLOYAN LETTER PERNIN AM" -> 113766
      [] name = "DUPLOYAN LETTER SLOAN EN" -> 113767
      [] name = "DUPLOYAN LETTER SLOAN AN" -> 113768
      [] name = "DUPLOYAN LETTER SLOAN ON" -> 113769
      [] name = "DUPLOYAN LETTER VOCALIC M" -> 113770
      [] name = "DUPLOYAN AFFIX LEFT HORIZONTAL SECANT" -> 113776
      [] name = "DUPLOYAN AFFIX MID HORIZONTAL SECANT" -> 113777
      [] name = "DUPLOYAN AFFIX RIGHT HORIZONTAL SECANT" -> 113778
      [] name = "DUPLOYAN AFFIX LOW VERTICAL SECANT" -> 113779
      [] name = "DUPLOYAN AFFIX MID VERTICAL SECANT" -> 113780
      [] name = "DUPLOYAN AFFIX HIGH VERTICAL SECANT" -> 113781
      [] name = "DUPLOYAN AFFIX ATTACHED SECANT" -> 113782
      [] name = "DUPLOYAN AFFIX ATTACHED LEFT-TO-RIGHT SECANT" -> 113783
      [] name = "DUPLOYAN AFFIX ATTACHED TANGENT" -> 113784
      [] name = "DUPLOYAN AFFIX ATTACHED TAIL" -> 113785
      [] name = "DUPLOYAN AFFIX ATTACHED E HOOK" -> 113786
      [] name = "DUPLOYAN AFFIX ATTACHED I HOOK" -> 113787
      [] name = "DUPLOYAN AFFIX ATTACHED TANGENT HOOK" -> 113788
      [] name = "DUPLOYAN AFFIX HIGH ACUTE" -> 113792
      [] name = "DUPLOYAN AFFIX HIGH TIGHT ACUTE" -> 113793
      [] name = "DUPLOYAN AFFIX HIGH GRAVE" -> 113794
      [] name = "DUPLOYAN AFFIX HIGH LONG GRAVE" -> 113795
      [] name = "DUPLOYAN AFFIX HIGH DOT" -> 113796
      [] name = "DUPLOYAN AFFIX HIGH CIRCLE" -> 113797
      [] name = "DUPLOYAN AFFIX HIGH LINE" -> 113798
      [] name = "DUPLOYAN AFFIX HIGH WAVE" -> 113799
      [] name = "DUPLOYAN AFFIX HIGH VERTICAL" -> 113800
      [] name = "DUPLOYAN AFFIX LOW ACUTE" -> 113808
      [] name = "DUPLOYAN AFFIX LOW TIGHT ACUTE" -> 113809
      [] name = "DUPLOYAN AFFIX LOW GRAVE" -> 113810
      [] name = "DUPLOYAN AFFIX LOW LONG GRAVE" -> 113811
      [] name = "DUPLOYAN AFFIX LOW DOT" -> 113812
      [] name = "DUPLOYAN AFFIX LOW CIRCLE" -> 113813
      [] name = "DUPLOYAN AFFIX LOW LINE" -> 113814
      [] name = "DUPLOYAN AFFIX LOW WAVE" -> 113815
      [] name = "DUPLOYAN AFFIX LOW VERTICAL" -> 113816
      [] name = "DUPLOYAN AFFIX LOW ARROW" -> 113817
      [] name = "DUPLOYAN SIGN O WITH CROSS" -> 113820
      [] name = "DUPLOYAN THICK LETTER SELECTOR" -> 113821
      [] name = "DUPLOYAN DOUBLE MARK" -> 113822
      [] name = "DUPLOYAN PUNCTUATION CHINOOK FULL STOP" -> 113823
      [] name = "SHORTHAND FORMAT LETTER OVERLAP" -> 113824
      [] name = "SHORTHAND FORMAT CONTINUING OVERLAP" -> 113825
      [] name = "SHORTHAND FORMAT DOWN STEP" -> 113826
      [] name = "SHORTHAND FORMAT UP STEP" -> 113827
      [] name = "ZNAMENNY COMBINING MARK GORAZDO NIZKO S KRYZHEM ON LEFT" -> 118528
      [] name = "ZNAMENNY COMBINING MARK NIZKO S KRYZHEM ON LEFT" -> 118529
      [] name = "ZNAMENNY COMBINING MARK TSATA ON LEFT" -> 118530
      [] name = "ZNAMENNY COMBINING MARK GORAZDO NIZKO ON LEFT" -> 118531
      [] name = "ZNAMENNY COMBINING MARK NIZKO ON LEFT" -> 118532
      [] name = "ZNAMENNY COMBINING MARK SREDNE ON LEFT" -> 118533
      [] name = "ZNAMENNY COMBINING MARK MALO POVYSHE ON LEFT" -> 118534
      [] name = "ZNAMENNY COMBINING MARK POVYSHE ON LEFT" -> 118535
      [] name = "ZNAMENNY COMBINING MARK VYSOKO ON LEFT" -> 118536
      [] name = "ZNAMENNY COMBINING MARK MALO POVYSHE S KHOKHLOM ON LEFT" -> 118537
      [] name = "ZNAMENNY COMBINING MARK POVYSHE S KHOKHLOM ON LEFT" -> 118538
      [] name = "ZNAMENNY COMBINING MARK VYSOKO S KHOKHLOM ON LEFT" -> 118539
      [] name = "ZNAMENNY COMBINING MARK GORAZDO NIZKO S KRYZHEM ON RIGHT" -> 118540
      [] name = "ZNAMENNY COMBINING MARK NIZKO S KRYZHEM ON RIGHT" -> 118541
      [] name = "ZNAMENNY COMBINING MARK TSATA ON RIGHT" -> 118542
      [] name = "ZNAMENNY COMBINING MARK GORAZDO NIZKO ON RIGHT" -> 118543
      [] name = "ZNAMENNY COMBINING MARK NIZKO ON RIGHT" -> 118544
      [] name = "ZNAMENNY COMBINING MARK SREDNE ON RIGHT" -> 118545
      [] name = "ZNAMENNY COMBINING MARK MALO POVYSHE ON RIGHT" -> 118546
      [] name = "ZNAMENNY COMBINING MARK POVYSHE ON RIGHT" -> 118547
      [] name = "ZNAMENNY COMBINING MARK VYSOKO ON RIGHT" -> 118548
      [] name = "ZNAMENNY COMBINING MARK MALO POVYSHE S KHOKHLOM ON RIGHT" -> 118549
      [] name = "ZNAMENNY COMBINING MARK POVYSHE S KHOKHLOM ON RIGHT" -> 118550
      [] name = "ZNAMENNY COMBINING MARK VYSOKO S KHOKHLOM ON RIGHT" -> 118551
      [] name = "ZNAMENNY COMBINING MARK TSATA S KRYZHEM" -> 118552
      [] name = "ZNAMENNY COMBINING MARK MALO POVYSHE S KRYZHEM" -> 118553
      [] name = "ZNAMENNY COMBINING MARK STRANNO MALO POVYSHE" -> 118554
      [] name = "ZNAMENNY COMBINING MARK POVYSHE S KRYZHEM" -> 118555
      [] name = "ZNAMENNY COMBINING MARK POVYSHE STRANNO" -> 118556
      [] name = "ZNAMENNY COMBINING MARK VYSOKO S KRYZHEM" -> 118557
      [] name = "ZNAMENNY COMBINING MARK MALO POVYSHE STRANNO" -> 118558
      [] name = "ZNAMENNY COMBINING MARK GORAZDO VYSOKO" -> 118559
      [] name = "ZNAMENNY COMBINING MARK ZELO" -> 118560
      [] name = "ZNAMENNY COMBINING MARK ON" -> 118561
      [] name = "ZNAMENNY COMBINING MARK RAVNO" -> 118562
      [] name = "ZNAMENNY COMBINING MARK TIKHAYA" -> 118563
      [] name = "ZNAMENNY COMBINING MARK BORZAYA" -> 118564
      [] name = "ZNAMENNY COMBINING MARK UDARKA" -> 118565
      [] name = "ZNAMENNY COMBINING MARK PODVERTKA" -> 118566
      [] name = "ZNAMENNY COMBINING MARK LOMKA" -> 118567
      [] name = "ZNAMENNY COMBINING MARK KUPNAYA" -> 118568
      [] name = "ZNAMENNY COMBINING MARK KACHKA" -> 118569
      [] name = "ZNAMENNY COMBINING MARK ZEVOK" -> 118570
      [] name = "ZNAMENNY COMBINING MARK SKOBA" -> 118571
      [] name = "ZNAMENNY COMBINING MARK RAZSEKA" -> 118572
      [] name = "ZNAMENNY COMBINING MARK KRYZH ON LEFT" -> 118573
      [] name = "ZNAMENNY COMBINING TONAL RANGE MARK MRACHNO" -> 118576
      [] name = "ZNAMENNY COMBINING TONAL RANGE MARK SVETLO" -> 118577
      [] name = "ZNAMENNY COMBINING TONAL RANGE MARK TRESVETLO" -> 118578
      [] name = "ZNAMENNY COMBINING MARK ZADERZHKA" -> 118579
      [] name = "ZNAMENNY COMBINING MARK DEMESTVENNY ZADERZHKA" -> 118580
      [] name = "ZNAMENNY COMBINING MARK OTSECHKA" -> 118581
      [] name = "ZNAMENNY COMBINING MARK PODCHASHIE" -> 118582
      [] name = "ZNAMENNY COMBINING MARK PODCHASHIE WITH VERTICAL STROKE" -> 118583
      [] name = "ZNAMENNY COMBINING MARK CHASHKA" -> 118584
      [] name = "ZNAMENNY COMBINING MARK CHASHKA POLNAYA" -> 118585
      [] name = "ZNAMENNY COMBINING MARK OBLACHKO" -> 118586
      [] name = "ZNAMENNY COMBINING MARK SOROCHYA NOZHKA" -> 118587
      [] name = "ZNAMENNY COMBINING MARK TOCHKA" -> 118588
      [] name = "ZNAMENNY COMBINING MARK DVOETOCHIE" -> 118589
      [] name = "ZNAMENNY COMBINING ATTACHING VERTICAL OMET" -> 118590
      [] name = "ZNAMENNY COMBINING MARK CURVED OMET" -> 118591
      [] name = "ZNAMENNY COMBINING MARK KRYZH" -> 118592
      [] name = "ZNAMENNY COMBINING LOWER TONAL RANGE INDICATOR" -> 118593
      [] name = "ZNAMENNY PRIZNAK MODIFIER LEVEL-2" -> 118594
      [] name = "ZNAMENNY PRIZNAK MODIFIER LEVEL-3" -> 118595
      [] name = "ZNAMENNY PRIZNAK MODIFIER DIRECTION FLIP" -> 118596
      [] name = "ZNAMENNY PRIZNAK MODIFIER KRYZH" -> 118597
      [] name = "ZNAMENNY PRIZNAK MODIFIER ROG" -> 118598
      [] name = "ZNAMENNY NEUME KRYUK" -> 118608
      [] name = "ZNAMENNY NEUME KRYUK TIKHY" -> 118609
      [] name = "ZNAMENNY NEUME PARAKLIT" -> 118610
      [] name = "ZNAMENNY NEUME DVA V CHELNU" -> 118611
      [] name = "ZNAMENNY NEUME KLYUCH" -> 118612
      [] name = "ZNAMENNY NEUME ZANOZHEK" -> 118613
      [] name = "ZNAMENNY NEUME STOPITSA" -> 118614
      [] name = "ZNAMENNY NEUME STOPITSA S OCHKOM" -> 118615
      [] name = "ZNAMENNY NEUME PEREVODKA" -> 118616
      [] name = "ZNAMENNY NEUME PEREVODKA NEPOSTOYANNAYA" -> 118617
      [] name = "ZNAMENNY NEUME STOPITSA WITH SOROCHYA NOZHKA" -> 118618
      [] name = "ZNAMENNY NEUME CHELYUSTKA" -> 118619
      [] name = "ZNAMENNY NEUME PALKA" -> 118620
      [] name = "ZNAMENNY NEUME ZAPYATAYA" -> 118621
      [] name = "ZNAMENNY NEUME GOLUBCHIK BORZY" -> 118622
      [] name = "ZNAMENNY NEUME GOLUBCHIK TIKHY" -> 118623
      [] name = "ZNAMENNY NEUME GOLUBCHIK MRACHNY" -> 118624
      [] name = "ZNAMENNY NEUME GOLUBCHIK SVETLY" -> 118625
      [] name = "ZNAMENNY NEUME GOLUBCHIK TRESVETLY" -> 118626
      [] name = "ZNAMENNY NEUME VRAKHIYA PROSTAYA" -> 118627
      [] name = "ZNAMENNY NEUME VRAKHIYA MRACHNAYA" -> 118628
      [] name = "ZNAMENNY NEUME VRAKHIYA SVETLAYA" -> 118629
      [] name = "ZNAMENNY NEUME VRAKHIYA TRESVETLAYA" -> 118630
      [] name = "ZNAMENNY NEUME VRAKHIYA KLYUCHEVAYA PROSTAYA" -> 118631
      [] name = "ZNAMENNY NEUME VRAKHIYA KLYUCHEVAYA MRACHNAYA" -> 118632
      [] name = "ZNAMENNY NEUME VRAKHIYA KLYUCHEVAYA SVETLAYA" -> 118633
      [] name = "ZNAMENNY NEUME VRAKHIYA KLYUCHEVAYA TRESVETLAYA" -> 118634
      [] name = "ZNAMENNY NEUME DOUBLE ZAPYATAYA" -> 118635
      [] name = "ZNAMENNY NEUME REVERSED CHELYUSTKA" -> 118636
      [] name = "ZNAMENNY NEUME DERBITSA" -> 118637
      [] name = "ZNAMENNY NEUME KHAMILO" -> 118638
      [] name = "ZNAMENNY NEUME CHASHKA" -> 118639
      [] name = "ZNAMENNY NEUME PODCHASHIE" -> 118640
      [] name = "ZNAMENNY NEUME SKAMEYTSA MRACHNAYA" -> 118641
      [] name = "ZNAMENNY NEUME SKAMEYTSA SVETLAYA" -> 118642
      [] name = "ZNAMENNY NEUME SKAMEYTSA TRESVETLAYA" -> 118643
      [] name = "ZNAMENNY NEUME SKAMEYTSA TIKHAYA" -> 118644
      [] name = "ZNAMENNY NEUME DEMESTVENNY KLYUCH" -> 118645
      [] name = "ZNAMENNY NEUME SKAMEYTSA KLYUCHEVAYA SVETLAYA" -> 118646
      [] name = "ZNAMENNY NEUME SKAMEYTSA KLYUCHENEPOSTOYANNAYA" -> 118647
      [] name = "ZNAMENNY NEUME SKAMEYTSA KLYUCHEVAYA TIKHAYA" -> 118648
      [] name = "ZNAMENNY NEUME SKAMEYTSA DVOECHELNAYA PROSTAYA" -> 118649
      [] name = "ZNAMENNY NEUME SKAMEYTSA DVOECHELNAYA SVETLAYA" -> 118650
      [] name = "ZNAMENNY NEUME SKAMEYTSA DVOECHELNAYA NEPOSTOYANNAYA" -> 118651
      [] name = "ZNAMENNY NEUME SKAMEYTSA DVOECHELNAYA KLYUCHEVAYA" -> 118652
      [] name = "ZNAMENNY NEUME SLOZHITIE" -> 118653
      [] name = "ZNAMENNY NEUME SLOZHITIE S ZAPYATOY" -> 118654
      [] name = "ZNAMENNY NEUME SLOZHITIE ZAKRYTOE" -> 118655
      [] name = "ZNAMENNY NEUME SLOZHITIE S KRYZHEM" -> 118656
      [] name = "ZNAMENNY NEUME KRYZH" -> 118657
      [] name = "ZNAMENNY NEUME ROG" -> 118658
      [] name = "ZNAMENNY NEUME FITA" -> 118659
      [] name = "ZNAMENNY NEUME KOBYLA" -> 118660
      [] name = "ZNAMENNY NEUME ZMEYTSA" -> 118661
      [] name = "ZNAMENNY NEUME STATYA" -> 118662
      [] name = "ZNAMENNY NEUME STATYA S ZAPYATOY" -> 118663
      [] name = "ZNAMENNY NEUME STATYA S KRYZHEM" -> 118664
      [] name = "ZNAMENNY NEUME STATYA S ZAPYATOY I KRYZHEM" -> 118665
      [] name = "ZNAMENNY NEUME STATYA S KRYZHEM I ZAPYATOY" -> 118666
      [] name = "ZNAMENNY NEUME STATYA ZAKRYTAYA" -> 118667
      [] name = "ZNAMENNY NEUME STATYA ZAKRYTAYA S ZAPYATOY" -> 118668
      [] name = "ZNAMENNY NEUME STATYA S ROGOM" -> 118669
      [] name = "ZNAMENNY NEUME STATYA S DVUMYA ZAPYATYMI" -> 118670
      [] name = "ZNAMENNY NEUME STATYA S ZAPYATOY I PODCHASHIEM" -> 118671
      [] name = "ZNAMENNY NEUME POLKULIZMY" -> 118672
      [] name = "ZNAMENNY NEUME STATYA NEPOSTOYANNAYA" -> 118673
      [] name = "ZNAMENNY NEUME STRELA PROSTAYA" -> 118674
      [] name = "ZNAMENNY NEUME STRELA MRACHNOTIKHAYA" -> 118675
      [] name = "ZNAMENNY NEUME STRELA KRYZHEVAYA" -> 118676
      [] name = "ZNAMENNY NEUME STRELA POLUPOVODNAYA" -> 118677
      [] name = "ZNAMENNY NEUME STRELA POVODNAYA" -> 118678
      [] name = "ZNAMENNY NEUME STRELA NEPOSTOYANNAYA" -> 118679
      [] name = "ZNAMENNY NEUME STRELA KLYUCHEPOVODNAYA" -> 118680
      [] name = "ZNAMENNY NEUME STRELA KLYUCHENEPOSTOYANNAYA" -> 118681
      [] name = "ZNAMENNY NEUME STRELA TIKHAYA PUTNAYA" -> 118682
      [] name = "ZNAMENNY NEUME STRELA DVOECHELNAYA" -> 118683
      [] name = "ZNAMENNY NEUME STRELA DVOECHELNOKRYZHEVAYA" -> 118684
      [] name = "ZNAMENNY NEUME STRELA DVOECHELNOPOVODNAYA" -> 118685
      [] name = "ZNAMENNY NEUME STRELA DVOECHELNAYA KLYUCHEVAYA" -> 118686
      [] name = "ZNAMENNY NEUME STRELA DVOECHELNOPOVODNAYA KLYUCHEVAYA" -> 118687
      [] name = "ZNAMENNY NEUME STRELA GROMNAYA WITH SINGLE ZAPYATAYA" -> 118688
      [] name = "ZNAMENNY NEUME STRELA GROMOPOVODNAYA WITH SINGLE ZAPYATAYA" -> 118689
      [] name = "ZNAMENNY NEUME STRELA GROMNAYA" -> 118690
      [] name = "ZNAMENNY NEUME STRELA GROMOPOVODNAYA" -> 118691
      [] name = "ZNAMENNY NEUME STRELA GROMOPOVODNAYA WITH DOUBLE ZAPYATAYA" -> 118692
      [] name = "ZNAMENNY NEUME STRELA GROMOKRYZHEVAYA" -> 118693
      [] name = "ZNAMENNY NEUME STRELA GROMOKRYZHEVAYA POVODNAYA" -> 118694
      [] name = "ZNAMENNY NEUME MECHIK" -> 118695
      [] name = "ZNAMENNY NEUME MECHIK POVODNY" -> 118696
      [] name = "ZNAMENNY NEUME MECHIK KLYUCHEVOY" -> 118697
      [] name = "ZNAMENNY NEUME MECHIK KLYUCHEPOVODNY" -> 118698
      [] name = "ZNAMENNY NEUME MECHIK KLYUCHENEPOSTOYANNY" -> 118699
      [] name = "ZNAMENNY NEUME STRELA TRYASOGLASNAYA" -> 118700
      [] name = "ZNAMENNY NEUME STRELA TRYASOPOVODNAYA" -> 118701
      [] name = "ZNAMENNY NEUME STRELA TRYASOSTRELNAYA" -> 118702
      [] name = "ZNAMENNY NEUME OSOKA" -> 118703
      [] name = "ZNAMENNY NEUME OSOKA SVETLAYA" -> 118704
      [] name = "ZNAMENNY NEUME OSOKA TRESVETLAYA" -> 118705
      [] name = "ZNAMENNY NEUME OSOKA KRYUKOVAYA SVETLAYA" -> 118706
      [] name = "ZNAMENNY NEUME OSOKA KLYUCHEVAYA SVETLAYA" -> 118707
      [] name = "ZNAMENNY NEUME OSOKA KLYUCHEVAYA NEPOSTOYANNAYA" -> 118708
      [] name = "ZNAMENNY NEUME STRELA KRYUKOVAYA" -> 118709
      [] name = "ZNAMENNY NEUME STRELA KRYUKOVAYA POVODNAYA" -> 118710
      [] name = "ZNAMENNY NEUME STRELA KRYUKOVAYA GROMNAYA WITH SINGLE ZAPYATAYA" -> 118711
      [] name = "ZNAMENNY NEUME STRELA KRYUKOVAYA GROMOPOVODNAYA WITH SINGLE ZAPYATAYA" -> 118712
      [] name = "ZNAMENNY NEUME STRELA KRYUKOVAYA GROMNAYA" -> 118713
      [] name = "ZNAMENNY NEUME STRELA KRYUKOVAYA GROMOPOVODNAYA" -> 118714
      [] name = "ZNAMENNY NEUME STRELA KRYUKOVAYA GROMOPOVODNAYA WITH DOUBLE ZAPYATAYA" -> 118715
      [] name = "ZNAMENNY NEUME STRELA KRYUKOVAYA GROMOKRYZHEVAYA" -> 118716
      [] name = "ZNAMENNY NEUME STRELA KRYUKOVAYA GROMOKRYZHEVAYA POVODNAYA" -> 118717
      [] name = "ZNAMENNY NEUME STRELA KRYUKOVAYA TRYASKA" -> 118718
      [] name = "ZNAMENNY NEUME KUFISMA" -> 118719
      [] name = "ZNAMENNY NEUME OBLAKO" -> 118720
      [] name = "ZNAMENNY NEUME DUDA" -> 118721
      [] name = "ZNAMENNY NEUME NEMKA" -> 118722
      [] name = "ZNAMENNY NEUME PAUK" -> 118723
      [] name = "BYZANTINE MUSICAL SYMBOL PSILI" -> 118784
      [] name = "BYZANTINE MUSICAL SYMBOL DASEIA" -> 118785
      [] name = "BYZANTINE MUSICAL SYMBOL PERISPOMENI" -> 118786
      [] name = "BYZANTINE MUSICAL SYMBOL OXEIA EKFONITIKON" -> 118787
      [] name = "BYZANTINE MUSICAL SYMBOL OXEIA DIPLI" -> 118788
      [] name = "BYZANTINE MUSICAL SYMBOL VAREIA EKFONITIKON" -> 118789
      [] name = "BYZANTINE MUSICAL SYMBOL VAREIA DIPLI" -> 118790
      [] name = "BYZANTINE MUSICAL SYMBOL KATHISTI" -> 118791
      [] name = "BYZANTINE MUSICAL SYMBOL SYRMATIKI" -> 118792
      [] name = "BYZANTINE MUSICAL SYMBOL PARAKLITIKI" -> 118793
      [] name = "BYZANTINE MUSICAL SYMBOL YPOKRISIS" -> 118794
      [] name = "BYZANTINE MUSICAL SYMBOL YPOKRISIS DIPLI" -> 118795
      [] name = "BYZANTINE MUSICAL SYMBOL KREMASTI" -> 118796
      [] name = "BYZANTINE MUSICAL SYMBOL APESO EKFONITIKON" -> 118797
      [] name = "BYZANTINE MUSICAL SYMBOL EXO EKFONITIKON" -> 118798
      [] name = "BYZANTINE MUSICAL SYMBOL TELEIA" -> 118799
      [] name = "BYZANTINE MUSICAL SYMBOL KENTIMATA" -> 118800
      [] name = "BYZANTINE MUSICAL SYMBOL APOSTROFOS" -> 118801
      [] name = "BYZANTINE MUSICAL SYMBOL APOSTROFOS DIPLI" -> 118802
      [] name = "BYZANTINE MUSICAL SYMBOL SYNEVMA" -> 118803
      [] name = "BYZANTINE MUSICAL SYMBOL THITA" -> 118804
      [] name = "BYZANTINE MUSICAL SYMBOL OLIGON ARCHAION" -> 118805
      [] name = "BYZANTINE MUSICAL SYMBOL GORGON ARCHAION" -> 118806
      [] name = "BYZANTINE MUSICAL SYMBOL PSILON" -> 118807
      [] name = "BYZANTINE MUSICAL SYMBOL CHAMILON" -> 118808
      [] name = "BYZANTINE MUSICAL SYMBOL VATHY" -> 118809
      [] name = "BYZANTINE MUSICAL SYMBOL ISON ARCHAION" -> 118810
      [] name = "BYZANTINE MUSICAL SYMBOL KENTIMA ARCHAION" -> 118811
      [] name = "BYZANTINE MUSICAL SYMBOL KENTIMATA ARCHAION" -> 118812
      [] name = "BYZANTINE MUSICAL SYMBOL SAXIMATA" -> 118813
      [] name = "BYZANTINE MUSICAL SYMBOL PARICHON" -> 118814
      [] name = "BYZANTINE MUSICAL SYMBOL STAVROS APODEXIA" -> 118815
      [] name = "BYZANTINE MUSICAL SYMBOL OXEIAI ARCHAION" -> 118816
      [] name = "BYZANTINE MUSICAL SYMBOL VAREIAI ARCHAION" -> 118817
      [] name = "BYZANTINE MUSICAL SYMBOL APODERMA ARCHAION" -> 118818
      [] name = "BYZANTINE MUSICAL SYMBOL APOTHEMA" -> 118819
      [] name = "BYZANTINE MUSICAL SYMBOL KLASMA" -> 118820
      [] name = "BYZANTINE MUSICAL SYMBOL REVMA" -> 118821
      [] name = "BYZANTINE MUSICAL SYMBOL PIASMA ARCHAION" -> 118822
      [] name = "BYZANTINE MUSICAL SYMBOL TINAGMA" -> 118823
      [] name = "BYZANTINE MUSICAL SYMBOL ANATRICHISMA" -> 118824
      [] name = "BYZANTINE MUSICAL SYMBOL SEISMA" -> 118825
      [] name = "BYZANTINE MUSICAL SYMBOL SYNAGMA ARCHAION" -> 118826
      [] name = "BYZANTINE MUSICAL SYMBOL SYNAGMA META STAVROU" -> 118827
      [] name = "BYZANTINE MUSICAL SYMBOL OYRANISMA ARCHAION" -> 118828
      [] name = "BYZANTINE MUSICAL SYMBOL THEMA" -> 118829
      [] name = "BYZANTINE MUSICAL SYMBOL LEMOI" -> 118830
      [] name = "BYZANTINE MUSICAL SYMBOL DYO" -> 118831
      [] name = "BYZANTINE MUSICAL SYMBOL TRIA" -> 118832
      [] name = "BYZANTINE MUSICAL SYMBOL TESSERA" -> 118833
      [] name = "BYZANTINE MUSICAL SYMBOL KRATIMATA" -> 118834
      [] name = "BYZANTINE MUSICAL SYMBOL APESO EXO NEO" -> 118835
      [] name = "BYZANTINE MUSICAL SYMBOL FTHORA ARCHAION" -> 118836
      [] name = "BYZANTINE MUSICAL SYMBOL IMIFTHORA" -> 118837
      [] name = "BYZANTINE MUSICAL SYMBOL TROMIKON ARCHAION" -> 118838
      [] name = "BYZANTINE MUSICAL SYMBOL KATAVA TROMIKON" -> 118839
      [] name = "BYZANTINE MUSICAL SYMBOL PELASTON" -> 118840
      [] name = "BYZANTINE MUSICAL SYMBOL PSIFISTON" -> 118841
      [] name = "BYZANTINE MUSICAL SYMBOL KONTEVMA" -> 118842
      [] name = "BYZANTINE MUSICAL SYMBOL CHOREVMA ARCHAION" -> 118843
      [] name = "BYZANTINE MUSICAL SYMBOL RAPISMA" -> 118844
      [] name = "BYZANTINE MUSICAL SYMBOL PARAKALESMA ARCHAION" -> 118845
      [] name = "BYZANTINE MUSICAL SYMBOL PARAKLITIKI ARCHAION" -> 118846
      [] name = "BYZANTINE MUSICAL SYMBOL ICHADIN" -> 118847
      [] name = "BYZANTINE MUSICAL SYMBOL NANA" -> 118848
      [] name = "BYZANTINE MUSICAL SYMBOL PETASMA" -> 118849
      [] name = "BYZANTINE MUSICAL SYMBOL KONTEVMA ALLO" -> 118850
      [] name = "BYZANTINE MUSICAL SYMBOL TROMIKON ALLO" -> 118851
      [] name = "BYZANTINE MUSICAL SYMBOL STRAGGISMATA" -> 118852
      [] name = "BYZANTINE MUSICAL SYMBOL GRONTHISMATA" -> 118853
      [] name = "BYZANTINE MUSICAL SYMBOL ISON NEO" -> 118854
      [] name = "BYZANTINE MUSICAL SYMBOL OLIGON NEO" -> 118855
      [] name = "BYZANTINE MUSICAL SYMBOL OXEIA NEO" -> 118856
      [] name = "BYZANTINE MUSICAL SYMBOL PETASTI" -> 118857
      [] name = "BYZANTINE MUSICAL SYMBOL KOUFISMA" -> 118858
      [] name = "BYZANTINE MUSICAL SYMBOL PETASTOKOUFISMA" -> 118859
      [] name = "BYZANTINE MUSICAL SYMBOL KRATIMOKOUFISMA" -> 118860
      [] name = "BYZANTINE MUSICAL SYMBOL PELASTON NEO" -> 118861
      [] name = "BYZANTINE MUSICAL SYMBOL KENTIMATA NEO ANO" -> 118862
      [] name = "BYZANTINE MUSICAL SYMBOL KENTIMA NEO ANO" -> 118863
      [] name = "BYZANTINE MUSICAL SYMBOL YPSILI" -> 118864
      [] name = "BYZANTINE MUSICAL SYMBOL APOSTROFOS NEO" -> 118865
      [] name = "BYZANTINE MUSICAL SYMBOL APOSTROFOI SYNDESMOS NEO" -> 118866
      [] name = "BYZANTINE MUSICAL SYMBOL YPORROI" -> 118867
      [] name = "BYZANTINE MUSICAL SYMBOL KRATIMOYPORROON" -> 118868
      [] name = "BYZANTINE MUSICAL SYMBOL ELAFRON" -> 118869
      [] name = "BYZANTINE MUSICAL SYMBOL CHAMILI" -> 118870
      [] name = "BYZANTINE MUSICAL SYMBOL MIKRON ISON" -> 118871
      [] name = "BYZANTINE MUSICAL SYMBOL VAREIA NEO" -> 118872
      [] name = "BYZANTINE MUSICAL SYMBOL PIASMA NEO" -> 118873
      [] name = "BYZANTINE MUSICAL SYMBOL PSIFISTON NEO" -> 118874
      [] name = "BYZANTINE MUSICAL SYMBOL OMALON" -> 118875
      [] name = "BYZANTINE MUSICAL SYMBOL ANTIKENOMA" -> 118876
      [] name = "BYZANTINE MUSICAL SYMBOL LYGISMA" -> 118877
      [] name = "BYZANTINE MUSICAL SYMBOL PARAKLITIKI NEO" -> 118878
      [] name = "BYZANTINE MUSICAL SYMBOL PARAKALESMA NEO" -> 118879
      [] name = "BYZANTINE MUSICAL SYMBOL ETERON PARAKALESMA" -> 118880
      [] name = "BYZANTINE MUSICAL SYMBOL KYLISMA" -> 118881
      [] name = "BYZANTINE MUSICAL SYMBOL ANTIKENOKYLISMA" -> 118882
      [] name = "BYZANTINE MUSICAL SYMBOL TROMIKON NEO" -> 118883
      [] name = "BYZANTINE MUSICAL SYMBOL EKSTREPTON" -> 118884
      [] name = "BYZANTINE MUSICAL SYMBOL SYNAGMA NEO" -> 118885
      [] name = "BYZANTINE MUSICAL SYMBOL SYRMA" -> 118886
      [] name = "BYZANTINE MUSICAL SYMBOL CHOREVMA NEO" -> 118887
      [] name = "BYZANTINE MUSICAL SYMBOL EPEGERMA" -> 118888
      [] name = "BYZANTINE MUSICAL SYMBOL SEISMA NEO" -> 118889
      [] name = "BYZANTINE MUSICAL SYMBOL XIRON KLASMA" -> 118890
      [] name = "BYZANTINE MUSICAL SYMBOL TROMIKOPSIFISTON" -> 118891
      [] name = "BYZANTINE MUSICAL SYMBOL PSIFISTOLYGISMA" -> 118892
      [] name = "BYZANTINE MUSICAL SYMBOL TROMIKOLYGISMA" -> 118893
      [] name = "BYZANTINE MUSICAL SYMBOL TROMIKOPARAKALESMA" -> 118894
      [] name = "BYZANTINE MUSICAL SYMBOL PSIFISTOPARAKALESMA" -> 118895
      [] name = "BYZANTINE MUSICAL SYMBOL TROMIKOSYNAGMA" -> 118896
      [] name = "BYZANTINE MUSICAL SYMBOL PSIFISTOSYNAGMA" -> 118897
      [] name = "BYZANTINE MUSICAL SYMBOL GORGOSYNTHETON" -> 118898
      [] name = "BYZANTINE MUSICAL SYMBOL ARGOSYNTHETON" -> 118899
      [] name = "BYZANTINE MUSICAL SYMBOL ETERON ARGOSYNTHETON" -> 118900
      [] name = "BYZANTINE MUSICAL SYMBOL OYRANISMA NEO" -> 118901
      [] name = "BYZANTINE MUSICAL SYMBOL THEMATISMOS ESO" -> 118902
      [] name = "BYZANTINE MUSICAL SYMBOL THEMATISMOS EXO" -> 118903
      [] name = "BYZANTINE MUSICAL SYMBOL THEMA APLOUN" -> 118904
      [] name = "BYZANTINE MUSICAL SYMBOL THES KAI APOTHES" -> 118905
      [] name = "BYZANTINE MUSICAL SYMBOL KATAVASMA" -> 118906
      [] name = "BYZANTINE MUSICAL SYMBOL ENDOFONON" -> 118907
      [] name = "BYZANTINE MUSICAL SYMBOL YFEN KATO" -> 118908
      [] name = "BYZANTINE MUSICAL SYMBOL YFEN ANO" -> 118909
      [] name = "BYZANTINE MUSICAL SYMBOL STAVROS" -> 118910
      [] name = "BYZANTINE MUSICAL SYMBOL KLASMA ANO" -> 118911
      [] name = "BYZANTINE MUSICAL SYMBOL DIPLI ARCHAION" -> 118912
      [] name = "BYZANTINE MUSICAL SYMBOL KRATIMA ARCHAION" -> 118913
      [] name = "BYZANTINE MUSICAL SYMBOL KRATIMA ALLO" -> 118914
      [] name = "BYZANTINE MUSICAL SYMBOL KRATIMA NEO" -> 118915
      [] name = "BYZANTINE MUSICAL SYMBOL APODERMA NEO" -> 118916
      [] name = "BYZANTINE MUSICAL SYMBOL APLI" -> 118917
      [] name = "BYZANTINE MUSICAL SYMBOL DIPLI" -> 118918
      [] name = "BYZANTINE MUSICAL SYMBOL TRIPLI" -> 118919
      [] name = "BYZANTINE MUSICAL SYMBOL TETRAPLI" -> 118920
      [] name = "BYZANTINE MUSICAL SYMBOL KORONIS" -> 118921
      [] name = "BYZANTINE MUSICAL SYMBOL LEIMMA ENOS CHRONOU" -> 118922
      [] name = "BYZANTINE MUSICAL SYMBOL LEIMMA DYO CHRONON" -> 118923
      [] name = "BYZANTINE MUSICAL SYMBOL LEIMMA TRION CHRONON" -> 118924
      [] name = "BYZANTINE MUSICAL SYMBOL LEIMMA TESSARON CHRONON" -> 118925
      [] name = "BYZANTINE MUSICAL SYMBOL LEIMMA IMISEOS CHRONOU" -> 118926
      [] name = "BYZANTINE MUSICAL SYMBOL GORGON NEO ANO" -> 118927
      [] name = "BYZANTINE MUSICAL SYMBOL GORGON PARESTIGMENON ARISTERA" -> 118928
      [] name = "BYZANTINE MUSICAL SYMBOL GORGON PARESTIGMENON DEXIA" -> 118929
      [] name = "BYZANTINE MUSICAL SYMBOL DIGORGON" -> 118930
      [] name = "BYZANTINE MUSICAL SYMBOL DIGORGON PARESTIGMENON ARISTERA KATO" -> 118931
      [] name = "BYZANTINE MUSICAL SYMBOL DIGORGON PARESTIGMENON ARISTERA ANO" -> 118932
      [] name = "BYZANTINE MUSICAL SYMBOL DIGORGON PARESTIGMENON DEXIA" -> 118933
      [] name = "BYZANTINE MUSICAL SYMBOL TRIGORGON" -> 118934
      [] name = "BYZANTINE MUSICAL SYMBOL ARGON" -> 118935
      [] name = "BYZANTINE MUSICAL SYMBOL IMIDIARGON" -> 118936
      [] name = "BYZANTINE MUSICAL SYMBOL DIARGON" -> 118937
      [] name = "BYZANTINE MUSICAL SYMBOL AGOGI POLI ARGI" -> 118938
      [] name = "BYZANTINE MUSICAL SYMBOL AGOGI ARGOTERI" -> 118939
      [] name = "BYZANTINE MUSICAL SYMBOL AGOGI ARGI" -> 118940
      [] name = "BYZANTINE MUSICAL SYMBOL AGOGI METRIA" -> 118941
      [] name = "BYZANTINE MUSICAL SYMBOL AGOGI MESI" -> 118942
      [] name = "BYZANTINE MUSICAL SYMBOL AGOGI GORGI" -> 118943
      [] name = "BYZANTINE MUSICAL SYMBOL AGOGI GORGOTERI" -> 118944
      [] name = "BYZANTINE MUSICAL SYMBOL AGOGI POLI GORGI" -> 118945
      [] name = "BYZANTINE MUSICAL SYMBOL MARTYRIA PROTOS ICHOS" -> 118946
      [] name = "BYZANTINE MUSICAL SYMBOL MARTYRIA ALLI PROTOS ICHOS" -> 118947
      [] name = "BYZANTINE MUSICAL SYMBOL MARTYRIA DEYTEROS ICHOS" -> 118948
      [] name = "BYZANTINE MUSICAL SYMBOL MARTYRIA ALLI DEYTEROS ICHOS" -> 118949
      [] name = "BYZANTINE MUSICAL SYMBOL MARTYRIA TRITOS ICHOS" -> 118950
      [] name = "BYZANTINE MUSICAL SYMBOL MARTYRIA TRIFONIAS" -> 118951
      [] name = "BYZANTINE MUSICAL SYMBOL MARTYRIA TETARTOS ICHOS" -> 118952
      [] name = "BYZANTINE MUSICAL SYMBOL MARTYRIA TETARTOS LEGETOS ICHOS" -> 118953
      [] name = "BYZANTINE MUSICAL SYMBOL MARTYRIA LEGETOS ICHOS" -> 118954
      [] name = "BYZANTINE MUSICAL SYMBOL MARTYRIA PLAGIOS ICHOS" -> 118955
      [] name = "BYZANTINE MUSICAL SYMBOL ISAKIA TELOUS ICHIMATOS" -> 118956
      [] name = "BYZANTINE MUSICAL SYMBOL APOSTROFOI TELOUS ICHIMATOS" -> 118957
      [] name = "BYZANTINE MUSICAL SYMBOL FANEROSIS TETRAFONIAS" -> 118958
      [] name = "BYZANTINE MUSICAL SYMBOL FANEROSIS MONOFONIAS" -> 118959
      [] name = "BYZANTINE MUSICAL SYMBOL FANEROSIS DIFONIAS" -> 118960
      [] name = "BYZANTINE MUSICAL SYMBOL MARTYRIA VARYS ICHOS" -> 118961
      [] name = "BYZANTINE MUSICAL SYMBOL MARTYRIA PROTOVARYS ICHOS" -> 118962
      [] name = "BYZANTINE MUSICAL SYMBOL MARTYRIA PLAGIOS TETARTOS ICHOS" -> 118963
      [] name = "BYZANTINE MUSICAL SYMBOL GORTHMIKON N APLOUN" -> 118964
      [] name = "BYZANTINE MUSICAL SYMBOL GORTHMIKON N DIPLOUN" -> 118965
      [] name = "BYZANTINE MUSICAL SYMBOL ENARXIS KAI FTHORA VOU" -> 118966
      [] name = "BYZANTINE MUSICAL SYMBOL IMIFONON" -> 118967
      [] name = "BYZANTINE MUSICAL SYMBOL IMIFTHORON" -> 118968
      [] name = "BYZANTINE MUSICAL SYMBOL FTHORA ARCHAION DEYTEROU ICHOU" -> 118969
      [] name = "BYZANTINE MUSICAL SYMBOL FTHORA DIATONIKI PA" -> 118970
      [] name = "BYZANTINE MUSICAL SYMBOL FTHORA DIATONIKI NANA" -> 118971
      [] name = "BYZANTINE MUSICAL SYMBOL FTHORA NAOS ICHOS" -> 118972
      [] name = "BYZANTINE MUSICAL SYMBOL FTHORA DIATONIKI DI" -> 118973
      [] name = "BYZANTINE MUSICAL SYMBOL FTHORA SKLIRON DIATONON DI" -> 118974
      [] name = "BYZANTINE MUSICAL SYMBOL FTHORA DIATONIKI KE" -> 118975
      [] name = "BYZANTINE MUSICAL SYMBOL FTHORA DIATONIKI ZO" -> 118976
      [] name = "BYZANTINE MUSICAL SYMBOL FTHORA DIATONIKI NI KATO" -> 118977
      [] name = "BYZANTINE MUSICAL SYMBOL FTHORA DIATONIKI NI ANO" -> 118978
      [] name = "BYZANTINE MUSICAL SYMBOL FTHORA MALAKON CHROMA DIFONIAS" -> 118979
      [] name = "BYZANTINE MUSICAL SYMBOL FTHORA MALAKON CHROMA MONOFONIAS" -> 118980
      [] name = "BYZANTINE MUSICAL SYMBOL FHTORA SKLIRON CHROMA VASIS" -> 118981
      [] name = "BYZANTINE MUSICAL SYMBOL FTHORA SKLIRON CHROMA VASIS" -> 118981
      [] name = "BYZANTINE MUSICAL SYMBOL FTHORA SKLIRON CHROMA SYNAFI" -> 118982
      [] name = "BYZANTINE MUSICAL SYMBOL FTHORA NENANO" -> 118983
      [] name = "BYZANTINE MUSICAL SYMBOL CHROA ZYGOS" -> 118984
      [] name = "BYZANTINE MUSICAL SYMBOL CHROA KLITON" -> 118985
      [] name = "BYZANTINE MUSICAL SYMBOL CHROA SPATHI" -> 118986
      [] name = "BYZANTINE MUSICAL SYMBOL FTHORA I YFESIS TETARTIMORION" -> 118987
      [] name = "BYZANTINE MUSICAL SYMBOL FTHORA ENARMONIOS ANTIFONIA" -> 118988
      [] name = "BYZANTINE MUSICAL SYMBOL YFESIS TRITIMORION" -> 118989
      [] name = "BYZANTINE MUSICAL SYMBOL DIESIS TRITIMORION" -> 118990
      [] name = "BYZANTINE MUSICAL SYMBOL DIESIS TETARTIMORION" -> 118991
      [] name = "BYZANTINE MUSICAL SYMBOL DIESIS APLI DYO DODEKATA" -> 118992
      [] name = "BYZANTINE MUSICAL SYMBOL DIESIS MONOGRAMMOS TESSERA DODEKATA" -> 118993
      [] name = "BYZANTINE MUSICAL SYMBOL DIESIS DIGRAMMOS EX DODEKATA" -> 118994
      [] name = "BYZANTINE MUSICAL SYMBOL DIESIS TRIGRAMMOS OKTO DODEKATA" -> 118995
      [] name = "BYZANTINE MUSICAL SYMBOL YFESIS APLI DYO DODEKATA" -> 118996
      [] name = "BYZANTINE MUSICAL SYMBOL YFESIS MONOGRAMMOS TESSERA DODEKATA" -> 118997
      [] name = "BYZANTINE MUSICAL SYMBOL YFESIS DIGRAMMOS EX DODEKATA" -> 118998
      [] name = "BYZANTINE MUSICAL SYMBOL YFESIS TRIGRAMMOS OKTO DODEKATA" -> 118999
      [] name = "BYZANTINE MUSICAL SYMBOL GENIKI DIESIS" -> 119000
      [] name = "BYZANTINE MUSICAL SYMBOL GENIKI YFESIS" -> 119001
      [] name = "BYZANTINE MUSICAL SYMBOL DIASTOLI APLI MIKRI" -> 119002
      [] name = "BYZANTINE MUSICAL SYMBOL DIASTOLI APLI MEGALI" -> 119003
      [] name = "BYZANTINE MUSICAL SYMBOL DIASTOLI DIPLI" -> 119004
      [] name = "BYZANTINE MUSICAL SYMBOL DIASTOLI THESEOS" -> 119005
      [] name = "BYZANTINE MUSICAL SYMBOL SIMANSIS THESEOS" -> 119006
      [] name = "BYZANTINE MUSICAL SYMBOL SIMANSIS THESEOS DISIMOU" -> 119007
      [] name = "BYZANTINE MUSICAL SYMBOL SIMANSIS THESEOS TRISIMOU" -> 119008
      [] name = "BYZANTINE MUSICAL SYMBOL SIMANSIS THESEOS TETRASIMOU" -> 119009
      [] name = "BYZANTINE MUSICAL SYMBOL SIMANSIS ARSEOS" -> 119010
      [] name = "BYZANTINE MUSICAL SYMBOL SIMANSIS ARSEOS DISIMOU" -> 119011
      [] name = "BYZANTINE MUSICAL SYMBOL SIMANSIS ARSEOS TRISIMOU" -> 119012
      [] name = "BYZANTINE MUSICAL SYMBOL SIMANSIS ARSEOS TETRASIMOU" -> 119013
      [] name = "BYZANTINE MUSICAL SYMBOL DIGRAMMA GG" -> 119014
      [] name = "BYZANTINE MUSICAL SYMBOL DIFTOGGOS OU" -> 119015
      [] name = "BYZANTINE MUSICAL SYMBOL STIGMA" -> 119016
      [] name = "BYZANTINE MUSICAL SYMBOL ARKTIKO PA" -> 119017
      [] name = "BYZANTINE MUSICAL SYMBOL ARKTIKO VOU" -> 119018
      [] name = "BYZANTINE MUSICAL SYMBOL ARKTIKO GA" -> 119019
      [] name = "BYZANTINE MUSICAL SYMBOL ARKTIKO DI" -> 119020
      [] name = "BYZANTINE MUSICAL SYMBOL ARKTIKO KE" -> 119021
      [] name = "BYZANTINE MUSICAL SYMBOL ARKTIKO ZO" -> 119022
      [] name = "BYZANTINE MUSICAL SYMBOL ARKTIKO NI" -> 119023
      [] name = "BYZANTINE MUSICAL SYMBOL KENTIMATA NEO MESO" -> 119024
      [] name = "BYZANTINE MUSICAL SYMBOL KENTIMA NEO MESO" -> 119025
      [] name = "BYZANTINE MUSICAL SYMBOL KENTIMATA NEO KATO" -> 119026
      [] name = "BYZANTINE MUSICAL SYMBOL KENTIMA NEO KATO" -> 119027
      [] name = "BYZANTINE MUSICAL SYMBOL KLASMA KATO" -> 119028
      [] name = "BYZANTINE MUSICAL SYMBOL GORGON NEO KATO" -> 119029
      [] name = "MUSICAL SYMBOL SINGLE BARLINE" -> 119040
      [] name = "MUSICAL SYMBOL DOUBLE BARLINE" -> 119041
      [] name = "MUSICAL SYMBOL FINAL BARLINE" -> 119042
      [] name = "MUSICAL SYMBOL REVERSE FINAL BARLINE" -> 119043
      [] name = "MUSICAL SYMBOL DASHED BARLINE" -> 119044
      [] name = "MUSICAL SYMBOL SHORT BARLINE" -> 119045
      [] name = "MUSICAL SYMBOL LEFT REPEAT SIGN" -> 119046
      [] name = "MUSICAL SYMBOL RIGHT REPEAT SIGN" -> 119047
      [] name = "MUSICAL SYMBOL REPEAT DOTS" -> 119048
      [] name = "MUSICAL SYMBOL DAL SEGNO" -> 119049
      [] name = "MUSICAL SYMBOL DA CAPO" -> 119050
      [] name = "MUSICAL SYMBOL SEGNO" -> 119051
      [] name = "MUSICAL SYMBOL CODA" -> 119052
      [] name = "MUSICAL SYMBOL REPEATED FIGURE-1" -> 119053
      [] name = "MUSICAL SYMBOL REPEATED FIGURE-2" -> 119054
      [] name = "MUSICAL SYMBOL REPEATED FIGURE-3" -> 119055
      [] name = "MUSICAL SYMBOL FERMATA" -> 119056
      [] name = "MUSICAL SYMBOL FERMATA BELOW" -> 119057
      [] name = "MUSICAL SYMBOL BREATH MARK" -> 119058
      [] name = "MUSICAL SYMBOL CAESURA" -> 119059
      [] name = "MUSICAL SYMBOL BRACE" -> 119060
      [] name = "MUSICAL SYMBOL BRACKET" -> 119061
      [] name = "MUSICAL SYMBOL ONE-LINE STAFF" -> 119062
      [] name = "MUSICAL SYMBOL TWO-LINE STAFF" -> 119063
      [] name = "MUSICAL SYMBOL THREE-LINE STAFF" -> 119064
      [] name = "MUSICAL SYMBOL FOUR-LINE STAFF" -> 119065
      [] name = "MUSICAL SYMBOL FIVE-LINE STAFF" -> 119066
      [] name = "MUSICAL SYMBOL SIX-LINE STAFF" -> 119067
      [] name = "MUSICAL SYMBOL SIX-STRING FRETBOARD" -> 119068
      [] name = "MUSICAL SYMBOL FOUR-STRING FRETBOARD" -> 119069
      [] name = "MUSICAL SYMBOL G CLEF" -> 119070
      [] name = "MUSICAL SYMBOL G CLEF OTTAVA ALTA" -> 119071
      [] name = "MUSICAL SYMBOL G CLEF OTTAVA BASSA" -> 119072
      [] name = "MUSICAL SYMBOL C CLEF" -> 119073
      [] name = "MUSICAL SYMBOL F CLEF" -> 119074
      [] name = "MUSICAL SYMBOL F CLEF OTTAVA ALTA" -> 119075
      [] name = "MUSICAL SYMBOL F CLEF OTTAVA BASSA" -> 119076
      [] name = "MUSICAL SYMBOL DRUM CLEF-1" -> 119077
      [] name = "MUSICAL SYMBOL DRUM CLEF-2" -> 119078
      [] name = "MUSICAL SYMBOL MULTIPLE MEASURE REST" -> 119081
      [] name = "MUSICAL SYMBOL DOUBLE SHARP" -> 119082
      [] name = "MUSICAL SYMBOL DOUBLE FLAT" -> 119083
      [] name = "MUSICAL SYMBOL FLAT UP" -> 119084
      [] name = "MUSICAL SYMBOL FLAT DOWN" -> 119085
      [] name = "MUSICAL SYMBOL NATURAL UP" -> 119086
      [] name = "MUSICAL SYMBOL NATURAL DOWN" -> 119087
      [] name = "MUSICAL SYMBOL SHARP UP" -> 119088
      [] name = "MUSICAL SYMBOL SHARP DOWN" -> 119089
      [] name = "MUSICAL SYMBOL QUARTER TONE SHARP" -> 119090
      [] name = "MUSICAL SYMBOL QUARTER TONE FLAT" -> 119091
      [] name = "MUSICAL SYMBOL COMMON TIME" -> 119092
      [] name = "MUSICAL SYMBOL CUT TIME" -> 119093
      [] name = "MUSICAL SYMBOL OTTAVA ALTA" -> 119094
      [] name = "MUSICAL SYMBOL OTTAVA BASSA" -> 119095
      [] name = "MUSICAL SYMBOL QUINDICESIMA ALTA" -> 119096
      [] name = "MUSICAL SYMBOL QUINDICESIMA BASSA" -> 119097
      [] name = "MUSICAL SYMBOL MULTI REST" -> 119098
      [] name = "MUSICAL SYMBOL WHOLE REST" -> 119099
      [] name = "MUSICAL SYMBOL HALF REST" -> 119100
      [] name = "MUSICAL SYMBOL QUARTER REST" -> 119101
      [] name = "MUSICAL SYMBOL EIGHTH REST" -> 119102
      [] name = "MUSICAL SYMBOL SIXTEENTH REST" -> 119103
      [] name = "MUSICAL SYMBOL THIRTY-SECOND REST" -> 119104
      [] name = "MUSICAL SYMBOL SIXTY-FOURTH REST" -> 119105
      [] name = "MUSICAL SYMBOL ONE HUNDRED TWENTY-EIGHTH REST" -> 119106
      [] name = "MUSICAL SYMBOL X NOTEHEAD" -> 119107
      [] name = "MUSICAL SYMBOL PLUS NOTEHEAD" -> 119108
      [] name = "MUSICAL SYMBOL CIRCLE X NOTEHEAD" -> 119109
      [] name = "MUSICAL SYMBOL SQUARE NOTEHEAD WHITE" -> 119110
      [] name = "MUSICAL SYMBOL SQUARE NOTEHEAD BLACK" -> 119111
      [] name = "MUSICAL SYMBOL TRIANGLE NOTEHEAD UP WHITE" -> 119112
      [] name = "MUSICAL SYMBOL TRIANGLE NOTEHEAD UP BLACK" -> 119113
      [] name = "MUSICAL SYMBOL TRIANGLE NOTEHEAD LEFT WHITE" -> 119114
      [] name = "MUSICAL SYMBOL TRIANGLE NOTEHEAD LEFT BLACK" -> 119115
      [] name = "MUSICAL SYMBOL TRIANGLE NOTEHEAD RIGHT WHITE" -> 119116
      [] name = "MUSICAL SYMBOL TRIANGLE NOTEHEAD RIGHT BLACK" -> 119117
      [] name = "MUSICAL SYMBOL TRIANGLE NOTEHEAD DOWN WHITE" -> 119118
      [] name = "MUSICAL SYMBOL TRIANGLE NOTEHEAD DOWN BLACK" -> 119119
      [] name = "MUSICAL SYMBOL TRIANGLE NOTEHEAD UP RIGHT WHITE" -> 119120
      [] name = "MUSICAL SYMBOL TRIANGLE NOTEHEAD UP RIGHT BLACK" -> 119121
      [] name = "MUSICAL SYMBOL MOON NOTEHEAD WHITE" -> 119122
      [] name = "MUSICAL SYMBOL MOON NOTEHEAD BLACK" -> 119123
      [] name = "MUSICAL SYMBOL TRIANGLE-ROUND NOTEHEAD DOWN WHITE" -> 119124
      [] name = "MUSICAL SYMBOL TRIANGLE-ROUND NOTEHEAD DOWN BLACK" -> 119125
      [] name = "MUSICAL SYMBOL PARENTHESIS NOTEHEAD" -> 119126
      [] name = "MUSICAL SYMBOL VOID NOTEHEAD" -> 119127
      [] name = "MUSICAL SYMBOL NOTEHEAD BLACK" -> 119128
      [] name = "MUSICAL SYMBOL NULL NOTEHEAD" -> 119129
      [] name = "MUSICAL SYMBOL CLUSTER NOTEHEAD WHITE" -> 119130
      [] name = "MUSICAL SYMBOL CLUSTER NOTEHEAD BLACK" -> 119131
      [] name = "MUSICAL SYMBOL BREVE" -> 119132
      [] name = "MUSICAL SYMBOL WHOLE NOTE" -> 119133
      [] name = "MUSICAL SYMBOL HALF NOTE" -> 119134
      [] name = "MUSICAL SYMBOL QUARTER NOTE" -> 119135
      [] name = "MUSICAL SYMBOL EIGHTH NOTE" -> 119136
      [] name = "MUSICAL SYMBOL SIXTEENTH NOTE" -> 119137
      [] name = "MUSICAL SYMBOL THIRTY-SECOND NOTE" -> 119138
      [] name = "MUSICAL SYMBOL SIXTY-FOURTH NOTE" -> 119139
      [] name = "MUSICAL SYMBOL ONE HUNDRED TWENTY-EIGHTH NOTE" -> 119140
      [] name = "MUSICAL SYMBOL COMBINING STEM" -> 119141
      [] name = "MUSICAL SYMBOL COMBINING SPRECHGESANG STEM" -> 119142
      [] name = "MUSICAL SYMBOL COMBINING TREMOLO-1" -> 119143
      [] name = "MUSICAL SYMBOL COMBINING TREMOLO-2" -> 119144
      [] name = "MUSICAL SYMBOL COMBINING TREMOLO-3" -> 119145
      [] name = "MUSICAL SYMBOL FINGERED TREMOLO-1" -> 119146
      [] name = "MUSICAL SYMBOL FINGERED TREMOLO-2" -> 119147
      [] name = "MUSICAL SYMBOL FINGERED TREMOLO-3" -> 119148
      [] name = "MUSICAL SYMBOL COMBINING AUGMENTATION DOT" -> 119149
      [] name = "MUSICAL SYMBOL COMBINING FLAG-1" -> 119150
      [] name = "MUSICAL SYMBOL COMBINING FLAG-2" -> 119151
      [] name = "MUSICAL SYMBOL COMBINING FLAG-3" -> 119152
      [] name = "MUSICAL SYMBOL COMBINING FLAG-4" -> 119153
      [] name = "MUSICAL SYMBOL COMBINING FLAG-5" -> 119154
      [] name = "MUSICAL SYMBOL BEGIN BEAM" -> 119155
      [] name = "MUSICAL SYMBOL END BEAM" -> 119156
      [] name = "MUSICAL SYMBOL BEGIN TIE" -> 119157
      [] name = "MUSICAL SYMBOL END TIE" -> 119158
      [] name = "MUSICAL SYMBOL BEGIN SLUR" -> 119159
      [] name = "MUSICAL SYMBOL END SLUR" -> 119160
      [] name = "MUSICAL SYMBOL BEGIN PHRASE" -> 119161
      [] name = "MUSICAL SYMBOL END PHRASE" -> 119162
      [] name = "MUSICAL SYMBOL COMBINING ACCENT" -> 119163
      [] name = "MUSICAL SYMBOL COMBINING STACCATO" -> 119164
      [] name = "MUSICAL SYMBOL COMBINING TENUTO" -> 119165
      [] name = "MUSICAL SYMBOL COMBINING STACCATISSIMO" -> 119166
      [] name = "MUSICAL SYMBOL COMBINING MARCATO" -> 119167
      [] name = "MUSICAL SYMBOL COMBINING MARCATO-STACCATO" -> 119168
      [] name = "MUSICAL SYMBOL COMBINING ACCENT-STACCATO" -> 119169
      [] name = "MUSICAL SYMBOL COMBINING LOURE" -> 119170
      [] name = "MUSICAL SYMBOL ARPEGGIATO UP" -> 119171
      [] name = "MUSICAL SYMBOL ARPEGGIATO DOWN" -> 119172
      [] name = "MUSICAL SYMBOL COMBINING DOIT" -> 119173
      [] name = "MUSICAL SYMBOL COMBINING RIP" -> 119174
      [] name = "MUSICAL SYMBOL COMBINING FLIP" -> 119175
      [] name = "MUSICAL SYMBOL COMBINING SMEAR" -> 119176
      [] name = "MUSICAL SYMBOL COMBINING BEND" -> 119177
      [] name = "MUSICAL SYMBOL COMBINING DOUBLE TONGUE" -> 119178
      [] name = "MUSICAL SYMBOL COMBINING TRIPLE TONGUE" -> 119179
      [] name = "MUSICAL SYMBOL RINFORZANDO" -> 119180
      [] name = "MUSICAL SYMBOL SUBITO" -> 119181
      [] name = "MUSICAL SYMBOL Z" -> 119182
      [] name = "MUSICAL SYMBOL PIANO" -> 119183
      [] name = "MUSICAL SYMBOL MEZZO" -> 119184
      [] name = "MUSICAL SYMBOL FORTE" -> 119185
      [] name = "MUSICAL SYMBOL CRESCENDO" -> 119186
      [] name = "MUSICAL SYMBOL DECRESCENDO" -> 119187
      [] name = "MUSICAL SYMBOL GRACE NOTE SLASH" -> 119188
      [] name = "MUSICAL SYMBOL GRACE NOTE NO SLASH" -> 119189
      [] name = "MUSICAL SYMBOL TR" -> 119190
      [] name = "MUSICAL SYMBOL TURN" -> 119191
      [] name = "MUSICAL SYMBOL INVERTED TURN" -> 119192
      [] name = "MUSICAL SYMBOL TURN SLASH" -> 119193
      [] name = "MUSICAL SYMBOL TURN UP" -> 119194
      [] name = "MUSICAL SYMBOL ORNAMENT STROKE-1" -> 119195
      [] name = "MUSICAL SYMBOL ORNAMENT STROKE-2" -> 119196
      [] name = "MUSICAL SYMBOL ORNAMENT STROKE-3" -> 119197
      [] name = "MUSICAL SYMBOL ORNAMENT STROKE-4" -> 119198
      [] name = "MUSICAL SYMBOL ORNAMENT STROKE-5" -> 119199
      [] name = "MUSICAL SYMBOL ORNAMENT STROKE-6" -> 119200
      [] name = "MUSICAL SYMBOL ORNAMENT STROKE-7" -> 119201
      [] name = "MUSICAL SYMBOL ORNAMENT STROKE-8" -> 119202
      [] name = "MUSICAL SYMBOL ORNAMENT STROKE-9" -> 119203
      [] name = "MUSICAL SYMBOL ORNAMENT STROKE-10" -> 119204
      [] name = "MUSICAL SYMBOL ORNAMENT STROKE-11" -> 119205
      [] name = "MUSICAL SYMBOL HAUPTSTIMME" -> 119206
      [] name = "MUSICAL SYMBOL NEBENSTIMME" -> 119207
      [] name = "MUSICAL SYMBOL END OF STIMME" -> 119208
      [] name = "MUSICAL SYMBOL DEGREE SLASH" -> 119209
      [] name = "MUSICAL SYMBOL COMBINING DOWN BOW" -> 119210
      [] name = "MUSICAL SYMBOL COMBINING UP BOW" -> 119211
      [] name = "MUSICAL SYMBOL COMBINING HARMONIC" -> 119212
      [] name = "MUSICAL SYMBOL COMBINING SNAP PIZZICATO" -> 119213
      [] name = "MUSICAL SYMBOL PEDAL MARK" -> 119214
      [] name = "MUSICAL SYMBOL PEDAL UP MARK" -> 119215
      [] name = "MUSICAL SYMBOL HALF PEDAL MARK" -> 119216
      [] name = "MUSICAL SYMBOL GLISSANDO UP" -> 119217
      [] name = "MUSICAL SYMBOL GLISSANDO DOWN" -> 119218
      [] name = "MUSICAL SYMBOL WITH FINGERNAILS" -> 119219
      [] name = "MUSICAL SYMBOL DAMP" -> 119220
      [] name = "MUSICAL SYMBOL DAMP ALL" -> 119221
      [] name = "MUSICAL SYMBOL MAXIMA" -> 119222
      [] name = "MUSICAL SYMBOL LONGA" -> 119223
      [] name = "MUSICAL SYMBOL BREVIS" -> 119224
      [] name = "MUSICAL SYMBOL SEMIBREVIS WHITE" -> 119225
      [] name = "MUSICAL SYMBOL SEMIBREVIS BLACK" -> 119226
      [] name = "MUSICAL SYMBOL MINIMA" -> 119227
      [] name = "MUSICAL SYMBOL MINIMA BLACK" -> 119228
      [] name = "MUSICAL SYMBOL SEMIMINIMA WHITE" -> 119229
      [] name = "MUSICAL SYMBOL SEMIMINIMA BLACK" -> 119230
      [] name = "MUSICAL SYMBOL FUSA WHITE" -> 119231
      [] name = "MUSICAL SYMBOL FUSA BLACK" -> 119232
      [] name = "MUSICAL SYMBOL LONGA PERFECTA REST" -> 119233
      [] name = "MUSICAL SYMBOL LONGA IMPERFECTA REST" -> 119234
      [] name = "MUSICAL SYMBOL BREVIS REST" -> 119235
      [] name = "MUSICAL SYMBOL SEMIBREVIS REST" -> 119236
      [] name = "MUSICAL SYMBOL MINIMA REST" -> 119237
      [] name = "MUSICAL SYMBOL SEMIMINIMA REST" -> 119238
      [] name = "MUSICAL SYMBOL TEMPUS PERFECTUM CUM PROLATIONE PERFECTA" -> 119239
      [] name = "MUSICAL SYMBOL TEMPUS PERFECTUM CUM PROLATIONE IMPERFECTA" -> 119240
      [] name = "MUSICAL SYMBOL TEMPUS PERFECTUM CUM PROLATIONE PERFECTA DIMINUTION-1" -> 119241
      [] name = "MUSICAL SYMBOL TEMPUS IMPERFECTUM CUM PROLATIONE PERFECTA" -> 119242
      [] name = "MUSICAL SYMBOL TEMPUS IMPERFECTUM CUM PROLATIONE IMPERFECTA" -> 119243
      [] name = "MUSICAL SYMBOL TEMPUS IMPERFECTUM CUM PROLATIONE IMPERFECTA DIMINUTION-1" -> 119244
      [] name = "MUSICAL SYMBOL TEMPUS IMPERFECTUM CUM PROLATIONE IMPERFECTA DIMINUTION-2" -> 119245
      [] name = "MUSICAL SYMBOL TEMPUS IMPERFECTUM CUM PROLATIONE IMPERFECTA DIMINUTION-3" -> 119246
      [] name = "MUSICAL SYMBOL CROIX" -> 119247
      [] name = "MUSICAL SYMBOL GREGORIAN C CLEF" -> 119248
      [] name = "MUSICAL SYMBOL GREGORIAN F CLEF" -> 119249
      [] name = "MUSICAL SYMBOL SQUARE B" -> 119250
      [] name = "MUSICAL SYMBOL VIRGA" -> 119251
      [] name = "MUSICAL SYMBOL PODATUS" -> 119252
      [] name = "MUSICAL SYMBOL CLIVIS" -> 119253
      [] name = "MUSICAL SYMBOL SCANDICUS" -> 119254
      [] name = "MUSICAL SYMBOL CLIMACUS" -> 119255
      [] name = "MUSICAL SYMBOL TORCULUS" -> 119256
      [] name = "MUSICAL SYMBOL PORRECTUS" -> 119257
      [] name = "MUSICAL SYMBOL PORRECTUS FLEXUS" -> 119258
      [] name = "MUSICAL SYMBOL SCANDICUS FLEXUS" -> 119259
      [] name = "MUSICAL SYMBOL TORCULUS RESUPINUS" -> 119260
      [] name = "MUSICAL SYMBOL PES SUBPUNCTIS" -> 119261
      [] name = "MUSICAL SYMBOL KIEVAN C CLEF" -> 119262
      [] name = "MUSICAL SYMBOL KIEVAN END OF PIECE" -> 119263
      [] name = "MUSICAL SYMBOL KIEVAN FINAL NOTE" -> 119264
      [] name = "MUSICAL SYMBOL KIEVAN RECITATIVE MARK" -> 119265
      [] name = "MUSICAL SYMBOL KIEVAN WHOLE NOTE" -> 119266
      [] name = "MUSICAL SYMBOL KIEVAN HALF NOTE" -> 119267
      [] name = "MUSICAL SYMBOL KIEVAN QUARTER NOTE STEM DOWN" -> 119268
      [] name = "MUSICAL SYMBOL KIEVAN QUARTER NOTE STEM UP" -> 119269
      [] name = "MUSICAL SYMBOL KIEVAN EIGHTH NOTE STEM DOWN" -> 119270
      [] name = "MUSICAL SYMBOL KIEVAN EIGHTH NOTE STEM UP" -> 119271
      [] name = "MUSICAL SYMBOL KIEVAN FLAT SIGN" -> 119272
      [] name = "MUSICAL SYMBOL SORI" -> 119273
      [] name = "MUSICAL SYMBOL KORON" -> 119274
      [] name = "GREEK VOCAL NOTATION SYMBOL-1" -> 119296
      [] name = "GREEK VOCAL NOTATION SYMBOL-2" -> 119297
      [] name = "GREEK VOCAL NOTATION SYMBOL-3" -> 119298
      [] name = "GREEK VOCAL NOTATION SYMBOL-4" -> 119299
      [] name = "GREEK VOCAL NOTATION SYMBOL-5" -> 119300
      [] name = "GREEK VOCAL NOTATION SYMBOL-6" -> 119301
      [] name = "GREEK VOCAL NOTATION SYMBOL-7" -> 119302
      [] name = "GREEK VOCAL NOTATION SYMBOL-8" -> 119303
      [] name = "GREEK VOCAL NOTATION SYMBOL-9" -> 119304
      [] name = "GREEK VOCAL NOTATION SYMBOL-10" -> 119305
      [] name = "GREEK VOCAL NOTATION SYMBOL-11" -> 119306
      [] name = "GREEK VOCAL NOTATION SYMBOL-12" -> 119307
      [] name = "GREEK VOCAL NOTATION SYMBOL-13" -> 119308
      [] name = "GREEK VOCAL NOTATION SYMBOL-14" -> 119309
      [] name = "GREEK VOCAL NOTATION SYMBOL-15" -> 119310
      [] name = "GREEK VOCAL NOTATION SYMBOL-16" -> 119311
      [] name = "GREEK VOCAL NOTATION SYMBOL-17" -> 119312
      [] name = "GREEK VOCAL NOTATION SYMBOL-18" -> 119313
      [] name = "GREEK VOCAL NOTATION SYMBOL-19" -> 119314
      [] name = "GREEK VOCAL NOTATION SYMBOL-20" -> 119315
      [] name = "GREEK VOCAL NOTATION SYMBOL-21" -> 119316
      [] name = "GREEK VOCAL NOTATION SYMBOL-22" -> 119317
      [] name = "GREEK VOCAL NOTATION SYMBOL-23" -> 119318
      [] name = "GREEK VOCAL NOTATION SYMBOL-24" -> 119319
      [] name = "GREEK VOCAL NOTATION SYMBOL-50" -> 119320
      [] name = "GREEK VOCAL NOTATION SYMBOL-51" -> 119321
      [] name = "GREEK VOCAL NOTATION SYMBOL-52" -> 119322
      [] name = "GREEK VOCAL NOTATION SYMBOL-53" -> 119323
      [] name = "GREEK VOCAL NOTATION SYMBOL-54" -> 119324
      [] name = "GREEK INSTRUMENTAL NOTATION SYMBOL-1" -> 119325
      [] name = "GREEK INSTRUMENTAL NOTATION SYMBOL-2" -> 119326
      [] name = "GREEK INSTRUMENTAL NOTATION SYMBOL-4" -> 119327
      [] name = "GREEK INSTRUMENTAL NOTATION SYMBOL-5" -> 119328
      [] name = "GREEK INSTRUMENTAL NOTATION SYMBOL-7" -> 119329
      [] name = "GREEK INSTRUMENTAL NOTATION SYMBOL-8" -> 119330
      [] name = "GREEK INSTRUMENTAL NOTATION SYMBOL-11" -> 119331
      [] name = "GREEK INSTRUMENTAL NOTATION SYMBOL-12" -> 119332
      [] name = "GREEK INSTRUMENTAL NOTATION SYMBOL-13" -> 119333
      [] name = "GREEK INSTRUMENTAL NOTATION SYMBOL-14" -> 119334
      [] name = "GREEK INSTRUMENTAL NOTATION SYMBOL-17" -> 119335
      [] name = "GREEK INSTRUMENTAL NOTATION SYMBOL-18" -> 119336
      [] name = "GREEK INSTRUMENTAL NOTATION SYMBOL-19" -> 119337
      [] name = "GREEK INSTRUMENTAL NOTATION SYMBOL-23" -> 119338
      [] name = "GREEK INSTRUMENTAL NOTATION SYMBOL-24" -> 119339
      [] name = "GREEK INSTRUMENTAL NOTATION SYMBOL-25" -> 119340
      [] name = "GREEK INSTRUMENTAL NOTATION SYMBOL-26" -> 119341
      [] name = "GREEK INSTRUMENTAL NOTATION SYMBOL-27" -> 119342
      [] name = "GREEK INSTRUMENTAL NOTATION SYMBOL-29" -> 119343
      [] name = "GREEK INSTRUMENTAL NOTATION SYMBOL-30" -> 119344
      [] name = "GREEK INSTRUMENTAL NOTATION SYMBOL-32" -> 119345
      [] name = "GREEK INSTRUMENTAL NOTATION SYMBOL-36" -> 119346
      [] name = "GREEK INSTRUMENTAL NOTATION SYMBOL-37" -> 119347
      [] name = "GREEK INSTRUMENTAL NOTATION SYMBOL-38" -> 119348
      [] name = "GREEK INSTRUMENTAL NOTATION SYMBOL-39" -> 119349
      [] name = "GREEK INSTRUMENTAL NOTATION SYMBOL-40" -> 119350
      [] name = "GREEK INSTRUMENTAL NOTATION SYMBOL-42" -> 119351
      [] name = "GREEK INSTRUMENTAL NOTATION SYMBOL-43" -> 119352
      [] name = "GREEK INSTRUMENTAL NOTATION SYMBOL-45" -> 119353
      [] name = "GREEK INSTRUMENTAL NOTATION SYMBOL-47" -> 119354
      [] name = "GREEK INSTRUMENTAL NOTATION SYMBOL-48" -> 119355
      [] name = "GREEK INSTRUMENTAL NOTATION SYMBOL-49" -> 119356
      [] name = "GREEK INSTRUMENTAL NOTATION SYMBOL-50" -> 119357
      [] name = "GREEK INSTRUMENTAL NOTATION SYMBOL-51" -> 119358
      [] name = "GREEK INSTRUMENTAL NOTATION SYMBOL-52" -> 119359
      [] name = "GREEK INSTRUMENTAL NOTATION SYMBOL-53" -> 119360
      [] name = "GREEK INSTRUMENTAL NOTATION SYMBOL-54" -> 119361
      [] name = "COMBINING GREEK MUSICAL TRISEME" -> 119362
      [] name = "COMBINING GREEK MUSICAL TETRASEME" -> 119363
      [] name = "COMBINING GREEK MUSICAL PENTASEME" -> 119364
      [] name = "GREEK MUSICAL LEIMMA" -> 119365
      [] name = "MAYAN NUMERAL ZERO" -> 119520
      [] name = "MAYAN NUMERAL ONE" -> 119521
      [] name = "MAYAN NUMERAL TWO" -> 119522
      [] name = "MAYAN NUMERAL THREE" -> 119523
      [] name = "MAYAN NUMERAL FOUR" -> 119524
      [] name = "MAYAN NUMERAL FIVE" -> 119525
      [] name = "MAYAN NUMERAL SIX" -> 119526
      [] name = "MAYAN NUMERAL SEVEN" -> 119527
      [] name = "MAYAN NUMERAL EIGHT" -> 119528
      [] name = "MAYAN NUMERAL NINE" -> 119529
      [] name = "MAYAN NUMERAL TEN" -> 119530
      [] name = "MAYAN NUMERAL ELEVEN" -> 119531
      [] name = "MAYAN NUMERAL TWELVE" -> 119532
      [] name = "MAYAN NUMERAL THIRTEEN" -> 119533
      [] name = "MAYAN NUMERAL FOURTEEN" -> 119534
      [] name = "MAYAN NUMERAL FIFTEEN" -> 119535
      [] name = "MAYAN NUMERAL SIXTEEN" -> 119536
      [] name = "MAYAN NUMERAL SEVENTEEN" -> 119537
      [] name = "MAYAN NUMERAL EIGHTEEN" -> 119538
      [] name = "MAYAN NUMERAL NINETEEN" -> 119539
      [] name = "MONOGRAM FOR EARTH" -> 119552
      [] name = "DIGRAM FOR HEAVENLY EARTH" -> 119553
      [] name = "DIGRAM FOR HUMAN EARTH" -> 119554
      [] name = "DIGRAM FOR EARTHLY HEAVEN" -> 119555
      [] name = "DIGRAM FOR EARTHLY HUMAN" -> 119556
      [] name = "DIGRAM FOR EARTH" -> 119557
      [] name = "TETRAGRAM FOR CENTRE" -> 119558
      [] name = "TETRAGRAM FOR FULL CIRCLE" -> 119559
      [] name = "TETRAGRAM FOR MIRED" -> 119560
      [] name = "TETRAGRAM FOR BARRIER" -> 119561
      [] name = "TETRAGRAM FOR KEEPING SMALL" -> 119562
      [] name = "TETRAGRAM FOR CONTRARIETY" -> 119563
      [] name = "TETRAGRAM FOR ASCENT" -> 119564
      [] name = "TETRAGRAM FOR OPPOSITION" -> 119565
      [] name = "TETRAGRAM FOR BRANCHING OUT" -> 119566
      [] name = "TETRAGRAM FOR DEFECTIVENESS OR DISTORTION" -> 119567
      [] name = "TETRAGRAM FOR DIVERGENCE" -> 119568
      [] name = "TETRAGRAM FOR YOUTHFULNESS" -> 119569
      [] name = "TETRAGRAM FOR INCREASE" -> 119570
      [] name = "TETRAGRAM FOR PENETRATION" -> 119571
      [] name = "TETRAGRAM FOR REACH" -> 119572
      [] name = "TETRAGRAM FOR CONTACT" -> 119573
      [] name = "TETRAGRAM FOR HOLDING BACK" -> 119574
      [] name = "TETRAGRAM FOR WAITING" -> 119575
      [] name = "TETRAGRAM FOR FOLLOWING" -> 119576
      [] name = "TETRAGRAM FOR ADVANCE" -> 119577
      [] name = "TETRAGRAM FOR RELEASE" -> 119578
      [] name = "TETRAGRAM FOR RESISTANCE" -> 119579
      [] name = "TETRAGRAM FOR EASE" -> 119580
      [] name = "TETRAGRAM FOR JOY" -> 119581
      [] name = "TETRAGRAM FOR CONTENTION" -> 119582
      [] name = "TETRAGRAM FOR ENDEAVOUR" -> 119583
      [] name = "TETRAGRAM FOR DUTIES" -> 119584
      [] name = "TETRAGRAM FOR CHANGE" -> 119585
      [] name = "TETRAGRAM FOR DECISIVENESS" -> 119586
      [] name = "TETRAGRAM FOR BOLD RESOLUTION" -> 119587
      [] name = "TETRAGRAM FOR PACKING" -> 119588
      [] name = "TETRAGRAM FOR LEGION" -> 119589
      [] name = "TETRAGRAM FOR CLOSENESS" -> 119590
      [] name = "TETRAGRAM FOR KINSHIP" -> 119591
      [] name = "TETRAGRAM FOR GATHERING" -> 119592
      [] name = "TETRAGRAM FOR STRENGTH" -> 119593
      [] name = "TETRAGRAM FOR PURITY" -> 119594
      [] name = "TETRAGRAM FOR FULLNESS" -> 119595
      [] name = "TETRAGRAM FOR RESIDENCE" -> 119596
      [] name = "TETRAGRAM FOR LAW OR MODEL" -> 119597
      [] name = "TETRAGRAM FOR RESPONSE" -> 119598
      [] name = "TETRAGRAM FOR GOING TO MEET" -> 119599
      [] name = "TETRAGRAM FOR ENCOUNTERS" -> 119600
      [] name = "TETRAGRAM FOR STOVE" -> 119601
      [] name = "TETRAGRAM FOR GREATNESS" -> 119602
      [] name = "TETRAGRAM FOR ENLARGEMENT" -> 119603
      [] name = "TETRAGRAM FOR PATTERN" -> 119604
      [] name = "TETRAGRAM FOR RITUAL" -> 119605
      [] name = "TETRAGRAM FOR FLIGHT" -> 119606
      [] name = "TETRAGRAM FOR VASTNESS OR WASTING" -> 119607
      [] name = "TETRAGRAM FOR CONSTANCY" -> 119608
      [] name = "TETRAGRAM FOR MEASURE" -> 119609
      [] name = "TETRAGRAM FOR ETERNITY" -> 119610
      [] name = "TETRAGRAM FOR UNITY" -> 119611
      [] name = "TETRAGRAM FOR DIMINISHMENT" -> 119612
      [] name = "TETRAGRAM FOR CLOSED MOUTH" -> 119613
      [] name = "TETRAGRAM FOR GUARDEDNESS" -> 119614
      [] name = "TETRAGRAM FOR GATHERING IN" -> 119615
      [] name = "TETRAGRAM FOR MASSING" -> 119616
      [] name = "TETRAGRAM FOR ACCUMULATION" -> 119617
      [] name = "TETRAGRAM FOR EMBELLISHMENT" -> 119618
      [] name = "TETRAGRAM FOR DOUBT" -> 119619
      [] name = "TETRAGRAM FOR WATCH" -> 119620
      [] name = "TETRAGRAM FOR SINKING" -> 119621
      [] name = "TETRAGRAM FOR INNER" -> 119622
      [] name = "TETRAGRAM FOR DEPARTURE" -> 119623
      [] name = "TETRAGRAM FOR DARKENING" -> 119624
      [] name = "TETRAGRAM FOR DIMMING" -> 119625
      [] name = "TETRAGRAM FOR EXHAUSTION" -> 119626
      [] name = "TETRAGRAM FOR SEVERANCE" -> 119627
      [] name = "TETRAGRAM FOR STOPPAGE" -> 119628
      [] name = "TETRAGRAM FOR HARDNESS" -> 119629
      [] name = "TETRAGRAM FOR COMPLETION" -> 119630
      [] name = "TETRAGRAM FOR CLOSURE" -> 119631
      [] name = "TETRAGRAM FOR FAILURE" -> 119632
      [] name = "TETRAGRAM FOR AGGRAVATION" -> 119633
      [] name = "TETRAGRAM FOR COMPLIANCE" -> 119634
      [] name = "TETRAGRAM FOR ON THE VERGE" -> 119635
      [] name = "TETRAGRAM FOR DIFFICULTIES" -> 119636
      [] name = "TETRAGRAM FOR LABOURING" -> 119637
      [] name = "TETRAGRAM FOR FOSTERING" -> 119638
      [] name = "COUNTING ROD UNIT DIGIT ONE" -> 119648
      [] name = "COUNTING ROD UNIT DIGIT TWO" -> 119649
      [] name = "COUNTING ROD UNIT DIGIT THREE" -> 119650
      [] name = "COUNTING ROD UNIT DIGIT FOUR" -> 119651
      [] name = "COUNTING ROD UNIT DIGIT FIVE" -> 119652
      [] name = "COUNTING ROD UNIT DIGIT SIX" -> 119653
      [] name = "COUNTING ROD UNIT DIGIT SEVEN" -> 119654
      [] name = "COUNTING ROD UNIT DIGIT EIGHT" -> 119655
      [] name = "COUNTING ROD UNIT DIGIT NINE" -> 119656
      [] name = "COUNTING ROD TENS DIGIT ONE" -> 119657
      [] name = "COUNTING ROD TENS DIGIT TWO" -> 119658
      [] name = "COUNTING ROD TENS DIGIT THREE" -> 119659
      [] name = "COUNTING ROD TENS DIGIT FOUR" -> 119660
      [] name = "COUNTING ROD TENS DIGIT FIVE" -> 119661
      [] name = "COUNTING ROD TENS DIGIT SIX" -> 119662
      [] name = "COUNTING ROD TENS DIGIT SEVEN" -> 119663
      [] name = "COUNTING ROD TENS DIGIT EIGHT" -> 119664
      [] name = "COUNTING ROD TENS DIGIT NINE" -> 119665
      [] name = "IDEOGRAPHIC TALLY MARK ONE" -> 119666
      [] name = "IDEOGRAPHIC TALLY MARK TWO" -> 119667
      [] name = "IDEOGRAPHIC TALLY MARK THREE" -> 119668
      [] name = "IDEOGRAPHIC TALLY MARK FOUR" -> 119669
      [] name = "IDEOGRAPHIC TALLY MARK FIVE" -> 119670
      [] name = "TALLY MARK ONE" -> 119671
      [] name = "TALLY MARK FIVE" -> 119672
      [] name = "MATHEMATICAL BOLD CAPITAL A" -> 119808
      [] name = "MATHEMATICAL BOLD CAPITAL B" -> 119809
      [] name = "MATHEMATICAL BOLD CAPITAL C" -> 119810
      [] name = "MATHEMATICAL BOLD CAPITAL D" -> 119811
      [] name = "MATHEMATICAL BOLD CAPITAL E" -> 119812
      [] name = "MATHEMATICAL BOLD CAPITAL F" -> 119813
      [] name = "MATHEMATICAL BOLD CAPITAL G" -> 119814
      [] name = "MATHEMATICAL BOLD CAPITAL H" -> 119815
      [] name = "MATHEMATICAL BOLD CAPITAL I" -> 119816
      [] name = "MATHEMATICAL BOLD CAPITAL J" -> 119817
      [] name = "MATHEMATICAL BOLD CAPITAL K" -> 119818
      [] name = "MATHEMATICAL BOLD CAPITAL L" -> 119819
      [] name = "MATHEMATICAL BOLD CAPITAL M" -> 119820
      [] name = "MATHEMATICAL BOLD CAPITAL N" -> 119821
      [] name = "MATHEMATICAL BOLD CAPITAL O" -> 119822
      [] name = "MATHEMATICAL BOLD CAPITAL P" -> 119823
      [] name = "MATHEMATICAL BOLD CAPITAL Q" -> 119824
      [] name = "MATHEMATICAL BOLD CAPITAL R" -> 119825
      [] name = "MATHEMATICAL BOLD CAPITAL S" -> 119826
      [] name = "MATHEMATICAL BOLD CAPITAL T" -> 119827
      [] name = "MATHEMATICAL BOLD CAPITAL U" -> 119828
      [] name = "MATHEMATICAL BOLD CAPITAL V" -> 119829
      [] name = "MATHEMATICAL BOLD CAPITAL W" -> 119830
      [] name = "MATHEMATICAL BOLD CAPITAL X" -> 119831
      [] name = "MATHEMATICAL BOLD CAPITAL Y" -> 119832
      [] name = "MATHEMATICAL BOLD CAPITAL Z" -> 119833
      [] name = "MATHEMATICAL BOLD SMALL A" -> 119834
      [] name = "MATHEMATICAL BOLD SMALL B" -> 119835
      [] name = "MATHEMATICAL BOLD SMALL C" -> 119836
      [] name = "MATHEMATICAL BOLD SMALL D" -> 119837
      [] name = "MATHEMATICAL BOLD SMALL E" -> 119838
      [] name = "MATHEMATICAL BOLD SMALL F" -> 119839
      [] name = "MATHEMATICAL BOLD SMALL G" -> 119840
      [] name = "MATHEMATICAL BOLD SMALL H" -> 119841
      [] name = "MATHEMATICAL BOLD SMALL I" -> 119842
      [] name = "MATHEMATICAL BOLD SMALL J" -> 119843
      [] name = "MATHEMATICAL BOLD SMALL K" -> 119844
      [] name = "MATHEMATICAL BOLD SMALL L" -> 119845
      [] name = "MATHEMATICAL BOLD SMALL M" -> 119846
      [] name = "MATHEMATICAL BOLD SMALL N" -> 119847
      [] name = "MATHEMATICAL BOLD SMALL O" -> 119848
      [] name = "MATHEMATICAL BOLD SMALL P" -> 119849
      [] name = "MATHEMATICAL BOLD SMALL Q" -> 119850
      [] name = "MATHEMATICAL BOLD SMALL R" -> 119851
      [] name = "MATHEMATICAL BOLD SMALL S" -> 119852
      [] name = "MATHEMATICAL BOLD SMALL T" -> 119853
      [] name = "MATHEMATICAL BOLD SMALL U" -> 119854
      [] name = "MATHEMATICAL BOLD SMALL V" -> 119855
      [] name = "MATHEMATICAL BOLD SMALL W" -> 119856
      [] name = "MATHEMATICAL BOLD SMALL X" -> 119857
      [] name = "MATHEMATICAL BOLD SMALL Y" -> 119858
      [] name = "MATHEMATICAL BOLD SMALL Z" -> 119859
      [] name = "MATHEMATICAL ITALIC CAPITAL A" -> 119860
      [] name = "MATHEMATICAL ITALIC CAPITAL B" -> 119861
      [] name = "MATHEMATICAL ITALIC CAPITAL C" -> 119862
      [] name = "MATHEMATICAL ITALIC CAPITAL D" -> 119863
      [] name = "MATHEMATICAL ITALIC CAPITAL E" -> 119864
      [] name = "MATHEMATICAL ITALIC CAPITAL F" -> 119865
      [] name = "MATHEMATICAL ITALIC CAPITAL G" -> 119866
      [] name = "MATHEMATICAL ITALIC CAPITAL H" -> 119867
      [] name = "MATHEMATICAL ITALIC CAPITAL I" -> 119868
      [] name = "MATHEMATICAL ITALIC CAPITAL J" -> 119869
      [] name = "MATHEMATICAL ITALIC CAPITAL K" -> 119870
      [] name = "MATHEMATICAL ITALIC CAPITAL L" -> 119871
      [] name = "MATHEMATICAL ITALIC CAPITAL M" -> 119872
      [] name = "MATHEMATICAL ITALIC CAPITAL N" -> 119873
      [] name = "MATHEMATICAL ITALIC CAPITAL O" -> 119874
      [] name = "MATHEMATICAL ITALIC CAPITAL P" -> 119875
      [] name = "MATHEMATICAL ITALIC CAPITAL Q" -> 119876
      [] name = "MATHEMATICAL ITALIC CAPITAL R" -> 119877
      [] name = "MATHEMATICAL ITALIC CAPITAL S" -> 119878
      [] name = "MATHEMATICAL ITALIC CAPITAL T" -> 119879
      [] name = "MATHEMATICAL ITALIC CAPITAL U" -> 119880
      [] name = "MATHEMATICAL ITALIC CAPITAL V" -> 119881
      [] name = "MATHEMATICAL ITALIC CAPITAL W" -> 119882
      [] name = "MATHEMATICAL ITALIC CAPITAL X" -> 119883
      [] name = "MATHEMATICAL ITALIC CAPITAL Y" -> 119884
      [] name = "MATHEMATICAL ITALIC CAPITAL Z" -> 119885
      [] name = "MATHEMATICAL ITALIC SMALL A" -> 119886
      [] name = "MATHEMATICAL ITALIC SMALL B" -> 119887
      [] name = "MATHEMATICAL ITALIC SMALL C" -> 119888
      [] name = "MATHEMATICAL ITALIC SMALL D" -> 119889
      [] name = "MATHEMATICAL ITALIC SMALL E" -> 119890
      [] name = "MATHEMATICAL ITALIC SMALL F" -> 119891
      [] name = "MATHEMATICAL ITALIC SMALL G" -> 119892
      [] name = "MATHEMATICAL ITALIC SMALL I" -> 119894
      [] name = "MATHEMATICAL ITALIC SMALL J" -> 119895
      [] name = "MATHEMATICAL ITALIC SMALL K" -> 119896
      [] name = "MATHEMATICAL ITALIC SMALL L" -> 119897
      [] name = "MATHEMATICAL ITALIC SMALL M" -> 119898
      [] name = "MATHEMATICAL ITALIC SMALL N" -> 119899
      [] name = "MATHEMATICAL ITALIC SMALL O" -> 119900
      [] name = "MATHEMATICAL ITALIC SMALL P" -> 119901
      [] name = "MATHEMATICAL ITALIC SMALL Q" -> 119902
      [] name = "MATHEMATICAL ITALIC SMALL R" -> 119903
      [] name = "MATHEMATICAL ITALIC SMALL S" -> 119904
      [] name = "MATHEMATICAL ITALIC SMALL T" -> 119905
      [] name = "MATHEMATICAL ITALIC SMALL U" -> 119906
      [] name = "MATHEMATICAL ITALIC SMALL V" -> 119907
      [] name = "MATHEMATICAL ITALIC SMALL W" -> 119908
      [] name = "MATHEMATICAL ITALIC SMALL X" -> 119909
      [] name = "MATHEMATICAL ITALIC SMALL Y" -> 119910
      [] name = "MATHEMATICAL ITALIC SMALL Z" -> 119911
      [] name = "MATHEMATICAL BOLD ITALIC CAPITAL A" -> 119912
      [] name = "MATHEMATICAL BOLD ITALIC CAPITAL B" -> 119913
      [] name = "MATHEMATICAL BOLD ITALIC CAPITAL C" -> 119914
      [] name = "MATHEMATICAL BOLD ITALIC CAPITAL D" -> 119915
      [] name = "MATHEMATICAL BOLD ITALIC CAPITAL E" -> 119916
      [] name = "MATHEMATICAL BOLD ITALIC CAPITAL F" -> 119917
      [] name = "MATHEMATICAL BOLD ITALIC CAPITAL G" -> 119918
      [] name = "MATHEMATICAL BOLD ITALIC CAPITAL H" -> 119919
      [] name = "MATHEMATICAL BOLD ITALIC CAPITAL I" -> 119920
      [] name = "MATHEMATICAL BOLD ITALIC CAPITAL J" -> 119921
      [] name = "MATHEMATICAL BOLD ITALIC CAPITAL K" -> 119922
      [] name = "MATHEMATICAL BOLD ITALIC CAPITAL L" -> 119923
      [] name = "MATHEMATICAL BOLD ITALIC CAPITAL M" -> 119924
      [] name = "MATHEMATICAL BOLD ITALIC CAPITAL N" -> 119925
      [] name = "MATHEMATICAL BOLD ITALIC CAPITAL O" -> 119926
      [] name = "MATHEMATICAL BOLD ITALIC CAPITAL P" -> 119927
      [] name = "MATHEMATICAL BOLD ITALIC CAPITAL Q" -> 119928
      [] name = "MATHEMATICAL BOLD ITALIC CAPITAL R" -> 119929
      [] name = "MATHEMATICAL BOLD ITALIC CAPITAL S" -> 119930
      [] name = "MATHEMATICAL BOLD ITALIC CAPITAL T" -> 119931
      [] name = "MATHEMATICAL BOLD ITALIC CAPITAL U" -> 119932
      [] name = "MATHEMATICAL BOLD ITALIC CAPITAL V" -> 119933
      [] name = "MATHEMATICAL BOLD ITALIC CAPITAL W" -> 119934
      [] name = "MATHEMATICAL BOLD ITALIC CAPITAL X" -> 119935
      [] name = "MATHEMATICAL BOLD ITALIC CAPITAL Y" -> 119936
      [] name = "MATHEMATICAL BOLD ITALIC CAPITAL Z" -> 119937
      [] name = "MATHEMATICAL BOLD ITALIC SMALL A" -> 119938
      [] name = "MATHEMATICAL BOLD ITALIC SMALL B" -> 119939
      [] name = "MATHEMATICAL BOLD ITALIC SMALL C" -> 119940
      [] name = "MATHEMATICAL BOLD ITALIC SMALL D" -> 119941
      [] name = "MATHEMATICAL BOLD ITALIC SMALL E" -> 119942
      [] name = "MATHEMATICAL BOLD ITALIC SMALL F" -> 119943
      [] name = "MATHEMATICAL BOLD ITALIC SMALL G" -> 119944
      [] name = "MATHEMATICAL BOLD ITALIC SMALL H" -> 119945
      [] name = "MATHEMATICAL BOLD ITALIC SMALL I" -> 119946
      [] name = "MATHEMATICAL BOLD ITALIC SMALL J" -> 119947
      [] name = "MATHEMATICAL BOLD ITALIC SMALL K" -> 119948
      [] name = "MATHEMATICAL BOLD ITALIC SMALL L" -> 119949
      [] name = "MATHEMATICAL BOLD ITALIC SMALL M" -> 119950
      [] name = "MATHEMATICAL BOLD ITALIC SMALL N" -> 119951
      [] name = "MATHEMATICAL BOLD ITALIC SMALL O" -> 119952
      [] name = "MATHEMATICAL BOLD ITALIC SMALL P" -> 119953
      [] name = "MATHEMATICAL BOLD ITALIC SMALL Q" -> 119954
      [] name = "MATHEMATICAL BOLD ITALIC SMALL R" -> 119955
      [] name = "MATHEMATICAL BOLD ITALIC SMALL S" -> 119956
      [] name = "MATHEMATICAL BOLD ITALIC SMALL T" -> 119957
      [] name = "MATHEMATICAL BOLD ITALIC SMALL U" -> 119958
      [] name = "MATHEMATICAL BOLD ITALIC SMALL V" -> 119959
      [] name = "MATHEMATICAL BOLD ITALIC SMALL W" -> 119960
      [] name = "MATHEMATICAL BOLD ITALIC SMALL X" -> 119961
      [] name = "MATHEMATICAL BOLD ITALIC SMALL Y" -> 119962
      [] name = "MATHEMATICAL BOLD ITALIC SMALL Z" -> 119963
      [] name = "MATHEMATICAL SCRIPT CAPITAL A" -> 119964
      [] name = "MATHEMATICAL SCRIPT CAPITAL C" -> 119966
      [] name = "MATHEMATICAL SCRIPT CAPITAL D" -> 119967
      [] name = "MATHEMATICAL SCRIPT CAPITAL G" -> 119970
      [] name = "MATHEMATICAL SCRIPT CAPITAL J" -> 119973
      [] name = "MATHEMATICAL SCRIPT CAPITAL K" -> 119974
      [] name = "MATHEMATICAL SCRIPT CAPITAL N" -> 119977
      [] name = "MATHEMATICAL SCRIPT CAPITAL O" -> 119978
      [] name = "MATHEMATICAL SCRIPT CAPITAL P" -> 119979
      [] name = "MATHEMATICAL SCRIPT CAPITAL Q" -> 119980
      [] name = "MATHEMATICAL SCRIPT CAPITAL S" -> 119982
      [] name = "MATHEMATICAL SCRIPT CAPITAL T" -> 119983
      [] name = "MATHEMATICAL SCRIPT CAPITAL U" -> 119984
      [] name = "MATHEMATICAL SCRIPT CAPITAL V" -> 119985
      [] name = "MATHEMATICAL SCRIPT CAPITAL W" -> 119986
      [] name = "MATHEMATICAL SCRIPT CAPITAL X" -> 119987
      [] name = "MATHEMATICAL SCRIPT CAPITAL Y" -> 119988
      [] name = "MATHEMATICAL SCRIPT CAPITAL Z" -> 119989
      [] name = "MATHEMATICAL SCRIPT SMALL A" -> 119990
      [] name = "MATHEMATICAL SCRIPT SMALL B" -> 119991
      [] name = "MATHEMATICAL SCRIPT SMALL C" -> 119992
      [] name = "MATHEMATICAL SCRIPT SMALL D" -> 119993
      [] name = "MATHEMATICAL SCRIPT SMALL F" -> 119995
      [] name = "MATHEMATICAL SCRIPT SMALL H" -> 119997
      [] name = "MATHEMATICAL SCRIPT SMALL I" -> 119998
      [] name = "MATHEMATICAL SCRIPT SMALL J" -> 119999
      [] name = "MATHEMATICAL SCRIPT SMALL K" -> 120000
      [] name = "MATHEMATICAL SCRIPT SMALL L" -> 120001
      [] name = "MATHEMATICAL SCRIPT SMALL M" -> 120002
      [] name = "MATHEMATICAL SCRIPT SMALL N" -> 120003
      [] name = "MATHEMATICAL SCRIPT SMALL P" -> 120005
      [] name = "MATHEMATICAL SCRIPT SMALL Q" -> 120006
      [] name = "MATHEMATICAL SCRIPT SMALL R" -> 120007
      [] name = "MATHEMATICAL SCRIPT SMALL S" -> 120008
      [] name = "MATHEMATICAL SCRIPT SMALL T" -> 120009
      [] name = "MATHEMATICAL SCRIPT SMALL U" -> 120010
      [] name = "MATHEMATICAL SCRIPT SMALL V" -> 120011
      [] name = "MATHEMATICAL SCRIPT SMALL W" -> 120012
      [] name = "MATHEMATICAL SCRIPT SMALL X" -> 120013
      [] name = "MATHEMATICAL SCRIPT SMALL Y" -> 120014
      [] name = "MATHEMATICAL SCRIPT SMALL Z" -> 120015
      [] name = "MATHEMATICAL BOLD SCRIPT CAPITAL A" -> 120016
      [] name = "MATHEMATICAL BOLD SCRIPT CAPITAL B" -> 120017
      [] name = "MATHEMATICAL BOLD SCRIPT CAPITAL C" -> 120018
      [] name = "MATHEMATICAL BOLD SCRIPT CAPITAL D" -> 120019
      [] name = "MATHEMATICAL BOLD SCRIPT CAPITAL E" -> 120020
      [] name = "MATHEMATICAL BOLD SCRIPT CAPITAL F" -> 120021
      [] name = "MATHEMATICAL BOLD SCRIPT CAPITAL G" -> 120022
      [] name = "MATHEMATICAL BOLD SCRIPT CAPITAL H" -> 120023
      [] name = "MATHEMATICAL BOLD SCRIPT CAPITAL I" -> 120024
      [] name = "MATHEMATICAL BOLD SCRIPT CAPITAL J" -> 120025
      [] name = "MATHEMATICAL BOLD SCRIPT CAPITAL K" -> 120026
      [] name = "MATHEMATICAL BOLD SCRIPT CAPITAL L" -> 120027
      [] name = "MATHEMATICAL BOLD SCRIPT CAPITAL M" -> 120028
      [] name = "MATHEMATICAL BOLD SCRIPT CAPITAL N" -> 120029
      [] name = "MATHEMATICAL BOLD SCRIPT CAPITAL O" -> 120030
      [] name = "MATHEMATICAL BOLD SCRIPT CAPITAL P" -> 120031
      [] name = "MATHEMATICAL BOLD SCRIPT CAPITAL Q" -> 120032
      [] name = "MATHEMATICAL BOLD SCRIPT CAPITAL R" -> 120033
      [] name = "MATHEMATICAL BOLD SCRIPT CAPITAL S" -> 120034
      [] name = "MATHEMATICAL BOLD SCRIPT CAPITAL T" -> 120035
      [] name = "MATHEMATICAL BOLD SCRIPT CAPITAL U" -> 120036
      [] name = "MATHEMATICAL BOLD SCRIPT CAPITAL V" -> 120037
      [] name = "MATHEMATICAL BOLD SCRIPT CAPITAL W" -> 120038
      [] name = "MATHEMATICAL BOLD SCRIPT CAPITAL X" -> 120039
      [] name = "MATHEMATICAL BOLD SCRIPT CAPITAL Y" -> 120040
      [] name = "MATHEMATICAL BOLD SCRIPT CAPITAL Z" -> 120041
      [] name = "MATHEMATICAL BOLD SCRIPT SMALL A" -> 120042
      [] name = "MATHEMATICAL BOLD SCRIPT SMALL B" -> 120043
      [] name = "MATHEMATICAL BOLD SCRIPT SMALL C" -> 120044
      [] name = "MATHEMATICAL BOLD SCRIPT SMALL D" -> 120045
      [] name = "MATHEMATICAL BOLD SCRIPT SMALL E" -> 120046
      [] name = "MATHEMATICAL BOLD SCRIPT SMALL F" -> 120047
      [] name = "MATHEMATICAL BOLD SCRIPT SMALL G" -> 120048
      [] name = "MATHEMATICAL BOLD SCRIPT SMALL H" -> 120049
      [] name = "MATHEMATICAL BOLD SCRIPT SMALL I" -> 120050
      [] name = "MATHEMATICAL BOLD SCRIPT SMALL J" -> 120051
      [] name = "MATHEMATICAL BOLD SCRIPT SMALL K" -> 120052
      [] name = "MATHEMATICAL BOLD SCRIPT SMALL L" -> 120053
      [] name = "MATHEMATICAL BOLD SCRIPT SMALL M" -> 120054
      [] name = "MATHEMATICAL BOLD SCRIPT SMALL N" -> 120055
      [] name = "MATHEMATICAL BOLD SCRIPT SMALL O" -> 120056
      [] name = "MATHEMATICAL BOLD SCRIPT SMALL P" -> 120057
      [] name = "MATHEMATICAL BOLD SCRIPT SMALL Q" -> 120058
      [] name = "MATHEMATICAL BOLD SCRIPT SMALL R" -> 120059
      [] name = "MATHEMATICAL BOLD SCRIPT SMALL S" -> 120060
      [] name = "MATHEMATICAL BOLD SCRIPT SMALL T" -> 120061
      [] name = "MATHEMATICAL BOLD SCRIPT SMALL U" -> 120062
      [] name = "MATHEMATICAL BOLD SCRIPT SMALL V" -> 120063
      [] name = "MATHEMATICAL BOLD SCRIPT SMALL W" -> 120064
      [] name = "MATHEMATICAL BOLD SCRIPT SMALL X" -> 120065
      [] name = "MATHEMATICAL BOLD SCRIPT SMALL Y" -> 120066
      [] name = "MATHEMATICAL BOLD SCRIPT SMALL Z" -> 120067
      [] name = "MATHEMATICAL FRAKTUR CAPITAL A" -> 120068
      [] name = "MATHEMATICAL FRAKTUR CAPITAL B" -> 120069
      [] name = "MATHEMATICAL FRAKTUR CAPITAL D" -> 120071
      [] name = "MATHEMATICAL FRAKTUR CAPITAL E" -> 120072
      [] name = "MATHEMATICAL FRAKTUR CAPITAL F" -> 120073
      [] name = "MATHEMATICAL FRAKTUR CAPITAL G" -> 120074
      [] name = "MATHEMATICAL FRAKTUR CAPITAL J" -> 120077
      [] name = "MATHEMATICAL FRAKTUR CAPITAL K" -> 120078
      [] name = "MATHEMATICAL FRAKTUR CAPITAL L" -> 120079
      [] name = "MATHEMATICAL FRAKTUR CAPITAL M" -> 120080
      [] name = "MATHEMATICAL FRAKTUR CAPITAL N" -> 120081
      [] name = "MATHEMATICAL FRAKTUR CAPITAL O" -> 120082
      [] name = "MATHEMATICAL FRAKTUR CAPITAL P" -> 120083
      [] name = "MATHEMATICAL FRAKTUR CAPITAL Q" -> 120084
      [] name = "MATHEMATICAL FRAKTUR CAPITAL S" -> 120086
      [] name = "MATHEMATICAL FRAKTUR CAPITAL T" -> 120087
      [] name = "MATHEMATICAL FRAKTUR CAPITAL U" -> 120088
      [] name = "MATHEMATICAL FRAKTUR CAPITAL V" -> 120089
      [] name = "MATHEMATICAL FRAKTUR CAPITAL W" -> 120090
      [] name = "MATHEMATICAL FRAKTUR CAPITAL X" -> 120091
      [] name = "MATHEMATICAL FRAKTUR CAPITAL Y" -> 120092
      [] name = "MATHEMATICAL FRAKTUR SMALL A" -> 120094
      [] name = "MATHEMATICAL FRAKTUR SMALL B" -> 120095
      [] name = "MATHEMATICAL FRAKTUR SMALL C" -> 120096
      [] name = "MATHEMATICAL FRAKTUR SMALL D" -> 120097
      [] name = "MATHEMATICAL FRAKTUR SMALL E" -> 120098
      [] name = "MATHEMATICAL FRAKTUR SMALL F" -> 120099
      [] name = "MATHEMATICAL FRAKTUR SMALL G" -> 120100
      [] name = "MATHEMATICAL FRAKTUR SMALL H" -> 120101
      [] name = "MATHEMATICAL FRAKTUR SMALL I" -> 120102
      [] name = "MATHEMATICAL FRAKTUR SMALL J" -> 120103
      [] name = "MATHEMATICAL FRAKTUR SMALL K" -> 120104
      [] name = "MATHEMATICAL FRAKTUR SMALL L" -> 120105
      [] name = "MATHEMATICAL FRAKTUR SMALL M" -> 120106
      [] name = "MATHEMATICAL FRAKTUR SMALL N" -> 120107
      [] name = "MATHEMATICAL FRAKTUR SMALL O" -> 120108
      [] name = "MATHEMATICAL FRAKTUR SMALL P" -> 120109
      [] name = "MATHEMATICAL FRAKTUR SMALL Q" -> 120110
      [] name = "MATHEMATICAL FRAKTUR SMALL R" -> 120111
      [] name = "MATHEMATICAL FRAKTUR SMALL S" -> 120112
      [] name = "MATHEMATICAL FRAKTUR SMALL T" -> 120113
      [] name = "MATHEMATICAL FRAKTUR SMALL U" -> 120114
      [] name = "MATHEMATICAL FRAKTUR SMALL V" -> 120115
      [] name = "MATHEMATICAL FRAKTUR SMALL W" -> 120116
      [] name = "MATHEMATICAL FRAKTUR SMALL X" -> 120117
      [] name = "MATHEMATICAL FRAKTUR SMALL Y" -> 120118
      [] name = "MATHEMATICAL FRAKTUR SMALL Z" -> 120119
      [] name = "MATHEMATICAL DOUBLE-STRUCK CAPITAL A" -> 120120
      [] name = "MATHEMATICAL DOUBLE-STRUCK CAPITAL B" -> 120121
      [] name = "MATHEMATICAL DOUBLE-STRUCK CAPITAL D" -> 120123
      [] name = "MATHEMATICAL DOUBLE-STRUCK CAPITAL E" -> 120124
      [] name = "MATHEMATICAL DOUBLE-STRUCK CAPITAL F" -> 120125
      [] name = "MATHEMATICAL DOUBLE-STRUCK CAPITAL G" -> 120126
      [] name = "MATHEMATICAL DOUBLE-STRUCK CAPITAL I" -> 120128
      [] name = "MATHEMATICAL DOUBLE-STRUCK CAPITAL J" -> 120129
      [] name = "MATHEMATICAL DOUBLE-STRUCK CAPITAL K" -> 120130
      [] name = "MATHEMATICAL DOUBLE-STRUCK CAPITAL L" -> 120131
      [] name = "MATHEMATICAL DOUBLE-STRUCK CAPITAL M" -> 120132
      [] name = "MATHEMATICAL DOUBLE-STRUCK CAPITAL O" -> 120134
      [] name = "MATHEMATICAL DOUBLE-STRUCK CAPITAL S" -> 120138
      [] name = "MATHEMATICAL DOUBLE-STRUCK CAPITAL T" -> 120139
      [] name = "MATHEMATICAL DOUBLE-STRUCK CAPITAL U" -> 120140
      [] name = "MATHEMATICAL DOUBLE-STRUCK CAPITAL V" -> 120141
      [] name = "MATHEMATICAL DOUBLE-STRUCK CAPITAL W" -> 120142
      [] name = "MATHEMATICAL DOUBLE-STRUCK CAPITAL X" -> 120143
      [] name = "MATHEMATICAL DOUBLE-STRUCK CAPITAL Y" -> 120144
      [] name = "MATHEMATICAL DOUBLE-STRUCK SMALL A" -> 120146
      [] name = "MATHEMATICAL DOUBLE-STRUCK SMALL B" -> 120147
      [] name = "MATHEMATICAL DOUBLE-STRUCK SMALL C" -> 120148
      [] name = "MATHEMATICAL DOUBLE-STRUCK SMALL D" -> 120149
      [] name = "MATHEMATICAL DOUBLE-STRUCK SMALL E" -> 120150
      [] name = "MATHEMATICAL DOUBLE-STRUCK SMALL F" -> 120151
      [] name = "MATHEMATICAL DOUBLE-STRUCK SMALL G" -> 120152
      [] name = "MATHEMATICAL DOUBLE-STRUCK SMALL H" -> 120153
      [] name = "MATHEMATICAL DOUBLE-STRUCK SMALL I" -> 120154
      [] name = "MATHEMATICAL DOUBLE-STRUCK SMALL J" -> 120155
      [] name = "MATHEMATICAL DOUBLE-STRUCK SMALL K" -> 120156
      [] name = "MATHEMATICAL DOUBLE-STRUCK SMALL L" -> 120157
      [] name = "MATHEMATICAL DOUBLE-STRUCK SMALL M" -> 120158
      [] name = "MATHEMATICAL DOUBLE-STRUCK SMALL N" -> 120159
      [] name = "MATHEMATICAL DOUBLE-STRUCK SMALL O" -> 120160
      [] name = "MATHEMATICAL DOUBLE-STRUCK SMALL P" -> 120161
      [] name = "MATHEMATICAL DOUBLE-STRUCK SMALL Q" -> 120162
      [] name = "MATHEMATICAL DOUBLE-STRUCK SMALL R" -> 120163
      [] name = "MATHEMATICAL DOUBLE-STRUCK SMALL S" -> 120164
      [] name = "MATHEMATICAL DOUBLE-STRUCK SMALL T" -> 120165
      [] name = "MATHEMATICAL DOUBLE-STRUCK SMALL U" -> 120166
      [] name = "MATHEMATICAL DOUBLE-STRUCK SMALL V" -> 120167
      [] name = "MATHEMATICAL DOUBLE-STRUCK SMALL W" -> 120168
      [] name = "MATHEMATICAL DOUBLE-STRUCK SMALL X" -> 120169
      [] name = "MATHEMATICAL DOUBLE-STRUCK SMALL Y" -> 120170
      [] name = "MATHEMATICAL DOUBLE-STRUCK SMALL Z" -> 120171
      [] name = "MATHEMATICAL BOLD FRAKTUR CAPITAL A" -> 120172
      [] name = "MATHEMATICAL BOLD FRAKTUR CAPITAL B" -> 120173
      [] name = "MATHEMATICAL BOLD FRAKTUR CAPITAL C" -> 120174
      [] name = "MATHEMATICAL BOLD FRAKTUR CAPITAL D" -> 120175
      [] name = "MATHEMATICAL BOLD FRAKTUR CAPITAL E" -> 120176
      [] name = "MATHEMATICAL BOLD FRAKTUR CAPITAL F" -> 120177
      [] name = "MATHEMATICAL BOLD FRAKTUR CAPITAL G" -> 120178
      [] name = "MATHEMATICAL BOLD FRAKTUR CAPITAL H" -> 120179
      [] name = "MATHEMATICAL BOLD FRAKTUR CAPITAL I" -> 120180
      [] name = "MATHEMATICAL BOLD FRAKTUR CAPITAL J" -> 120181
      [] name = "MATHEMATICAL BOLD FRAKTUR CAPITAL K" -> 120182
      [] name = "MATHEMATICAL BOLD FRAKTUR CAPITAL L" -> 120183
      [] name = "MATHEMATICAL BOLD FRAKTUR CAPITAL M" -> 120184
      [] name = "MATHEMATICAL BOLD FRAKTUR CAPITAL N" -> 120185
      [] name = "MATHEMATICAL BOLD FRAKTUR CAPITAL O" -> 120186
      [] name = "MATHEMATICAL BOLD FRAKTUR CAPITAL P" -> 120187
      [] name = "MATHEMATICAL BOLD FRAKTUR CAPITAL Q" -> 120188
      [] name = "MATHEMATICAL BOLD FRAKTUR CAPITAL R" -> 120189
      [] name = "MATHEMATICAL BOLD FRAKTUR CAPITAL S" -> 120190
      [] name = "MATHEMATICAL BOLD FRAKTUR CAPITAL T" -> 120191
      [] name = "MATHEMATICAL BOLD FRAKTUR CAPITAL U" -> 120192
      [] name = "MATHEMATICAL BOLD FRAKTUR CAPITAL V" -> 120193
      [] name = "MATHEMATICAL BOLD FRAKTUR CAPITAL W" -> 120194
      [] name = "MATHEMATICAL BOLD FRAKTUR CAPITAL X" -> 120195
      [] name = "MATHEMATICAL BOLD FRAKTUR CAPITAL Y" -> 120196
      [] name = "MATHEMATICAL BOLD FRAKTUR CAPITAL Z" -> 120197
      [] name = "MATHEMATICAL BOLD FRAKTUR SMALL A" -> 120198
      [] name = "MATHEMATICAL BOLD FRAKTUR SMALL B" -> 120199
      [] name = "MATHEMATICAL BOLD FRAKTUR SMALL C" -> 120200
      [] name = "MATHEMATICAL BOLD FRAKTUR SMALL D" -> 120201
      [] name = "MATHEMATICAL BOLD FRAKTUR SMALL E" -> 120202
      [] name = "MATHEMATICAL BOLD FRAKTUR SMALL F" -> 120203
      [] name = "MATHEMATICAL BOLD FRAKTUR SMALL G" -> 120204
      [] name = "MATHEMATICAL BOLD FRAKTUR SMALL H" -> 120205
      [] name = "MATHEMATICAL BOLD FRAKTUR SMALL I" -> 120206
      [] name = "MATHEMATICAL BOLD FRAKTUR SMALL J" -> 120207
      [] name = "MATHEMATICAL BOLD FRAKTUR SMALL K" -> 120208
      [] name = "MATHEMATICAL BOLD FRAKTUR SMALL L" -> 120209
      [] name = "MATHEMATICAL BOLD FRAKTUR SMALL M" -> 120210
      [] name = "MATHEMATICAL BOLD FRAKTUR SMALL N" -> 120211
      [] name = "MATHEMATICAL BOLD FRAKTUR SMALL O" -> 120212
      [] name = "MATHEMATICAL BOLD FRAKTUR SMALL P" -> 120213
      [] name = "MATHEMATICAL BOLD FRAKTUR SMALL Q" -> 120214
      [] name = "MATHEMATICAL BOLD FRAKTUR SMALL R" -> 120215
      [] name = "MATHEMATICAL BOLD FRAKTUR SMALL S" -> 120216
      [] name = "MATHEMATICAL BOLD FRAKTUR SMALL T" -> 120217
      [] name = "MATHEMATICAL BOLD FRAKTUR SMALL U" -> 120218
      [] name = "MATHEMATICAL BOLD FRAKTUR SMALL V" -> 120219
      [] name = "MATHEMATICAL BOLD FRAKTUR SMALL W" -> 120220
      [] name = "MATHEMATICAL BOLD FRAKTUR SMALL X" -> 120221
      [] name = "MATHEMATICAL BOLD FRAKTUR SMALL Y" -> 120222
      [] name = "MATHEMATICAL BOLD FRAKTUR SMALL Z" -> 120223
      [] name = "MATHEMATICAL SANS-SERIF CAPITAL A" -> 120224
      [] name = "MATHEMATICAL SANS-SERIF CAPITAL B" -> 120225
      [] name = "MATHEMATICAL SANS-SERIF CAPITAL C" -> 120226
      [] name = "MATHEMATICAL SANS-SERIF CAPITAL D" -> 120227
      [] name = "MATHEMATICAL SANS-SERIF CAPITAL E" -> 120228
      [] name = "MATHEMATICAL SANS-SERIF CAPITAL F" -> 120229
      [] name = "MATHEMATICAL SANS-SERIF CAPITAL G" -> 120230
      [] name = "MATHEMATICAL SANS-SERIF CAPITAL H" -> 120231
      [] name = "MATHEMATICAL SANS-SERIF CAPITAL I" -> 120232
      [] name = "MATHEMATICAL SANS-SERIF CAPITAL J" -> 120233
      [] name = "MATHEMATICAL SANS-SERIF CAPITAL K" -> 120234
      [] name = "MATHEMATICAL SANS-SERIF CAPITAL L" -> 120235
      [] name = "MATHEMATICAL SANS-SERIF CAPITAL M" -> 120236
      [] name = "MATHEMATICAL SANS-SERIF CAPITAL N" -> 120237
      [] name = "MATHEMATICAL SANS-SERIF CAPITAL O" -> 120238
      [] name = "MATHEMATICAL SANS-SERIF CAPITAL P" -> 120239
      [] name = "MATHEMATICAL SANS-SERIF CAPITAL Q" -> 120240
      [] name = "MATHEMATICAL SANS-SERIF CAPITAL R" -> 120241
      [] name = "MATHEMATICAL SANS-SERIF CAPITAL S" -> 120242
      [] name = "MATHEMATICAL SANS-SERIF CAPITAL T" -> 120243
      [] name = "MATHEMATICAL SANS-SERIF CAPITAL U" -> 120244
      [] name = "MATHEMATICAL SANS-SERIF CAPITAL V" -> 120245
      [] name = "MATHEMATICAL SANS-SERIF CAPITAL W" -> 120246
      [] name = "MATHEMATICAL SANS-SERIF CAPITAL X" -> 120247
      [] name = "MATHEMATICAL SANS-SERIF CAPITAL Y" -> 120248
      [] name = "MATHEMATICAL SANS-SERIF CAPITAL Z" -> 120249
      [] name = "MATHEMATICAL SANS-SERIF SMALL A" -> 120250
      [] name = "MATHEMATICAL SANS-SERIF SMALL B" -> 120251
      [] name = "MATHEMATICAL SANS-SERIF SMALL C" -> 120252
      [] name = "MATHEMATICAL SANS-SERIF SMALL D" -> 120253
      [] name = "MATHEMATICAL SANS-SERIF SMALL E" -> 120254
      [] name = "MATHEMATICAL SANS-SERIF SMALL F" -> 120255
      [] name = "MATHEMATICAL SANS-SERIF SMALL G" -> 120256
      [] name = "MATHEMATICAL SANS-SERIF SMALL H" -> 120257
      [] name = "MATHEMATICAL SANS-SERIF SMALL I" -> 120258
      [] name = "MATHEMATICAL SANS-SERIF SMALL J" -> 120259
      [] name = "MATHEMATICAL SANS-SERIF SMALL K" -> 120260
      [] name = "MATHEMATICAL SANS-SERIF SMALL L" -> 120261
      [] name = "MATHEMATICAL SANS-SERIF SMALL M" -> 120262
      [] name = "MATHEMATICAL SANS-SERIF SMALL N" -> 120263
      [] name = "MATHEMATICAL SANS-SERIF SMALL O" -> 120264
      [] name = "MATHEMATICAL SANS-SERIF SMALL P" -> 120265
      [] name = "MATHEMATICAL SANS-SERIF SMALL Q" -> 120266
      [] name = "MATHEMATICAL SANS-SERIF SMALL R" -> 120267
      [] name = "MATHEMATICAL SANS-SERIF SMALL S" -> 120268
      [] name = "MATHEMATICAL SANS-SERIF SMALL T" -> 120269
      [] name = "MATHEMATICAL SANS-SERIF SMALL U" -> 120270
      [] name = "MATHEMATICAL SANS-SERIF SMALL V" -> 120271
      [] name = "MATHEMATICAL SANS-SERIF SMALL W" -> 120272
      [] name = "MATHEMATICAL SANS-SERIF SMALL X" -> 120273
      [] name = "MATHEMATICAL SANS-SERIF SMALL Y" -> 120274
      [] name = "MATHEMATICAL SANS-SERIF SMALL Z" -> 120275
      [] name = "MATHEMATICAL SANS-SERIF BOLD CAPITAL A" -> 120276
      [] name = "MATHEMATICAL SANS-SERIF BOLD CAPITAL B" -> 120277
      [] name = "MATHEMATICAL SANS-SERIF BOLD CAPITAL C" -> 120278
      [] name = "MATHEMATICAL SANS-SERIF BOLD CAPITAL D" -> 120279
      [] name = "MATHEMATICAL SANS-SERIF BOLD CAPITAL E" -> 120280
      [] name = "MATHEMATICAL SANS-SERIF BOLD CAPITAL F" -> 120281
      [] name = "MATHEMATICAL SANS-SERIF BOLD CAPITAL G" -> 120282
      [] name = "MATHEMATICAL SANS-SERIF BOLD CAPITAL H" -> 120283
      [] name = "MATHEMATICAL SANS-SERIF BOLD CAPITAL I" -> 120284
      [] name = "MATHEMATICAL SANS-SERIF BOLD CAPITAL J" -> 120285
      [] name = "MATHEMATICAL SANS-SERIF BOLD CAPITAL K" -> 120286
      [] name = "MATHEMATICAL SANS-SERIF BOLD CAPITAL L" -> 120287
      [] name = "MATHEMATICAL SANS-SERIF BOLD CAPITAL M" -> 120288
      [] name = "MATHEMATICAL SANS-SERIF BOLD CAPITAL N" -> 120289
      [] name = "MATHEMATICAL SANS-SERIF BOLD CAPITAL O" -> 120290
      [] name = "MATHEMATICAL SANS-SERIF BOLD CAPITAL P" -> 120291
      [] name = "MATHEMATICAL SANS-SERIF BOLD CAPITAL Q" -> 120292
      [] name = "MATHEMATICAL SANS-SERIF BOLD CAPITAL R" -> 120293
      [] name = "MATHEMATICAL SANS-SERIF BOLD CAPITAL S" -> 120294
      [] name = "MATHEMATICAL SANS-SERIF BOLD CAPITAL T" -> 120295
      [] name = "MATHEMATICAL SANS-SERIF BOLD CAPITAL U" -> 120296
      [] name = "MATHEMATICAL SANS-SERIF BOLD CAPITAL V" -> 120297
      [] name = "MATHEMATICAL SANS-SERIF BOLD CAPITAL W" -> 120298
      [] name = "MATHEMATICAL SANS-SERIF BOLD CAPITAL X" -> 120299
      [] name = "MATHEMATICAL SANS-SERIF BOLD CAPITAL Y" -> 120300
      [] name = "MATHEMATICAL SANS-SERIF BOLD CAPITAL Z" -> 120301
      [] name = "MATHEMATICAL SANS-SERIF BOLD SMALL A" -> 120302
      [] name = "MATHEMATICAL SANS-SERIF BOLD SMALL B" -> 120303
      [] name = "MATHEMATICAL SANS-SERIF BOLD SMALL C" -> 120304
      [] name = "MATHEMATICAL SANS-SERIF BOLD SMALL D" -> 120305
      [] name = "MATHEMATICAL SANS-SERIF BOLD SMALL E" -> 120306
      [] name = "MATHEMATICAL SANS-SERIF BOLD SMALL F" -> 120307
      [] name = "MATHEMATICAL SANS-SERIF BOLD SMALL G" -> 120308
      [] name = "MATHEMATICAL SANS-SERIF BOLD SMALL H" -> 120309
      [] name = "MATHEMATICAL SANS-SERIF BOLD SMALL I" -> 120310
      [] name = "MATHEMATICAL SANS-SERIF BOLD SMALL J" -> 120311
      [] name = "MATHEMATICAL SANS-SERIF BOLD SMALL K" -> 120312
      [] name = "MATHEMATICAL SANS-SERIF BOLD SMALL L" -> 120313
      [] name = "MATHEMATICAL SANS-SERIF BOLD SMALL M" -> 120314
      [] name = "MATHEMATICAL SANS-SERIF BOLD SMALL N" -> 120315
      [] name = "MATHEMATICAL SANS-SERIF BOLD SMALL O" -> 120316
      [] name = "MATHEMATICAL SANS-SERIF BOLD SMALL P" -> 120317
      [] name = "MATHEMATICAL SANS-SERIF BOLD SMALL Q" -> 120318
      [] name = "MATHEMATICAL SANS-SERIF BOLD SMALL R" -> 120319
      [] name = "MATHEMATICAL SANS-SERIF BOLD SMALL S" -> 120320
      [] name = "MATHEMATICAL SANS-SERIF BOLD SMALL T" -> 120321
      [] name = "MATHEMATICAL SANS-SERIF BOLD SMALL U" -> 120322
      [] name = "MATHEMATICAL SANS-SERIF BOLD SMALL V" -> 120323
      [] name = "MATHEMATICAL SANS-SERIF BOLD SMALL W" -> 120324
      [] name = "MATHEMATICAL SANS-SERIF BOLD SMALL X" -> 120325
      [] name = "MATHEMATICAL SANS-SERIF BOLD SMALL Y" -> 120326
      [] name = "MATHEMATICAL SANS-SERIF BOLD SMALL Z" -> 120327
      [] name = "MATHEMATICAL SANS-SERIF ITALIC CAPITAL A" -> 120328
      [] name = "MATHEMATICAL SANS-SERIF ITALIC CAPITAL B" -> 120329
      [] name = "MATHEMATICAL SANS-SERIF ITALIC CAPITAL C" -> 120330
      [] name = "MATHEMATICAL SANS-SERIF ITALIC CAPITAL D" -> 120331
      [] name = "MATHEMATICAL SANS-SERIF ITALIC CAPITAL E" -> 120332
      [] name = "MATHEMATICAL SANS-SERIF ITALIC CAPITAL F" -> 120333
      [] name = "MATHEMATICAL SANS-SERIF ITALIC CAPITAL G" -> 120334
      [] name = "MATHEMATICAL SANS-SERIF ITALIC CAPITAL H" -> 120335
      [] name = "MATHEMATICAL SANS-SERIF ITALIC CAPITAL I" -> 120336
      [] name = "MATHEMATICAL SANS-SERIF ITALIC CAPITAL J" -> 120337
      [] name = "MATHEMATICAL SANS-SERIF ITALIC CAPITAL K" -> 120338
      [] name = "MATHEMATICAL SANS-SERIF ITALIC CAPITAL L" -> 120339
      [] name = "MATHEMATICAL SANS-SERIF ITALIC CAPITAL M" -> 120340
      [] name = "MATHEMATICAL SANS-SERIF ITALIC CAPITAL N" -> 120341
      [] name = "MATHEMATICAL SANS-SERIF ITALIC CAPITAL O" -> 120342
      [] name = "MATHEMATICAL SANS-SERIF ITALIC CAPITAL P" -> 120343
      [] name = "MATHEMATICAL SANS-SERIF ITALIC CAPITAL Q" -> 120344
      [] name = "MATHEMATICAL SANS-SERIF ITALIC CAPITAL R" -> 120345
      [] name = "MATHEMATICAL SANS-SERIF ITALIC CAPITAL S" -> 120346
      [] name = "MATHEMATICAL SANS-SERIF ITALIC CAPITAL T" -> 120347
      [] name = "MATHEMATICAL SANS-SERIF ITALIC CAPITAL U" -> 120348
      [] name = "MATHEMATICAL SANS-SERIF ITALIC CAPITAL V" -> 120349
      [] name = "MATHEMATICAL SANS-SERIF ITALIC CAPITAL W" -> 120350
      [] name = "MATHEMATICAL SANS-SERIF ITALIC CAPITAL X" -> 120351
      [] name = "MATHEMATICAL SANS-SERIF ITALIC CAPITAL Y" -> 120352
      [] name = "MATHEMATICAL SANS-SERIF ITALIC CAPITAL Z" -> 120353
      [] name = "MATHEMATICAL SANS-SERIF ITALIC SMALL A" -> 120354
      [] name = "MATHEMATICAL SANS-SERIF ITALIC SMALL B" -> 120355
      [] name = "MATHEMATICAL SANS-SERIF ITALIC SMALL C" -> 120356
      [] name = "MATHEMATICAL SANS-SERIF ITALIC SMALL D" -> 120357
      [] name = "MATHEMATICAL SANS-SERIF ITALIC SMALL E" -> 120358
      [] name = "MATHEMATICAL SANS-SERIF ITALIC SMALL F" -> 120359
      [] name = "MATHEMATICAL SANS-SERIF ITALIC SMALL G" -> 120360
      [] name = "MATHEMATICAL SANS-SERIF ITALIC SMALL H" -> 120361
      [] name = "MATHEMATICAL SANS-SERIF ITALIC SMALL I" -> 120362
      [] name = "MATHEMATICAL SANS-SERIF ITALIC SMALL J" -> 120363
      [] name = "MATHEMATICAL SANS-SERIF ITALIC SMALL K" -> 120364
      [] name = "MATHEMATICAL SANS-SERIF ITALIC SMALL L" -> 120365
      [] name = "MATHEMATICAL SANS-SERIF ITALIC SMALL M" -> 120366
      [] name = "MATHEMATICAL SANS-SERIF ITALIC SMALL N" -> 120367
      [] name = "MATHEMATICAL SANS-SERIF ITALIC SMALL O" -> 120368
      [] name = "MATHEMATICAL SANS-SERIF ITALIC SMALL P" -> 120369
      [] name = "MATHEMATICAL SANS-SERIF ITALIC SMALL Q" -> 120370
      [] name = "MATHEMATICAL SANS-SERIF ITALIC SMALL R" -> 120371
      [] name = "MATHEMATICAL SANS-SERIF ITALIC SMALL S" -> 120372
      [] name = "MATHEMATICAL SANS-SERIF ITALIC SMALL T" -> 120373
      [] name = "MATHEMATICAL SANS-SERIF ITALIC SMALL U" -> 120374
      [] name = "MATHEMATICAL SANS-SERIF ITALIC SMALL V" -> 120375
      [] name = "MATHEMATICAL SANS-SERIF ITALIC SMALL W" -> 120376
      [] name = "MATHEMATICAL SANS-SERIF ITALIC SMALL X" -> 120377
      [] name = "MATHEMATICAL SANS-SERIF ITALIC SMALL Y" -> 120378
      [] name = "MATHEMATICAL SANS-SERIF ITALIC SMALL Z" -> 120379
      [] name = "MATHEMATICAL SANS-SERIF BOLD ITALIC CAPITAL A" -> 120380
      [] name = "MATHEMATICAL SANS-SERIF BOLD ITALIC CAPITAL B" -> 120381
      [] name = "MATHEMATICAL SANS-SERIF BOLD ITALIC CAPITAL C" -> 120382
      [] name = "MATHEMATICAL SANS-SERIF BOLD ITALIC CAPITAL D" -> 120383
      [] name = "MATHEMATICAL SANS-SERIF BOLD ITALIC CAPITAL E" -> 120384
      [] name = "MATHEMATICAL SANS-SERIF BOLD ITALIC CAPITAL F" -> 120385
      [] name = "MATHEMATICAL SANS-SERIF BOLD ITALIC CAPITAL G" -> 120386
      [] name = "MATHEMATICAL SANS-SERIF BOLD ITALIC CAPITAL H" -> 120387
      [] name = "MATHEMATICAL SANS-SERIF BOLD ITALIC CAPITAL I" -> 120388
      [] name = "MATHEMATICAL SANS-SERIF BOLD ITALIC CAPITAL J" -> 120389
      [] name = "MATHEMATICAL SANS-SERIF BOLD ITALIC CAPITAL K" -> 120390
      [] name = "MATHEMATICAL SANS-SERIF BOLD ITALIC CAPITAL L" -> 120391
      [] name = "MATHEMATICAL SANS-SERIF BOLD ITALIC CAPITAL M" -> 120392
      [] name = "MATHEMATICAL SANS-SERIF BOLD ITALIC CAPITAL N" -> 120393
      [] name = "MATHEMATICAL SANS-SERIF BOLD ITALIC CAPITAL O" -> 120394
      [] name = "MATHEMATICAL SANS-SERIF BOLD ITALIC CAPITAL P" -> 120395
      [] name = "MATHEMATICAL SANS-SERIF BOLD ITALIC CAPITAL Q" -> 120396
      [] name = "MATHEMATICAL SANS-SERIF BOLD ITALIC CAPITAL R" -> 120397
      [] name = "MATHEMATICAL SANS-SERIF BOLD ITALIC CAPITAL S" -> 120398
      [] name = "MATHEMATICAL SANS-SERIF BOLD ITALIC CAPITAL T" -> 120399
      [] name = "MATHEMATICAL SANS-SERIF BOLD ITALIC CAPITAL U" -> 120400
      [] name = "MATHEMATICAL SANS-SERIF BOLD ITALIC CAPITAL V" -> 120401
      [] name = "MATHEMATICAL SANS-SERIF BOLD ITALIC CAPITAL W" -> 120402
      [] name = "MATHEMATICAL SANS-SERIF BOLD ITALIC CAPITAL X" -> 120403
      [] name = "MATHEMATICAL SANS-SERIF BOLD ITALIC CAPITAL Y" -> 120404
      [] name = "MATHEMATICAL SANS-SERIF BOLD ITALIC CAPITAL Z" -> 120405
      [] name = "MATHEMATICAL SANS-SERIF BOLD ITALIC SMALL A" -> 120406
      [] name = "MATHEMATICAL SANS-SERIF BOLD ITALIC SMALL B" -> 120407
      [] name = "MATHEMATICAL SANS-SERIF BOLD ITALIC SMALL C" -> 120408
      [] name = "MATHEMATICAL SANS-SERIF BOLD ITALIC SMALL D" -> 120409
      [] name = "MATHEMATICAL SANS-SERIF BOLD ITALIC SMALL E" -> 120410
      [] name = "MATHEMATICAL SANS-SERIF BOLD ITALIC SMALL F" -> 120411
      [] name = "MATHEMATICAL SANS-SERIF BOLD ITALIC SMALL G" -> 120412
      [] name = "MATHEMATICAL SANS-SERIF BOLD ITALIC SMALL H" -> 120413
      [] name = "MATHEMATICAL SANS-SERIF BOLD ITALIC SMALL I" -> 120414
      [] name = "MATHEMATICAL SANS-SERIF BOLD ITALIC SMALL J" -> 120415
      [] name = "MATHEMATICAL SANS-SERIF BOLD ITALIC SMALL K" -> 120416
      [] name = "MATHEMATICAL SANS-SERIF BOLD ITALIC SMALL L" -> 120417
      [] name = "MATHEMATICAL SANS-SERIF BOLD ITALIC SMALL M" -> 120418
      [] name = "MATHEMATICAL SANS-SERIF BOLD ITALIC SMALL N" -> 120419
      [] name = "MATHEMATICAL SANS-SERIF BOLD ITALIC SMALL O" -> 120420
      [] name = "MATHEMATICAL SANS-SERIF BOLD ITALIC SMALL P" -> 120421
      [] name = "MATHEMATICAL SANS-SERIF BOLD ITALIC SMALL Q" -> 120422
      [] name = "MATHEMATICAL SANS-SERIF BOLD ITALIC SMALL R" -> 120423
      [] name = "MATHEMATICAL SANS-SERIF BOLD ITALIC SMALL S" -> 120424
      [] name = "MATHEMATICAL SANS-SERIF BOLD ITALIC SMALL T" -> 120425
      [] name = "MATHEMATICAL SANS-SERIF BOLD ITALIC SMALL U" -> 120426
      [] name = "MATHEMATICAL SANS-SERIF BOLD ITALIC SMALL V" -> 120427
      [] name = "MATHEMATICAL SANS-SERIF BOLD ITALIC SMALL W" -> 120428
      [] name = "MATHEMATICAL SANS-SERIF BOLD ITALIC SMALL X" -> 120429
      [] name = "MATHEMATICAL SANS-SERIF BOLD ITALIC SMALL Y" -> 120430
      [] name = "MATHEMATICAL SANS-SERIF BOLD ITALIC SMALL Z" -> 120431
      [] name = "MATHEMATICAL MONOSPACE CAPITAL A" -> 120432
      [] name = "MATHEMATICAL MONOSPACE CAPITAL B" -> 120433
      [] name = "MATHEMATICAL MONOSPACE CAPITAL C" -> 120434
      [] name = "MATHEMATICAL MONOSPACE CAPITAL D" -> 120435
      [] name = "MATHEMATICAL MONOSPACE CAPITAL E" -> 120436
      [] name = "MATHEMATICAL MONOSPACE CAPITAL F" -> 120437
      [] name = "MATHEMATICAL MONOSPACE CAPITAL G" -> 120438
      [] name = "MATHEMATICAL MONOSPACE CAPITAL H" -> 120439
      [] name = "MATHEMATICAL MONOSPACE CAPITAL I" -> 120440
      [] name = "MATHEMATICAL MONOSPACE CAPITAL J" -> 120441
      [] name = "MATHEMATICAL MONOSPACE CAPITAL K" -> 120442
      [] name = "MATHEMATICAL MONOSPACE CAPITAL L" -> 120443
      [] name = "MATHEMATICAL MONOSPACE CAPITAL M" -> 120444
      [] name = "MATHEMATICAL MONOSPACE CAPITAL N" -> 120445
      [] name = "MATHEMATICAL MONOSPACE CAPITAL O" -> 120446
      [] name = "MATHEMATICAL MONOSPACE CAPITAL P" -> 120447
      [] name = "MATHEMATICAL MONOSPACE CAPITAL Q" -> 120448
      [] name = "MATHEMATICAL MONOSPACE CAPITAL R" -> 120449
      [] name = "MATHEMATICAL MONOSPACE CAPITAL S" -> 120450
      [] name = "MATHEMATICAL MONOSPACE CAPITAL T" -> 120451
      [] name = "MATHEMATICAL MONOSPACE CAPITAL U" -> 120452
      [] name = "MATHEMATICAL MONOSPACE CAPITAL V" -> 120453
      [] name = "MATHEMATICAL MONOSPACE CAPITAL W" -> 120454
      [] name = "MATHEMATICAL MONOSPACE CAPITAL X" -> 120455
      [] name = "MATHEMATICAL MONOSPACE CAPITAL Y" -> 120456
      [] name = "MATHEMATICAL MONOSPACE CAPITAL Z" -> 120457
      [] name = "MATHEMATICAL MONOSPACE SMALL A" -> 120458
      [] name = "MATHEMATICAL MONOSPACE SMALL B" -> 120459
      [] name = "MATHEMATICAL MONOSPACE SMALL C" -> 120460
      [] name = "MATHEMATICAL MONOSPACE SMALL D" -> 120461
      [] name = "MATHEMATICAL MONOSPACE SMALL E" -> 120462
      [] name = "MATHEMATICAL MONOSPACE SMALL F" -> 120463
      [] name = "MATHEMATICAL MONOSPACE SMALL G" -> 120464
      [] name = "MATHEMATICAL MONOSPACE SMALL H" -> 120465
      [] name = "MATHEMATICAL MONOSPACE SMALL I" -> 120466
      [] name = "MATHEMATICAL MONOSPACE SMALL J" -> 120467
      [] name = "MATHEMATICAL MONOSPACE SMALL K" -> 120468
      [] name = "MATHEMATICAL MONOSPACE SMALL L" -> 120469
      [] name = "MATHEMATICAL MONOSPACE SMALL M" -> 120470
      [] name = "MATHEMATICAL MONOSPACE SMALL N" -> 120471
      [] name = "MATHEMATICAL MONOSPACE SMALL O" -> 120472
      [] name = "MATHEMATICAL MONOSPACE SMALL P" -> 120473
      [] name = "MATHEMATICAL MONOSPACE SMALL Q" -> 120474
      [] name = "MATHEMATICAL MONOSPACE SMALL R" -> 120475
      [] name = "MATHEMATICAL MONOSPACE SMALL S" -> 120476
      [] name = "MATHEMATICAL MONOSPACE SMALL T" -> 120477
      [] name = "MATHEMATICAL MONOSPACE SMALL U" -> 120478
      [] name = "MATHEMATICAL MONOSPACE SMALL V" -> 120479
      [] name = "MATHEMATICAL MONOSPACE SMALL W" -> 120480
      [] name = "MATHEMATICAL MONOSPACE SMALL X" -> 120481
      [] name = "MATHEMATICAL MONOSPACE SMALL Y" -> 120482
      [] name = "MATHEMATICAL MONOSPACE SMALL Z" -> 120483
      [] name = "MATHEMATICAL ITALIC SMALL DOTLESS I" -> 120484
      [] name = "MATHEMATICAL ITALIC SMALL DOTLESS J" -> 120485
      [] name = "MATHEMATICAL BOLD CAPITAL ALPHA" -> 120488
      [] name = "MATHEMATICAL BOLD CAPITAL BETA" -> 120489
      [] name = "MATHEMATICAL BOLD CAPITAL GAMMA" -> 120490
      [] name = "MATHEMATICAL BOLD CAPITAL DELTA" -> 120491
      [] name = "MATHEMATICAL BOLD CAPITAL EPSILON" -> 120492
      [] name = "MATHEMATICAL BOLD CAPITAL ZETA" -> 120493
      [] name = "MATHEMATICAL BOLD CAPITAL ETA" -> 120494
      [] name = "MATHEMATICAL BOLD CAPITAL THETA" -> 120495
      [] name = "MATHEMATICAL BOLD CAPITAL IOTA" -> 120496
      [] name = "MATHEMATICAL BOLD CAPITAL KAPPA" -> 120497
      [] name = "MATHEMATICAL BOLD CAPITAL LAMDA" -> 120498
      [] name = "MATHEMATICAL BOLD CAPITAL MU" -> 120499
      [] name = "MATHEMATICAL BOLD CAPITAL NU" -> 120500
      [] name = "MATHEMATICAL BOLD CAPITAL XI" -> 120501
      [] name = "MATHEMATICAL BOLD CAPITAL OMICRON" -> 120502
      [] name = "MATHEMATICAL BOLD CAPITAL PI" -> 120503
      [] name = "MATHEMATICAL BOLD CAPITAL RHO" -> 120504
      [] name = "MATHEMATICAL BOLD CAPITAL THETA SYMBOL" -> 120505
      [] name = "MATHEMATICAL BOLD CAPITAL SIGMA" -> 120506
      [] name = "MATHEMATICAL BOLD CAPITAL TAU" -> 120507
      [] name = "MATHEMATICAL BOLD CAPITAL UPSILON" -> 120508
      [] name = "MATHEMATICAL BOLD CAPITAL PHI" -> 120509
      [] name = "MATHEMATICAL BOLD CAPITAL CHI" -> 120510
      [] name = "MATHEMATICAL BOLD CAPITAL PSI" -> 120511
      [] name = "MATHEMATICAL BOLD CAPITAL OMEGA" -> 120512
      [] name = "MATHEMATICAL BOLD NABLA" -> 120513
      [] name = "MATHEMATICAL BOLD SMALL ALPHA" -> 120514
      [] name = "MATHEMATICAL BOLD SMALL BETA" -> 120515
      [] name = "MATHEMATICAL BOLD SMALL GAMMA" -> 120516
      [] name = "MATHEMATICAL BOLD SMALL DELTA" -> 120517
      [] name = "MATHEMATICAL BOLD SMALL EPSILON" -> 120518
      [] name = "MATHEMATICAL BOLD SMALL ZETA" -> 120519
      [] name = "MATHEMATICAL BOLD SMALL ETA" -> 120520
      [] name = "MATHEMATICAL BOLD SMALL THETA" -> 120521
      [] name = "MATHEMATICAL BOLD SMALL IOTA" -> 120522
      [] name = "MATHEMATICAL BOLD SMALL KAPPA" -> 120523
      [] name = "MATHEMATICAL BOLD SMALL LAMDA" -> 120524
      [] name = "MATHEMATICAL BOLD SMALL MU" -> 120525
      [] name = "MATHEMATICAL BOLD SMALL NU" -> 120526
      [] name = "MATHEMATICAL BOLD SMALL XI" -> 120527
      [] name = "MATHEMATICAL BOLD SMALL OMICRON" -> 120528
      [] name = "MATHEMATICAL BOLD SMALL PI" -> 120529
      [] name = "MATHEMATICAL BOLD SMALL RHO" -> 120530
      [] name = "MATHEMATICAL BOLD SMALL FINAL SIGMA" -> 120531
      [] name = "MATHEMATICAL BOLD SMALL SIGMA" -> 120532
      [] name = "MATHEMATICAL BOLD SMALL TAU" -> 120533
      [] name = "MATHEMATICAL BOLD SMALL UPSILON" -> 120534
      [] name = "MATHEMATICAL BOLD SMALL PHI" -> 120535
      [] name = "MATHEMATICAL BOLD SMALL CHI" -> 120536
      [] name = "MATHEMATICAL BOLD SMALL PSI" -> 120537
      [] name = "MATHEMATICAL BOLD SMALL OMEGA" -> 120538
      [] name = "MATHEMATICAL BOLD PARTIAL DIFFERENTIAL" -> 120539
      [] name = "MATHEMATICAL BOLD EPSILON SYMBOL" -> 120540
      [] name = "MATHEMATICAL BOLD THETA SYMBOL" -> 120541
      [] name = "MATHEMATICAL BOLD KAPPA SYMBOL" -> 120542
      [] name = "MATHEMATICAL BOLD PHI SYMBOL" -> 120543
      [] name = "MATHEMATICAL BOLD RHO SYMBOL" -> 120544
      [] name = "MATHEMATICAL BOLD PI SYMBOL" -> 120545
      [] name = "MATHEMATICAL ITALIC CAPITAL ALPHA" -> 120546
      [] name = "MATHEMATICAL ITALIC CAPITAL BETA" -> 120547
      [] name = "MATHEMATICAL ITALIC CAPITAL GAMMA" -> 120548
      [] name = "MATHEMATICAL ITALIC CAPITAL DELTA" -> 120549
      [] name = "MATHEMATICAL ITALIC CAPITAL EPSILON" -> 120550
      [] name = "MATHEMATICAL ITALIC CAPITAL ZETA" -> 120551
      [] name = "MATHEMATICAL ITALIC CAPITAL ETA" -> 120552
      [] name = "MATHEMATICAL ITALIC CAPITAL THETA" -> 120553
      [] name = "MATHEMATICAL ITALIC CAPITAL IOTA" -> 120554
      [] name = "MATHEMATICAL ITALIC CAPITAL KAPPA" -> 120555
      [] name = "MATHEMATICAL ITALIC CAPITAL LAMDA" -> 120556
      [] name = "MATHEMATICAL ITALIC CAPITAL MU" -> 120557
      [] name = "MATHEMATICAL ITALIC CAPITAL NU" -> 120558
      [] name = "MATHEMATICAL ITALIC CAPITAL XI" -> 120559
      [] name = "MATHEMATICAL ITALIC CAPITAL OMICRON" -> 120560
      [] name = "MATHEMATICAL ITALIC CAPITAL PI" -> 120561
      [] name = "MATHEMATICAL ITALIC CAPITAL RHO" -> 120562
      [] name = "MATHEMATICAL ITALIC CAPITAL THETA SYMBOL" -> 120563
      [] name = "MATHEMATICAL ITALIC CAPITAL SIGMA" -> 120564
      [] name = "MATHEMATICAL ITALIC CAPITAL TAU" -> 120565
      [] name = "MATHEMATICAL ITALIC CAPITAL UPSILON" -> 120566
      [] name = "MATHEMATICAL ITALIC CAPITAL PHI" -> 120567
      [] name = "MATHEMATICAL ITALIC CAPITAL CHI" -> 120568
      [] name = "MATHEMATICAL ITALIC CAPITAL PSI" -> 120569
      [] name = "MATHEMATICAL ITALIC CAPITAL OMEGA" -> 120570
      [] name = "MATHEMATICAL ITALIC NABLA" -> 120571
      [] name = "MATHEMATICAL ITALIC SMALL ALPHA" -> 120572
      [] name = "MATHEMATICAL ITALIC SMALL BETA" -> 120573
      [] name = "MATHEMATICAL ITALIC SMALL GAMMA" -> 120574
      [] name = "MATHEMATICAL ITALIC SMALL DELTA" -> 120575
      [] name = "MATHEMATICAL ITALIC SMALL EPSILON" -> 120576
      [] name = "MATHEMATICAL ITALIC SMALL ZETA" -> 120577
      [] name = "MATHEMATICAL ITALIC SMALL ETA" -> 120578
      [] name = "MATHEMATICAL ITALIC SMALL THETA" -> 120579
      [] name = "MATHEMATICAL ITALIC SMALL IOTA" -> 120580
      [] name = "MATHEMATICAL ITALIC SMALL KAPPA" -> 120581
      [] name = "MATHEMATICAL ITALIC SMALL LAMDA" -> 120582
      [] name = "MATHEMATICAL ITALIC SMALL MU" -> 120583
      [] name = "MATHEMATICAL ITALIC SMALL NU" -> 120584
      [] name = "MATHEMATICAL ITALIC SMALL XI" -> 120585
      [] name = "MATHEMATICAL ITALIC SMALL OMICRON" -> 120586
      [] name = "MATHEMATICAL ITALIC SMALL PI" -> 120587
      [] name = "MATHEMATICAL ITALIC SMALL RHO" -> 120588
      [] name = "MATHEMATICAL ITALIC SMALL FINAL SIGMA" -> 120589
      [] name = "MATHEMATICAL ITALIC SMALL SIGMA" -> 120590
      [] name = "MATHEMATICAL ITALIC SMALL TAU" -> 120591
      [] name = "MATHEMATICAL ITALIC SMALL UPSILON" -> 120592
      [] name = "MATHEMATICAL ITALIC SMALL PHI" -> 120593
      [] name = "MATHEMATICAL ITALIC SMALL CHI" -> 120594
      [] name = "MATHEMATICAL ITALIC SMALL PSI" -> 120595
      [] name = "MATHEMATICAL ITALIC SMALL OMEGA" -> 120596
      [] name = "MATHEMATICAL ITALIC PARTIAL DIFFERENTIAL" -> 120597
      [] name = "MATHEMATICAL ITALIC EPSILON SYMBOL" -> 120598
      [] name = "MATHEMATICAL ITALIC THETA SYMBOL" -> 120599
      [] name = "MATHEMATICAL ITALIC KAPPA SYMBOL" -> 120600
      [] name = "MATHEMATICAL ITALIC PHI SYMBOL" -> 120601
      [] name = "MATHEMATICAL ITALIC RHO SYMBOL" -> 120602
      [] name = "MATHEMATICAL ITALIC PI SYMBOL" -> 120603
      [] name = "MATHEMATICAL BOLD ITALIC CAPITAL ALPHA" -> 120604
      [] name = "MATHEMATICAL BOLD ITALIC CAPITAL BETA" -> 120605
      [] name = "MATHEMATICAL BOLD ITALIC CAPITAL GAMMA" -> 120606
      [] name = "MATHEMATICAL BOLD ITALIC CAPITAL DELTA" -> 120607
      [] name = "MATHEMATICAL BOLD ITALIC CAPITAL EPSILON" -> 120608
      [] name = "MATHEMATICAL BOLD ITALIC CAPITAL ZETA" -> 120609
      [] name = "MATHEMATICAL BOLD ITALIC CAPITAL ETA" -> 120610
      [] name = "MATHEMATICAL BOLD ITALIC CAPITAL THETA" -> 120611
      [] name = "MATHEMATICAL BOLD ITALIC CAPITAL IOTA" -> 120612
      [] name = "MATHEMATICAL BOLD ITALIC CAPITAL KAPPA" -> 120613
      [] name = "MATHEMATICAL BOLD ITALIC CAPITAL LAMDA" -> 120614
      [] name = "MATHEMATICAL BOLD ITALIC CAPITAL MU" -> 120615
      [] name = "MATHEMATICAL BOLD ITALIC CAPITAL NU" -> 120616
      [] name = "MATHEMATICAL BOLD ITALIC CAPITAL XI" -> 120617
      [] name = "MATHEMATICAL BOLD ITALIC CAPITAL OMICRON" -> 120618
      [] name = "MATHEMATICAL BOLD ITALIC CAPITAL PI" -> 120619
      [] name = "MATHEMATICAL BOLD ITALIC CAPITAL RHO" -> 120620
      [] name = "MATHEMATICAL BOLD ITALIC CAPITAL THETA SYMBOL" -> 120621
      [] name = "MATHEMATICAL BOLD ITALIC CAPITAL SIGMA" -> 120622
      [] name = "MATHEMATICAL BOLD ITALIC CAPITAL TAU" -> 120623
      [] name = "MATHEMATICAL BOLD ITALIC CAPITAL UPSILON" -> 120624
      [] name = "MATHEMATICAL BOLD ITALIC CAPITAL PHI" -> 120625
      [] name = "MATHEMATICAL BOLD ITALIC CAPITAL CHI" -> 120626
      [] name = "MATHEMATICAL BOLD ITALIC CAPITAL PSI" -> 120627
      [] name = "MATHEMATICAL BOLD ITALIC CAPITAL OMEGA" -> 120628
      [] name = "MATHEMATICAL BOLD ITALIC NABLA" -> 120629
      [] name = "MATHEMATICAL BOLD ITALIC SMALL ALPHA" -> 120630
      [] name = "MATHEMATICAL BOLD ITALIC SMALL BETA" -> 120631
      [] name = "MATHEMATICAL BOLD ITALIC SMALL GAMMA" -> 120632
      [] name = "MATHEMATICAL BOLD ITALIC SMALL DELTA" -> 120633
      [] name = "MATHEMATICAL BOLD ITALIC SMALL EPSILON" -> 120634
      [] name = "MATHEMATICAL BOLD ITALIC SMALL ZETA" -> 120635
      [] name = "MATHEMATICAL BOLD ITALIC SMALL ETA" -> 120636
      [] name = "MATHEMATICAL BOLD ITALIC SMALL THETA" -> 120637
      [] name = "MATHEMATICAL BOLD ITALIC SMALL IOTA" -> 120638
      [] name = "MATHEMATICAL BOLD ITALIC SMALL KAPPA" -> 120639
      [] name = "MATHEMATICAL BOLD ITALIC SMALL LAMDA" -> 120640
      [] name = "MATHEMATICAL BOLD ITALIC SMALL MU" -> 120641
      [] name = "MATHEMATICAL BOLD ITALIC SMALL NU" -> 120642
      [] name = "MATHEMATICAL BOLD ITALIC SMALL XI" -> 120643
      [] name = "MATHEMATICAL BOLD ITALIC SMALL OMICRON" -> 120644
      [] name = "MATHEMATICAL BOLD ITALIC SMALL PI" -> 120645
      [] name = "MATHEMATICAL BOLD ITALIC SMALL RHO" -> 120646
      [] name = "MATHEMATICAL BOLD ITALIC SMALL FINAL SIGMA" -> 120647
      [] name = "MATHEMATICAL BOLD ITALIC SMALL SIGMA" -> 120648
      [] name = "MATHEMATICAL BOLD ITALIC SMALL TAU" -> 120649
      [] name = "MATHEMATICAL BOLD ITALIC SMALL UPSILON" -> 120650
      [] name = "MATHEMATICAL BOLD ITALIC SMALL PHI" -> 120651
      [] name = "MATHEMATICAL BOLD ITALIC SMALL CHI" -> 120652
      [] name = "MATHEMATICAL BOLD ITALIC SMALL PSI" -> 120653
      [] name = "MATHEMATICAL BOLD ITALIC SMALL OMEGA" -> 120654
      [] name = "MATHEMATICAL BOLD ITALIC PARTIAL DIFFERENTIAL" -> 120655
      [] name = "MATHEMATICAL BOLD ITALIC EPSILON SYMBOL" -> 120656
      [] name = "MATHEMATICAL BOLD ITALIC THETA SYMBOL" -> 120657
      [] name = "MATHEMATICAL BOLD ITALIC KAPPA SYMBOL" -> 120658
      [] name = "MATHEMATICAL BOLD ITALIC PHI SYMBOL" -> 120659
      [] name = "MATHEMATICAL BOLD ITALIC RHO SYMBOL" -> 120660
      [] name = "MATHEMATICAL BOLD ITALIC PI SYMBOL" -> 120661
      [] name = "MATHEMATICAL SANS-SERIF BOLD CAPITAL ALPHA" -> 120662
      [] name = "MATHEMATICAL SANS-SERIF BOLD CAPITAL BETA" -> 120663
      [] name = "MATHEMATICAL SANS-SERIF BOLD CAPITAL GAMMA" -> 120664
      [] name = "MATHEMATICAL SANS-SERIF BOLD CAPITAL DELTA" -> 120665
      [] name = "MATHEMATICAL SANS-SERIF BOLD CAPITAL EPSILON" -> 120666
      [] name = "MATHEMATICAL SANS-SERIF BOLD CAPITAL ZETA" -> 120667
      [] name = "MATHEMATICAL SANS-SERIF BOLD CAPITAL ETA" -> 120668
      [] name = "MATHEMATICAL SANS-SERIF BOLD CAPITAL THETA" -> 120669
      [] name = "MATHEMATICAL SANS-SERIF BOLD CAPITAL IOTA" -> 120670
      [] name = "MATHEMATICAL SANS-SERIF BOLD CAPITAL KAPPA" -> 120671
      [] name = "MATHEMATICAL SANS-SERIF BOLD CAPITAL LAMDA" -> 120672
      [] name = "MATHEMATICAL SANS-SERIF BOLD CAPITAL MU" -> 120673
      [] name = "MATHEMATICAL SANS-SERIF BOLD CAPITAL NU" -> 120674
      [] name = "MATHEMATICAL SANS-SERIF BOLD CAPITAL XI" -> 120675
      [] name = "MATHEMATICAL SANS-SERIF BOLD CAPITAL OMICRON" -> 120676
      [] name = "MATHEMATICAL SANS-SERIF BOLD CAPITAL PI" -> 120677
      [] name = "MATHEMATICAL SANS-SERIF BOLD CAPITAL RHO" -> 120678
      [] name = "MATHEMATICAL SANS-SERIF BOLD CAPITAL THETA SYMBOL" -> 120679
      [] name = "MATHEMATICAL SANS-SERIF BOLD CAPITAL SIGMA" -> 120680
      [] name = "MATHEMATICAL SANS-SERIF BOLD CAPITAL TAU" -> 120681
      [] name = "MATHEMATICAL SANS-SERIF BOLD CAPITAL UPSILON" -> 120682
      [] name = "MATHEMATICAL SANS-SERIF BOLD CAPITAL PHI" -> 120683
      [] name = "MATHEMATICAL SANS-SERIF BOLD CAPITAL CHI" -> 120684
      [] name = "MATHEMATICAL SANS-SERIF BOLD CAPITAL PSI" -> 120685
      [] name = "MATHEMATICAL SANS-SERIF BOLD CAPITAL OMEGA" -> 120686
      [] name = "MATHEMATICAL SANS-SERIF BOLD NABLA" -> 120687
      [] name = "MATHEMATICAL SANS-SERIF BOLD SMALL ALPHA" -> 120688
      [] name = "MATHEMATICAL SANS-SERIF BOLD SMALL BETA" -> 120689
      [] name = "MATHEMATICAL SANS-SERIF BOLD SMALL GAMMA" -> 120690
      [] name = "MATHEMATICAL SANS-SERIF BOLD SMALL DELTA" -> 120691
      [] name = "MATHEMATICAL SANS-SERIF BOLD SMALL EPSILON" -> 120692
      [] name = "MATHEMATICAL SANS-SERIF BOLD SMALL ZETA" -> 120693
      [] name = "MATHEMATICAL SANS-SERIF BOLD SMALL ETA" -> 120694
      [] name = "MATHEMATICAL SANS-SERIF BOLD SMALL THETA" -> 120695
      [] name = "MATHEMATICAL SANS-SERIF BOLD SMALL IOTA" -> 120696
      [] name = "MATHEMATICAL SANS-SERIF BOLD SMALL KAPPA" -> 120697
      [] name = "MATHEMATICAL SANS-SERIF BOLD SMALL LAMDA" -> 120698
      [] name = "MATHEMATICAL SANS-SERIF BOLD SMALL MU" -> 120699
      [] name = "MATHEMATICAL SANS-SERIF BOLD SMALL NU" -> 120700
      [] name = "MATHEMATICAL SANS-SERIF BOLD SMALL XI" -> 120701
      [] name = "MATHEMATICAL SANS-SERIF BOLD SMALL OMICRON" -> 120702
      [] name = "MATHEMATICAL SANS-SERIF BOLD SMALL PI" -> 120703
      [] name = "MATHEMATICAL SANS-SERIF BOLD SMALL RHO" -> 120704
      [] name = "MATHEMATICAL SANS-SERIF BOLD SMALL FINAL SIGMA" -> 120705
      [] name = "MATHEMATICAL SANS-SERIF BOLD SMALL SIGMA" -> 120706
      [] name = "MATHEMATICAL SANS-SERIF BOLD SMALL TAU" -> 120707
      [] name = "MATHEMATICAL SANS-SERIF BOLD SMALL UPSILON" -> 120708
      [] name = "MATHEMATICAL SANS-SERIF BOLD SMALL PHI" -> 120709
      [] name = "MATHEMATICAL SANS-SERIF BOLD SMALL CHI" -> 120710
      [] name = "MATHEMATICAL SANS-SERIF BOLD SMALL PSI" -> 120711
      [] name = "MATHEMATICAL SANS-SERIF BOLD SMALL OMEGA" -> 120712
      [] name = "MATHEMATICAL SANS-SERIF BOLD PARTIAL DIFFERENTIAL" -> 120713
      [] name = "MATHEMATICAL SANS-SERIF BOLD EPSILON SYMBOL" -> 120714
      [] name = "MATHEMATICAL SANS-SERIF BOLD THETA SYMBOL" -> 120715
      [] name = "MATHEMATICAL SANS-SERIF BOLD KAPPA SYMBOL" -> 120716
      [] name = "MATHEMATICAL SANS-SERIF BOLD PHI SYMBOL" -> 120717
      [] name = "MATHEMATICAL SANS-SERIF BOLD RHO SYMBOL" -> 120718
      [] name = "MATHEMATICAL SANS-SERIF BOLD PI SYMBOL" -> 120719
      [] name = "MATHEMATICAL SANS-SERIF BOLD ITALIC CAPITAL ALPHA" -> 120720
      [] name = "MATHEMATICAL SANS-SERIF BOLD ITALIC CAPITAL BETA" -> 120721
      [] name = "MATHEMATICAL SANS-SERIF BOLD ITALIC CAPITAL GAMMA" -> 120722
      [] name = "MATHEMATICAL SANS-SERIF BOLD ITALIC CAPITAL DELTA" -> 120723
      [] name = "MATHEMATICAL SANS-SERIF BOLD ITALIC CAPITAL EPSILON" -> 120724
      [] name = "MATHEMATICAL SANS-SERIF BOLD ITALIC CAPITAL ZETA" -> 120725
      [] name = "MATHEMATICAL SANS-SERIF BOLD ITALIC CAPITAL ETA" -> 120726
      [] name = "MATHEMATICAL SANS-SERIF BOLD ITALIC CAPITAL THETA" -> 120727
      [] name = "MATHEMATICAL SANS-SERIF BOLD ITALIC CAPITAL IOTA" -> 120728
      [] name = "MATHEMATICAL SANS-SERIF BOLD ITALIC CAPITAL KAPPA" -> 120729
      [] name = "MATHEMATICAL SANS-SERIF BOLD ITALIC CAPITAL LAMDA" -> 120730
      [] name = "MATHEMATICAL SANS-SERIF BOLD ITALIC CAPITAL MU" -> 120731
      [] name = "MATHEMATICAL SANS-SERIF BOLD ITALIC CAPITAL NU" -> 120732
      [] name = "MATHEMATICAL SANS-SERIF BOLD ITALIC CAPITAL XI" -> 120733
      [] name = "MATHEMATICAL SANS-SERIF BOLD ITALIC CAPITAL OMICRON" -> 120734
      [] name = "MATHEMATICAL SANS-SERIF BOLD ITALIC CAPITAL PI" -> 120735
      [] name = "MATHEMATICAL SANS-SERIF BOLD ITALIC CAPITAL RHO" -> 120736
      [] name = "MATHEMATICAL SANS-SERIF BOLD ITALIC CAPITAL THETA SYMBOL" -> 120737
      [] name = "MATHEMATICAL SANS-SERIF BOLD ITALIC CAPITAL SIGMA" -> 120738
      [] name = "MATHEMATICAL SANS-SERIF BOLD ITALIC CAPITAL TAU" -> 120739
      [] name = "MATHEMATICAL SANS-SERIF BOLD ITALIC CAPITAL UPSILON" -> 120740
      [] name = "MATHEMATICAL SANS-SERIF BOLD ITALIC CAPITAL PHI" -> 120741
      [] name = "MATHEMATICAL SANS-SERIF BOLD ITALIC CAPITAL CHI" -> 120742
      [] name = "MATHEMATICAL SANS-SERIF BOLD ITALIC CAPITAL PSI" -> 120743
      [] name = "MATHEMATICAL SANS-SERIF BOLD ITALIC CAPITAL OMEGA" -> 120744
      [] name = "MATHEMATICAL SANS-SERIF BOLD ITALIC NABLA" -> 120745
      [] name = "MATHEMATICAL SANS-SERIF BOLD ITALIC SMALL ALPHA" -> 120746
      [] name = "MATHEMATICAL SANS-SERIF BOLD ITALIC SMALL BETA" -> 120747
      [] name = "MATHEMATICAL SANS-SERIF BOLD ITALIC SMALL GAMMA" -> 120748
      [] name = "MATHEMATICAL SANS-SERIF BOLD ITALIC SMALL DELTA" -> 120749
      [] name = "MATHEMATICAL SANS-SERIF BOLD ITALIC SMALL EPSILON" -> 120750
      [] name = "MATHEMATICAL SANS-SERIF BOLD ITALIC SMALL ZETA" -> 120751
      [] name = "MATHEMATICAL SANS-SERIF BOLD ITALIC SMALL ETA" -> 120752
      [] name = "MATHEMATICAL SANS-SERIF BOLD ITALIC SMALL THETA" -> 120753
      [] name = "MATHEMATICAL SANS-SERIF BOLD ITALIC SMALL IOTA" -> 120754
      [] name = "MATHEMATICAL SANS-SERIF BOLD ITALIC SMALL KAPPA" -> 120755
      [] name = "MATHEMATICAL SANS-SERIF BOLD ITALIC SMALL LAMDA" -> 120756
      [] name = "MATHEMATICAL SANS-SERIF BOLD ITALIC SMALL MU" -> 120757
      [] name = "MATHEMATICAL SANS-SERIF BOLD ITALIC SMALL NU" -> 120758
      [] name = "MATHEMATICAL SANS-SERIF BOLD ITALIC SMALL XI" -> 120759
      [] name = "MATHEMATICAL SANS-SERIF BOLD ITALIC SMALL OMICRON" -> 120760
      [] name = "MATHEMATICAL SANS-SERIF BOLD ITALIC SMALL PI" -> 120761
      [] name = "MATHEMATICAL SANS-SERIF BOLD ITALIC SMALL RHO" -> 120762
      [] name = "MATHEMATICAL SANS-SERIF BOLD ITALIC SMALL FINAL SIGMA" -> 120763
      [] name = "MATHEMATICAL SANS-SERIF BOLD ITALIC SMALL SIGMA" -> 120764
      [] name = "MATHEMATICAL SANS-SERIF BOLD ITALIC SMALL TAU" -> 120765
      [] name = "MATHEMATICAL SANS-SERIF BOLD ITALIC SMALL UPSILON" -> 120766
      [] name = "MATHEMATICAL SANS-SERIF BOLD ITALIC SMALL PHI" -> 120767
      [] name = "MATHEMATICAL SANS-SERIF BOLD ITALIC SMALL CHI" -> 120768
      [] name = "MATHEMATICAL SANS-SERIF BOLD ITALIC SMALL PSI" -> 120769
      [] name = "MATHEMATICAL SANS-SERIF BOLD ITALIC SMALL OMEGA" -> 120770
      [] name = "MATHEMATICAL SANS-SERIF BOLD ITALIC PARTIAL DIFFERENTIAL" -> 120771
      [] name = "MATHEMATICAL SANS-SERIF BOLD ITALIC EPSILON SYMBOL" -> 120772
      [] name = "MATHEMATICAL SANS-SERIF BOLD ITALIC THETA SYMBOL" -> 120773
      [] name = "MATHEMATICAL SANS-SERIF BOLD ITALIC KAPPA SYMBOL" -> 120774
      [] name = "MATHEMATICAL SANS-SERIF BOLD ITALIC PHI SYMBOL" -> 120775
      [] name = "MATHEMATICAL SANS-SERIF BOLD ITALIC RHO SYMBOL" -> 120776
      [] name = "MATHEMATICAL SANS-SERIF BOLD ITALIC PI SYMBOL" -> 120777
      [] name = "MATHEMATICAL BOLD CAPITAL DIGAMMA" -> 120778
      [] name = "MATHEMATICAL BOLD SMALL DIGAMMA" -> 120779
      [] name = "MATHEMATICAL BOLD DIGIT ZERO" -> 120782
      [] name = "MATHEMATICAL BOLD DIGIT ONE" -> 120783
      [] name = "MATHEMATICAL BOLD DIGIT TWO" -> 120784
      [] name = "MATHEMATICAL BOLD DIGIT THREE" -> 120785
      [] name = "MATHEMATICAL BOLD DIGIT FOUR" -> 120786
      [] name = "MATHEMATICAL BOLD DIGIT FIVE" -> 120787
      [] name = "MATHEMATICAL BOLD DIGIT SIX" -> 120788
      [] name = "MATHEMATICAL BOLD DIGIT SEVEN" -> 120789
      [] name = "MATHEMATICAL BOLD DIGIT EIGHT" -> 120790
      [] name = "MATHEMATICAL BOLD DIGIT NINE" -> 120791
      [] name = "MATHEMATICAL DOUBLE-STRUCK DIGIT ZERO" -> 120792
      [] name = "MATHEMATICAL DOUBLE-STRUCK DIGIT ONE" -> 120793
      [] name = "MATHEMATICAL DOUBLE-STRUCK DIGIT TWO" -> 120794
      [] name = "MATHEMATICAL DOUBLE-STRUCK DIGIT THREE" -> 120795
      [] name = "MATHEMATICAL DOUBLE-STRUCK DIGIT FOUR" -> 120796
      [] name = "MATHEMATICAL DOUBLE-STRUCK DIGIT FIVE" -> 120797
      [] name = "MATHEMATICAL DOUBLE-STRUCK DIGIT SIX" -> 120798
      [] name = "MATHEMATICAL DOUBLE-STRUCK DIGIT SEVEN" -> 120799
      [] name = "MATHEMATICAL DOUBLE-STRUCK DIGIT EIGHT" -> 120800
      [] name = "MATHEMATICAL DOUBLE-STRUCK DIGIT NINE" -> 120801
      [] name = "MATHEMATICAL SANS-SERIF DIGIT ZERO" -> 120802
      [] name = "MATHEMATICAL SANS-SERIF DIGIT ONE" -> 120803
      [] name = "MATHEMATICAL SANS-SERIF DIGIT TWO" -> 120804
      [] name = "MATHEMATICAL SANS-SERIF DIGIT THREE" -> 120805
      [] name = "MATHEMATICAL SANS-SERIF DIGIT FOUR" -> 120806
      [] name = "MATHEMATICAL SANS-SERIF DIGIT FIVE" -> 120807
      [] name = "MATHEMATICAL SANS-SERIF DIGIT SIX" -> 120808
      [] name = "MATHEMATICAL SANS-SERIF DIGIT SEVEN" -> 120809
      [] name = "MATHEMATICAL SANS-SERIF DIGIT EIGHT" -> 120810
      [] name = "MATHEMATICAL SANS-SERIF DIGIT NINE" -> 120811
      [] name = "MATHEMATICAL SANS-SERIF BOLD DIGIT ZERO" -> 120812
      [] name = "MATHEMATICAL SANS-SERIF BOLD DIGIT ONE" -> 120813
      [] name = "MATHEMATICAL SANS-SERIF BOLD DIGIT TWO" -> 120814
      [] name = "MATHEMATICAL SANS-SERIF BOLD DIGIT THREE" -> 120815
      [] name = "MATHEMATICAL SANS-SERIF BOLD DIGIT FOUR" -> 120816
      [] name = "MATHEMATICAL SANS-SERIF BOLD DIGIT FIVE" -> 120817
      [] name = "MATHEMATICAL SANS-SERIF BOLD DIGIT SIX" -> 120818
      [] name = "MATHEMATICAL SANS-SERIF BOLD DIGIT SEVEN" -> 120819
      [] name = "MATHEMATICAL SANS-SERIF BOLD DIGIT EIGHT" -> 120820
      [] name = "MATHEMATICAL SANS-SERIF BOLD DIGIT NINE" -> 120821
      [] name = "MATHEMATICAL MONOSPACE DIGIT ZERO" -> 120822
      [] name = "MATHEMATICAL MONOSPACE DIGIT ONE" -> 120823
      [] name = "MATHEMATICAL MONOSPACE DIGIT TWO" -> 120824
      [] name = "MATHEMATICAL MONOSPACE DIGIT THREE" -> 120825
      [] name = "MATHEMATICAL MONOSPACE DIGIT FOUR" -> 120826
      [] name = "MATHEMATICAL MONOSPACE DIGIT FIVE" -> 120827
      [] name = "MATHEMATICAL MONOSPACE DIGIT SIX" -> 120828
      [] name = "MATHEMATICAL MONOSPACE DIGIT SEVEN" -> 120829
      [] name = "MATHEMATICAL MONOSPACE DIGIT EIGHT" -> 120830
      [] name = "MATHEMATICAL MONOSPACE DIGIT NINE" -> 120831
      [] name = "SIGNWRITING HAND-FIST INDEX" -> 120832
      [] name = "SIGNWRITING HAND-CIRCLE INDEX" -> 120833
      [] name = "SIGNWRITING HAND-CUP INDEX" -> 120834
      [] name = "SIGNWRITING HAND-OVAL INDEX" -> 120835
      [] name = "SIGNWRITING HAND-HINGE INDEX" -> 120836
      [] name = "SIGNWRITING HAND-ANGLE INDEX" -> 120837
      [] name = "SIGNWRITING HAND-FIST INDEX BENT" -> 120838
      [] name = "SIGNWRITING HAND-CIRCLE INDEX BENT" -> 120839
      [] name = "SIGNWRITING HAND-FIST THUMB UNDER INDEX BENT" -> 120840
      [] name = "SIGNWRITING HAND-FIST INDEX RAISED KNUCKLE" -> 120841
      [] name = "SIGNWRITING HAND-FIST INDEX CUPPED" -> 120842
      [] name = "SIGNWRITING HAND-FIST INDEX HINGED" -> 120843
      [] name = "SIGNWRITING HAND-FIST INDEX HINGED LOW" -> 120844
      [] name = "SIGNWRITING HAND-CIRCLE INDEX HINGE" -> 120845
      [] name = "SIGNWRITING HAND-FIST INDEX MIDDLE" -> 120846
      [] name = "SIGNWRITING HAND-CIRCLE INDEX MIDDLE" -> 120847
      [] name = "SIGNWRITING HAND-FIST INDEX MIDDLE BENT" -> 120848
      [] name = "SIGNWRITING HAND-FIST INDEX MIDDLE RAISED KNUCKLES" -> 120849
      [] name = "SIGNWRITING HAND-FIST INDEX MIDDLE HINGED" -> 120850
      [] name = "SIGNWRITING HAND-FIST INDEX UP MIDDLE HINGED" -> 120851
      [] name = "SIGNWRITING HAND-FIST INDEX HINGED MIDDLE UP" -> 120852
      [] name = "SIGNWRITING HAND-FIST INDEX MIDDLE CONJOINED" -> 120853
      [] name = "SIGNWRITING HAND-FIST INDEX MIDDLE CONJOINED INDEX BENT" -> 120854
      [] name = "SIGNWRITING HAND-FIST INDEX MIDDLE CONJOINED MIDDLE BENT" -> 120855
      [] name = "SIGNWRITING HAND-FIST INDEX MIDDLE CONJOINED CUPPED" -> 120856
      [] name = "SIGNWRITING HAND-FIST INDEX MIDDLE CONJOINED HINGED" -> 120857
      [] name = "SIGNWRITING HAND-FIST INDEX MIDDLE CROSSED" -> 120858
      [] name = "SIGNWRITING HAND-CIRCLE INDEX MIDDLE CROSSED" -> 120859
      [] name = "SIGNWRITING HAND-FIST MIDDLE BENT OVER INDEX" -> 120860
      [] name = "SIGNWRITING HAND-FIST INDEX BENT OVER MIDDLE" -> 120861
      [] name = "SIGNWRITING HAND-FIST INDEX MIDDLE THUMB" -> 120862
      [] name = "SIGNWRITING HAND-CIRCLE INDEX MIDDLE THUMB" -> 120863
      [] name = "SIGNWRITING HAND-FIST INDEX MIDDLE STRAIGHT THUMB BENT" -> 120864
      [] name = "SIGNWRITING HAND-FIST INDEX MIDDLE BENT THUMB STRAIGHT" -> 120865
      [] name = "SIGNWRITING HAND-FIST INDEX MIDDLE THUMB BENT" -> 120866
      [] name = "SIGNWRITING HAND-FIST INDEX MIDDLE HINGED SPREAD THUMB SIDE" -> 120867
      [] name = "SIGNWRITING HAND-FIST INDEX UP MIDDLE HINGED THUMB SIDE" -> 120868
      [] name = "SIGNWRITING HAND-FIST INDEX UP MIDDLE HINGED THUMB CONJOINED" -> 120869
      [] name = "SIGNWRITING HAND-FIST INDEX HINGED MIDDLE UP THUMB SIDE" -> 120870
      [] name = "SIGNWRITING HAND-FIST INDEX MIDDLE UP SPREAD THUMB FORWARD" -> 120871
      [] name = "SIGNWRITING HAND-FIST INDEX MIDDLE THUMB CUPPED" -> 120872
      [] name = "SIGNWRITING HAND-FIST INDEX MIDDLE THUMB CIRCLED" -> 120873
      [] name = "SIGNWRITING HAND-FIST INDEX MIDDLE THUMB HOOKED" -> 120874
      [] name = "SIGNWRITING HAND-FIST INDEX MIDDLE THUMB HINGED" -> 120875
      [] name = "SIGNWRITING HAND-FIST THUMB BETWEEN INDEX MIDDLE STRAIGHT" -> 120876
      [] name = "SIGNWRITING HAND-FIST INDEX MIDDLE CONJOINED THUMB SIDE" -> 120877
      [] name = "SIGNWRITING HAND-FIST INDEX MIDDLE CONJOINED THUMB SIDE CONJOINED" -> 120878
      [] name = "SIGNWRITING HAND-FIST INDEX MIDDLE CONJOINED THUMB SIDE BENT" -> 120879
      [] name = "SIGNWRITING HAND-FIST MIDDLE THUMB HOOKED INDEX UP" -> 120880
      [] name = "SIGNWRITING HAND-FIST INDEX THUMB HOOKED MIDDLE UP" -> 120881
      [] name = "SIGNWRITING HAND-FIST INDEX MIDDLE CONJOINED HINGED THUMB SIDE" -> 120882
      [] name = "SIGNWRITING HAND-FIST INDEX MIDDLE CROSSED THUMB SIDE" -> 120883
      [] name = "SIGNWRITING HAND-FIST INDEX MIDDLE CONJOINED THUMB FORWARD" -> 120884
      [] name = "SIGNWRITING HAND-FIST INDEX MIDDLE CONJOINED CUPPED THUMB FORWARD" -> 120885
      [] name = "SIGNWRITING HAND-FIST MIDDLE THUMB CUPPED INDEX UP" -> 120886
      [] name = "SIGNWRITING HAND-FIST INDEX THUMB CUPPED MIDDLE UP" -> 120887
      [] name = "SIGNWRITING HAND-FIST MIDDLE THUMB CIRCLED INDEX UP" -> 120888
      [] name = "SIGNWRITING HAND-FIST MIDDLE THUMB CIRCLED INDEX HINGED" -> 120889
      [] name = "SIGNWRITING HAND-FIST INDEX THUMB ANGLED OUT MIDDLE UP" -> 120890
      [] name = "SIGNWRITING HAND-FIST INDEX THUMB ANGLED IN MIDDLE UP" -> 120891
      [] name = "SIGNWRITING HAND-FIST INDEX THUMB CIRCLED MIDDLE UP" -> 120892
      [] name = "SIGNWRITING HAND-FIST INDEX MIDDLE THUMB CONJOINED HINGED" -> 120893
      [] name = "SIGNWRITING HAND-FIST INDEX MIDDLE THUMB ANGLED OUT" -> 120894
      [] name = "SIGNWRITING HAND-FIST INDEX MIDDLE THUMB ANGLED" -> 120895
      [] name = "SIGNWRITING HAND-FIST MIDDLE THUMB ANGLED OUT INDEX UP" -> 120896
      [] name = "SIGNWRITING HAND-FIST MIDDLE THUMB ANGLED OUT INDEX CROSSED" -> 120897
      [] name = "SIGNWRITING HAND-FIST MIDDLE THUMB ANGLED INDEX UP" -> 120898
      [] name = "SIGNWRITING HAND-FIST INDEX THUMB HOOKED MIDDLE HINGED" -> 120899
      [] name = "SIGNWRITING HAND-FLAT FOUR FINGERS" -> 120900
      [] name = "SIGNWRITING HAND-FLAT FOUR FINGERS BENT" -> 120901
      [] name = "SIGNWRITING HAND-FLAT FOUR FINGERS HINGED" -> 120902
      [] name = "SIGNWRITING HAND-FLAT FOUR FINGERS CONJOINED" -> 120903
      [] name = "SIGNWRITING HAND-FLAT FOUR FINGERS CONJOINED SPLIT" -> 120904
      [] name = "SIGNWRITING HAND-CLAW FOUR FINGERS CONJOINED" -> 120905
      [] name = "SIGNWRITING HAND-FIST FOUR FINGERS CONJOINED BENT" -> 120906
      [] name = "SIGNWRITING HAND-HINGE FOUR FINGERS CONJOINED" -> 120907
      [] name = "SIGNWRITING HAND-FLAT FIVE FINGERS SPREAD" -> 120908
      [] name = "SIGNWRITING HAND-FLAT HEEL FIVE FINGERS SPREAD" -> 120909
      [] name = "SIGNWRITING HAND-FLAT FIVE FINGERS SPREAD FOUR BENT" -> 120910
      [] name = "SIGNWRITING HAND-FLAT HEEL FIVE FINGERS SPREAD FOUR BENT" -> 120911
      [] name = "SIGNWRITING HAND-FLAT FIVE FINGERS SPREAD BENT" -> 120912
      [] name = "SIGNWRITING HAND-FLAT HEEL FIVE FINGERS SPREAD BENT" -> 120913
      [] name = "SIGNWRITING HAND-FLAT FIVE FINGERS SPREAD THUMB FORWARD" -> 120914
      [] name = "SIGNWRITING HAND-CUP FIVE FINGERS SPREAD" -> 120915
      [] name = "SIGNWRITING HAND-CUP FIVE FINGERS SPREAD OPEN" -> 120916
      [] name = "SIGNWRITING HAND-HINGE FIVE FINGERS SPREAD OPEN" -> 120917
      [] name = "SIGNWRITING HAND-OVAL FIVE FINGERS SPREAD" -> 120918
      [] name = "SIGNWRITING HAND-FLAT FIVE FINGERS SPREAD HINGED" -> 120919
      [] name = "SIGNWRITING HAND-FLAT FIVE FINGERS SPREAD HINGED THUMB SIDE" -> 120920
      [] name = "SIGNWRITING HAND-FLAT FIVE FINGERS SPREAD HINGED NO THUMB" -> 120921
      [] name = "SIGNWRITING HAND-FLAT" -> 120922
      [] name = "SIGNWRITING HAND-FLAT BETWEEN PALM FACINGS" -> 120923
      [] name = "SIGNWRITING HAND-FLAT HEEL" -> 120924
      [] name = "SIGNWRITING HAND-FLAT THUMB SIDE" -> 120925
      [] name = "SIGNWRITING HAND-FLAT HEEL THUMB SIDE" -> 120926
      [] name = "SIGNWRITING HAND-FLAT THUMB BENT" -> 120927
      [] name = "SIGNWRITING HAND-FLAT THUMB FORWARD" -> 120928
      [] name = "SIGNWRITING HAND-FLAT SPLIT INDEX THUMB SIDE" -> 120929
      [] name = "SIGNWRITING HAND-FLAT SPLIT CENTRE" -> 120930
      [] name = "SIGNWRITING HAND-FLAT SPLIT CENTRE THUMB SIDE" -> 120931
      [] name = "SIGNWRITING HAND-FLAT SPLIT CENTRE THUMB SIDE BENT" -> 120932
      [] name = "SIGNWRITING HAND-FLAT SPLIT LITTLE" -> 120933
      [] name = "SIGNWRITING HAND-CLAW" -> 120934
      [] name = "SIGNWRITING HAND-CLAW THUMB SIDE" -> 120935
      [] name = "SIGNWRITING HAND-CLAW NO THUMB" -> 120936
      [] name = "SIGNWRITING HAND-CLAW THUMB FORWARD" -> 120937
      [] name = "SIGNWRITING HAND-HOOK CURLICUE" -> 120938
      [] name = "SIGNWRITING HAND-HOOK" -> 120939
      [] name = "SIGNWRITING HAND-CUP OPEN" -> 120940
      [] name = "SIGNWRITING HAND-CUP" -> 120941
      [] name = "SIGNWRITING HAND-CUP OPEN THUMB SIDE" -> 120942
      [] name = "SIGNWRITING HAND-CUP THUMB SIDE" -> 120943
      [] name = "SIGNWRITING HAND-CUP OPEN NO THUMB" -> 120944
      [] name = "SIGNWRITING HAND-CUP NO THUMB" -> 120945
      [] name = "SIGNWRITING HAND-CUP OPEN THUMB FORWARD" -> 120946
      [] name = "SIGNWRITING HAND-CUP THUMB FORWARD" -> 120947
      [] name = "SIGNWRITING HAND-CURLICUE OPEN" -> 120948
      [] name = "SIGNWRITING HAND-CURLICUE" -> 120949
      [] name = "SIGNWRITING HAND-CIRCLE" -> 120950
      [] name = "SIGNWRITING HAND-OVAL" -> 120951
      [] name = "SIGNWRITING HAND-OVAL THUMB SIDE" -> 120952
      [] name = "SIGNWRITING HAND-OVAL NO THUMB" -> 120953
      [] name = "SIGNWRITING HAND-OVAL THUMB FORWARD" -> 120954
      [] name = "SIGNWRITING HAND-HINGE OPEN" -> 120955
      [] name = "SIGNWRITING HAND-HINGE OPEN THUMB FORWARD" -> 120956
      [] name = "SIGNWRITING HAND-HINGE" -> 120957
      [] name = "SIGNWRITING HAND-HINGE SMALL" -> 120958
      [] name = "SIGNWRITING HAND-HINGE OPEN THUMB SIDE" -> 120959
      [] name = "SIGNWRITING HAND-HINGE THUMB SIDE" -> 120960
      [] name = "SIGNWRITING HAND-HINGE OPEN NO THUMB" -> 120961
      [] name = "SIGNWRITING HAND-HINGE NO THUMB" -> 120962
      [] name = "SIGNWRITING HAND-HINGE THUMB SIDE TOUCHING INDEX" -> 120963
      [] name = "SIGNWRITING HAND-HINGE THUMB BETWEEN MIDDLE RING" -> 120964
      [] name = "SIGNWRITING HAND-ANGLE" -> 120965
      [] name = "SIGNWRITING HAND-FIST INDEX MIDDLE RING" -> 120966
      [] name = "SIGNWRITING HAND-CIRCLE INDEX MIDDLE RING" -> 120967
      [] name = "SIGNWRITING HAND-HINGE INDEX MIDDLE RING" -> 120968
      [] name = "SIGNWRITING HAND-ANGLE INDEX MIDDLE RING" -> 120969
      [] name = "SIGNWRITING HAND-HINGE LITTLE" -> 120970
      [] name = "SIGNWRITING HAND-FIST INDEX MIDDLE RING BENT" -> 120971
      [] name = "SIGNWRITING HAND-FIST INDEX MIDDLE RING CONJOINED" -> 120972
      [] name = "SIGNWRITING HAND-HINGE INDEX MIDDLE RING CONJOINED" -> 120973
      [] name = "SIGNWRITING HAND-FIST LITTLE DOWN" -> 120974
      [] name = "SIGNWRITING HAND-FIST LITTLE DOWN RIPPLE STRAIGHT" -> 120975
      [] name = "SIGNWRITING HAND-FIST LITTLE DOWN RIPPLE CURVED" -> 120976
      [] name = "SIGNWRITING HAND-FIST LITTLE DOWN OTHERS CIRCLED" -> 120977
      [] name = "SIGNWRITING HAND-FIST LITTLE UP" -> 120978
      [] name = "SIGNWRITING HAND-FIST THUMB UNDER LITTLE UP" -> 120979
      [] name = "SIGNWRITING HAND-CIRCLE LITTLE UP" -> 120980
      [] name = "SIGNWRITING HAND-OVAL LITTLE UP" -> 120981
      [] name = "SIGNWRITING HAND-ANGLE LITTLE UP" -> 120982
      [] name = "SIGNWRITING HAND-FIST LITTLE RAISED KNUCKLE" -> 120983
      [] name = "SIGNWRITING HAND-FIST LITTLE BENT" -> 120984
      [] name = "SIGNWRITING HAND-FIST LITTLE TOUCHES THUMB" -> 120985
      [] name = "SIGNWRITING HAND-FIST LITTLE THUMB" -> 120986
      [] name = "SIGNWRITING HAND-HINGE LITTLE THUMB" -> 120987
      [] name = "SIGNWRITING HAND-FIST LITTLE INDEX THUMB" -> 120988
      [] name = "SIGNWRITING HAND-HINGE LITTLE INDEX THUMB" -> 120989
      [] name = "SIGNWRITING HAND-ANGLE LITTLE INDEX THUMB INDEX THUMB OUT" -> 120990
      [] name = "SIGNWRITING HAND-ANGLE LITTLE INDEX THUMB INDEX THUMB" -> 120991
      [] name = "SIGNWRITING HAND-FIST LITTLE INDEX" -> 120992
      [] name = "SIGNWRITING HAND-CIRCLE LITTLE INDEX" -> 120993
      [] name = "SIGNWRITING HAND-HINGE LITTLE INDEX" -> 120994
      [] name = "SIGNWRITING HAND-ANGLE LITTLE INDEX" -> 120995
      [] name = "SIGNWRITING HAND-FIST INDEX MIDDLE LITTLE" -> 120996
      [] name = "SIGNWRITING HAND-CIRCLE INDEX MIDDLE LITTLE" -> 120997
      [] name = "SIGNWRITING HAND-HINGE INDEX MIDDLE LITTLE" -> 120998
      [] name = "SIGNWRITING HAND-HINGE RING" -> 120999
      [] name = "SIGNWRITING HAND-ANGLE INDEX MIDDLE LITTLE" -> 121000
      [] name = "SIGNWRITING HAND-FIST INDEX MIDDLE CROSS LITTLE" -> 121001
      [] name = "SIGNWRITING HAND-CIRCLE INDEX MIDDLE CROSS LITTLE" -> 121002
      [] name = "SIGNWRITING HAND-FIST RING DOWN" -> 121003
      [] name = "SIGNWRITING HAND-HINGE RING DOWN INDEX THUMB HOOK MIDDLE" -> 121004
      [] name = "SIGNWRITING HAND-ANGLE RING DOWN MIDDLE THUMB INDEX CROSS" -> 121005
      [] name = "SIGNWRITING HAND-FIST RING UP" -> 121006
      [] name = "SIGNWRITING HAND-FIST RING RAISED KNUCKLE" -> 121007
      [] name = "SIGNWRITING HAND-FIST RING LITTLE" -> 121008
      [] name = "SIGNWRITING HAND-CIRCLE RING LITTLE" -> 121009
      [] name = "SIGNWRITING HAND-OVAL RING LITTLE" -> 121010
      [] name = "SIGNWRITING HAND-ANGLE RING LITTLE" -> 121011
      [] name = "SIGNWRITING HAND-FIST RING MIDDLE" -> 121012
      [] name = "SIGNWRITING HAND-FIST RING MIDDLE CONJOINED" -> 121013
      [] name = "SIGNWRITING HAND-FIST RING MIDDLE RAISED KNUCKLES" -> 121014
      [] name = "SIGNWRITING HAND-FIST RING INDEX" -> 121015
      [] name = "SIGNWRITING HAND-FIST RING THUMB" -> 121016
      [] name = "SIGNWRITING HAND-HOOK RING THUMB" -> 121017
      [] name = "SIGNWRITING HAND-FIST INDEX RING LITTLE" -> 121018
      [] name = "SIGNWRITING HAND-CIRCLE INDEX RING LITTLE" -> 121019
      [] name = "SIGNWRITING HAND-CURLICUE INDEX RING LITTLE ON" -> 121020
      [] name = "SIGNWRITING HAND-HOOK INDEX RING LITTLE OUT" -> 121021
      [] name = "SIGNWRITING HAND-HOOK INDEX RING LITTLE IN" -> 121022
      [] name = "SIGNWRITING HAND-HOOK INDEX RING LITTLE UNDER" -> 121023
      [] name = "SIGNWRITING HAND-CUP INDEX RING LITTLE" -> 121024
      [] name = "SIGNWRITING HAND-HINGE INDEX RING LITTLE" -> 121025
      [] name = "SIGNWRITING HAND-ANGLE INDEX RING LITTLE OUT" -> 121026
      [] name = "SIGNWRITING HAND-ANGLE INDEX RING LITTLE" -> 121027
      [] name = "SIGNWRITING HAND-FIST MIDDLE DOWN" -> 121028
      [] name = "SIGNWRITING HAND-HINGE MIDDLE" -> 121029
      [] name = "SIGNWRITING HAND-FIST MIDDLE UP" -> 121030
      [] name = "SIGNWRITING HAND-CIRCLE MIDDLE UP" -> 121031
      [] name = "SIGNWRITING HAND-FIST MIDDLE RAISED KNUCKLE" -> 121032
      [] name = "SIGNWRITING HAND-FIST MIDDLE UP THUMB SIDE" -> 121033
      [] name = "SIGNWRITING HAND-HOOK MIDDLE THUMB" -> 121034
      [] name = "SIGNWRITING HAND-FIST MIDDLE THUMB LITTLE" -> 121035
      [] name = "SIGNWRITING HAND-FIST MIDDLE LITTLE" -> 121036
      [] name = "SIGNWRITING HAND-FIST MIDDLE RING LITTLE" -> 121037
      [] name = "SIGNWRITING HAND-CIRCLE MIDDLE RING LITTLE" -> 121038
      [] name = "SIGNWRITING HAND-CURLICUE MIDDLE RING LITTLE ON" -> 121039
      [] name = "SIGNWRITING HAND-CUP MIDDLE RING LITTLE" -> 121040
      [] name = "SIGNWRITING HAND-HINGE MIDDLE RING LITTLE" -> 121041
      [] name = "SIGNWRITING HAND-ANGLE MIDDLE RING LITTLE OUT" -> 121042
      [] name = "SIGNWRITING HAND-ANGLE MIDDLE RING LITTLE IN" -> 121043
      [] name = "SIGNWRITING HAND-ANGLE MIDDLE RING LITTLE" -> 121044
      [] name = "SIGNWRITING HAND-CIRCLE MIDDLE RING LITTLE BENT" -> 121045
      [] name = "SIGNWRITING HAND-CLAW MIDDLE RING LITTLE CONJOINED" -> 121046
      [] name = "SIGNWRITING HAND-CLAW MIDDLE RING LITTLE CONJOINED SIDE" -> 121047
      [] name = "SIGNWRITING HAND-HOOK MIDDLE RING LITTLE CONJOINED OUT" -> 121048
      [] name = "SIGNWRITING HAND-HOOK MIDDLE RING LITTLE CONJOINED IN" -> 121049
      [] name = "SIGNWRITING HAND-HOOK MIDDLE RING LITTLE CONJOINED" -> 121050
      [] name = "SIGNWRITING HAND-HINGE INDEX HINGED" -> 121051
      [] name = "SIGNWRITING HAND-FIST INDEX THUMB SIDE" -> 121052
      [] name = "SIGNWRITING HAND-HINGE INDEX THUMB SIDE" -> 121053
      [] name = "SIGNWRITING HAND-FIST INDEX THUMB SIDE THUMB DIAGONAL" -> 121054
      [] name = "SIGNWRITING HAND-FIST INDEX THUMB SIDE THUMB CONJOINED" -> 121055
      [] name = "SIGNWRITING HAND-FIST INDEX THUMB SIDE THUMB BENT" -> 121056
      [] name = "SIGNWRITING HAND-FIST INDEX THUMB SIDE INDEX BENT" -> 121057
      [] name = "SIGNWRITING HAND-FIST INDEX THUMB SIDE BOTH BENT" -> 121058
      [] name = "SIGNWRITING HAND-FIST INDEX THUMB SIDE INDEX HINGE" -> 121059
      [] name = "SIGNWRITING HAND-FIST INDEX THUMB FORWARD INDEX STRAIGHT" -> 121060
      [] name = "SIGNWRITING HAND-FIST INDEX THUMB FORWARD INDEX BENT" -> 121061
      [] name = "SIGNWRITING HAND-FIST INDEX THUMB HOOK" -> 121062
      [] name = "SIGNWRITING HAND-FIST INDEX THUMB CURLICUE" -> 121063
      [] name = "SIGNWRITING HAND-FIST INDEX THUMB CURVE THUMB INSIDE" -> 121064
      [] name = "SIGNWRITING HAND-CLAW INDEX THUMB CURVE THUMB INSIDE" -> 121065
      [] name = "SIGNWRITING HAND-FIST INDEX THUMB CURVE THUMB UNDER" -> 121066
      [] name = "SIGNWRITING HAND-FIST INDEX THUMB CIRCLE" -> 121067
      [] name = "SIGNWRITING HAND-CUP INDEX THUMB" -> 121068
      [] name = "SIGNWRITING HAND-CUP INDEX THUMB OPEN" -> 121069
      [] name = "SIGNWRITING HAND-HINGE INDEX THUMB OPEN" -> 121070
      [] name = "SIGNWRITING HAND-HINGE INDEX THUMB LARGE" -> 121071
      [] name = "SIGNWRITING HAND-HINGE INDEX THUMB" -> 121072
      [] name = "SIGNWRITING HAND-HINGE INDEX THUMB SMALL" -> 121073
      [] name = "SIGNWRITING HAND-ANGLE INDEX THUMB OUT" -> 121074
      [] name = "SIGNWRITING HAND-ANGLE INDEX THUMB IN" -> 121075
      [] name = "SIGNWRITING HAND-ANGLE INDEX THUMB" -> 121076
      [] name = "SIGNWRITING HAND-FIST THUMB" -> 121077
      [] name = "SIGNWRITING HAND-FIST THUMB HEEL" -> 121078
      [] name = "SIGNWRITING HAND-FIST THUMB SIDE DIAGONAL" -> 121079
      [] name = "SIGNWRITING HAND-FIST THUMB SIDE CONJOINED" -> 121080
      [] name = "SIGNWRITING HAND-FIST THUMB SIDE BENT" -> 121081
      [] name = "SIGNWRITING HAND-FIST THUMB FORWARD" -> 121082
      [] name = "SIGNWRITING HAND-FIST THUMB BETWEEN INDEX MIDDLE" -> 121083
      [] name = "SIGNWRITING HAND-FIST THUMB BETWEEN MIDDLE RING" -> 121084
      [] name = "SIGNWRITING HAND-FIST THUMB BETWEEN RING LITTLE" -> 121085
      [] name = "SIGNWRITING HAND-FIST THUMB UNDER TWO FINGERS" -> 121086
      [] name = "SIGNWRITING HAND-FIST THUMB OVER TWO FINGERS" -> 121087
      [] name = "SIGNWRITING HAND-FIST THUMB UNDER THREE FINGERS" -> 121088
      [] name = "SIGNWRITING HAND-FIST THUMB UNDER FOUR FINGERS" -> 121089
      [] name = "SIGNWRITING HAND-FIST THUMB OVER FOUR RAISED KNUCKLES" -> 121090
      [] name = "SIGNWRITING HAND-FIST" -> 121091
      [] name = "SIGNWRITING HAND-FIST HEEL" -> 121092
      [] name = "SIGNWRITING TOUCH SINGLE" -> 121093
      [] name = "SIGNWRITING TOUCH MULTIPLE" -> 121094
      [] name = "SIGNWRITING TOUCH BETWEEN" -> 121095
      [] name = "SIGNWRITING GRASP SINGLE" -> 121096
      [] name = "SIGNWRITING GRASP MULTIPLE" -> 121097
      [] name = "SIGNWRITING GRASP BETWEEN" -> 121098
      [] name = "SIGNWRITING STRIKE SINGLE" -> 121099
      [] name = "SIGNWRITING STRIKE MULTIPLE" -> 121100
      [] name = "SIGNWRITING STRIKE BETWEEN" -> 121101
      [] name = "SIGNWRITING BRUSH SINGLE" -> 121102
      [] name = "SIGNWRITING BRUSH MULTIPLE" -> 121103
      [] name = "SIGNWRITING BRUSH BETWEEN" -> 121104
      [] name = "SIGNWRITING RUB SINGLE" -> 121105
      [] name = "SIGNWRITING RUB MULTIPLE" -> 121106
      [] name = "SIGNWRITING RUB BETWEEN" -> 121107
      [] name = "SIGNWRITING SURFACE SYMBOLS" -> 121108
      [] name = "SIGNWRITING SURFACE BETWEEN" -> 121109
      [] name = "SIGNWRITING SQUEEZE LARGE SINGLE" -> 121110
      [] name = "SIGNWRITING SQUEEZE SMALL SINGLE" -> 121111
      [] name = "SIGNWRITING SQUEEZE LARGE MULTIPLE" -> 121112
      [] name = "SIGNWRITING SQUEEZE SMALL MULTIPLE" -> 121113
      [] name = "SIGNWRITING SQUEEZE SEQUENTIAL" -> 121114
      [] name = "SIGNWRITING FLICK LARGE SINGLE" -> 121115
      [] name = "SIGNWRITING FLICK SMALL SINGLE" -> 121116
      [] name = "SIGNWRITING FLICK LARGE MULTIPLE" -> 121117
      [] name = "SIGNWRITING FLICK SMALL MULTIPLE" -> 121118
      [] name = "SIGNWRITING FLICK SEQUENTIAL" -> 121119
      [] name = "SIGNWRITING SQUEEZE FLICK ALTERNATING" -> 121120
      [] name = "SIGNWRITING MOVEMENT-HINGE UP DOWN LARGE" -> 121121
      [] name = "SIGNWRITING MOVEMENT-HINGE UP DOWN SMALL" -> 121122
      [] name = "SIGNWRITING MOVEMENT-HINGE UP SEQUENTIAL" -> 121123
      [] name = "SIGNWRITING MOVEMENT-HINGE DOWN SEQUENTIAL" -> 121124
      [] name = "SIGNWRITING MOVEMENT-HINGE UP DOWN ALTERNATING LARGE" -> 121125
      [] name = "SIGNWRITING MOVEMENT-HINGE UP DOWN ALTERNATING SMALL" -> 121126
      [] name = "SIGNWRITING MOVEMENT-HINGE SIDE TO SIDE SCISSORS" -> 121127
      [] name = "SIGNWRITING MOVEMENT-WALLPLANE FINGER CONTACT" -> 121128
      [] name = "SIGNWRITING MOVEMENT-FLOORPLANE FINGER CONTACT" -> 121129
      [] name = "SIGNWRITING MOVEMENT-WALLPLANE SINGLE STRAIGHT SMALL" -> 121130
      [] name = "SIGNWRITING MOVEMENT-WALLPLANE SINGLE STRAIGHT MEDIUM" -> 121131
      [] name = "SIGNWRITING MOVEMENT-WALLPLANE SINGLE STRAIGHT LARGE" -> 121132
      [] name = "SIGNWRITING MOVEMENT-WALLPLANE SINGLE STRAIGHT LARGEST" -> 121133
      [] name = "SIGNWRITING MOVEMENT-WALLPLANE SINGLE WRIST FLEX" -> 121134
      [] name = "SIGNWRITING MOVEMENT-WALLPLANE DOUBLE STRAIGHT" -> 121135
      [] name = "SIGNWRITING MOVEMENT-WALLPLANE DOUBLE WRIST FLEX" -> 121136
      [] name = "SIGNWRITING MOVEMENT-WALLPLANE DOUBLE ALTERNATING" -> 121137
      [] name = "SIGNWRITING MOVEMENT-WALLPLANE DOUBLE ALTERNATING WRIST FLEX" -> 121138
      [] name = "SIGNWRITING MOVEMENT-WALLPLANE CROSS" -> 121139
      [] name = "SIGNWRITING MOVEMENT-WALLPLANE TRIPLE STRAIGHT MOVEMENT" -> 121140
      [] name = "SIGNWRITING MOVEMENT-WALLPLANE TRIPLE WRIST FLEX" -> 121141
      [] name = "SIGNWRITING MOVEMENT-WALLPLANE TRIPLE ALTERNATING" -> 121142
      [] name = "SIGNWRITING MOVEMENT-WALLPLANE TRIPLE ALTERNATING WRIST FLEX" -> 121143
      [] name = "SIGNWRITING MOVEMENT-WALLPLANE BEND SMALL" -> 121144
      [] name = "SIGNWRITING MOVEMENT-WALLPLANE BEND MEDIUM" -> 121145
      [] name = "SIGNWRITING MOVEMENT-WALLPLANE BEND LARGE" -> 121146
      [] name = "SIGNWRITING MOVEMENT-WALLPLANE CORNER SMALL" -> 121147
      [] name = "SIGNWRITING MOVEMENT-WALLPLANE CORNER MEDIUM" -> 121148
      [] name = "SIGNWRITING MOVEMENT-WALLPLANE CORNER LARGE" -> 121149
      [] name = "SIGNWRITING MOVEMENT-WALLPLANE CORNER ROTATION" -> 121150
      [] name = "SIGNWRITING MOVEMENT-WALLPLANE CHECK SMALL" -> 121151
      [] name = "SIGNWRITING MOVEMENT-WALLPLANE CHECK MEDIUM" -> 121152
      [] name = "SIGNWRITING MOVEMENT-WALLPLANE CHECK LARGE" -> 121153
      [] name = "SIGNWRITING MOVEMENT-WALLPLANE BOX SMALL" -> 121154
      [] name = "SIGNWRITING MOVEMENT-WALLPLANE BOX MEDIUM" -> 121155
      [] name = "SIGNWRITING MOVEMENT-WALLPLANE BOX LARGE" -> 121156
      [] name = "SIGNWRITING MOVEMENT-WALLPLANE ZIGZAG SMALL" -> 121157
      [] name = "SIGNWRITING MOVEMENT-WALLPLANE ZIGZAG MEDIUM" -> 121158
      [] name = "SIGNWRITING MOVEMENT-WALLPLANE ZIGZAG LARGE" -> 121159
      [] name = "SIGNWRITING MOVEMENT-WALLPLANE PEAKS SMALL" -> 121160
      [] name = "SIGNWRITING MOVEMENT-WALLPLANE PEAKS MEDIUM" -> 121161
      [] name = "SIGNWRITING MOVEMENT-WALLPLANE PEAKS LARGE" -> 121162
      [] name = "SIGNWRITING TRAVEL-WALLPLANE ROTATION-WALLPLANE SINGLE" -> 121163
      [] name = "SIGNWRITING TRAVEL-WALLPLANE ROTATION-WALLPLANE DOUBLE" -> 121164
      [] name = "SIGNWRITING TRAVEL-WALLPLANE ROTATION-WALLPLANE ALTERNATING" -> 121165
      [] name = "SIGNWRITING TRAVEL-WALLPLANE ROTATION-FLOORPLANE SINGLE" -> 121166
      [] name = "SIGNWRITING TRAVEL-WALLPLANE ROTATION-FLOORPLANE DOUBLE" -> 121167
      [] name = "SIGNWRITING TRAVEL-WALLPLANE ROTATION-FLOORPLANE ALTERNATING" -> 121168
      [] name = "SIGNWRITING TRAVEL-WALLPLANE SHAKING" -> 121169
      [] name = "SIGNWRITING TRAVEL-WALLPLANE ARM SPIRAL SINGLE" -> 121170
      [] name = "SIGNWRITING TRAVEL-WALLPLANE ARM SPIRAL DOUBLE" -> 121171
      [] name = "SIGNWRITING TRAVEL-WALLPLANE ARM SPIRAL TRIPLE" -> 121172
      [] name = "SIGNWRITING MOVEMENT-DIAGONAL AWAY SMALL" -> 121173
      [] name = "SIGNWRITING MOVEMENT-DIAGONAL AWAY MEDIUM" -> 121174
      [] name = "SIGNWRITING MOVEMENT-DIAGONAL AWAY LARGE" -> 121175
      [] name = "SIGNWRITING MOVEMENT-DIAGONAL AWAY LARGEST" -> 121176
      [] name = "SIGNWRITING MOVEMENT-DIAGONAL TOWARDS SMALL" -> 121177
      [] name = "SIGNWRITING MOVEMENT-DIAGONAL TOWARDS MEDIUM" -> 121178
      [] name = "SIGNWRITING MOVEMENT-DIAGONAL TOWARDS LARGE" -> 121179
      [] name = "SIGNWRITING MOVEMENT-DIAGONAL TOWARDS LARGEST" -> 121180
      [] name = "SIGNWRITING MOVEMENT-DIAGONAL BETWEEN AWAY SMALL" -> 121181
      [] name = "SIGNWRITING MOVEMENT-DIAGONAL BETWEEN AWAY MEDIUM" -> 121182
      [] name = "SIGNWRITING MOVEMENT-DIAGONAL BETWEEN AWAY LARGE" -> 121183
      [] name = "SIGNWRITING MOVEMENT-DIAGONAL BETWEEN AWAY LARGEST" -> 121184
      [] name = "SIGNWRITING MOVEMENT-DIAGONAL BETWEEN TOWARDS SMALL" -> 121185
      [] name = "SIGNWRITING MOVEMENT-DIAGONAL BETWEEN TOWARDS MEDIUM" -> 121186
      [] name = "SIGNWRITING MOVEMENT-DIAGONAL BETWEEN TOWARDS LARGE" -> 121187
      [] name = "SIGNWRITING MOVEMENT-DIAGONAL BETWEEN TOWARDS LARGEST" -> 121188
      [] name = "SIGNWRITING MOVEMENT-FLOORPLANE SINGLE STRAIGHT SMALL" -> 121189
      [] name = "SIGNWRITING MOVEMENT-FLOORPLANE SINGLE STRAIGHT MEDIUM" -> 121190
      [] name = "SIGNWRITING MOVEMENT-FLOORPLANE SINGLE STRAIGHT LARGE" -> 121191
      [] name = "SIGNWRITING MOVEMENT-FLOORPLANE SINGLE STRAIGHT LARGEST" -> 121192
      [] name = "SIGNWRITING MOVEMENT-FLOORPLANE SINGLE WRIST FLEX" -> 121193
      [] name = "SIGNWRITING MOVEMENT-FLOORPLANE DOUBLE STRAIGHT" -> 121194
      [] name = "SIGNWRITING MOVEMENT-FLOORPLANE DOUBLE WRIST FLEX" -> 121195
      [] name = "SIGNWRITING MOVEMENT-FLOORPLANE DOUBLE ALTERNATING" -> 121196
      [] name = "SIGNWRITING MOVEMENT-FLOORPLANE DOUBLE ALTERNATING WRIST FLEX" -> 121197
      [] name = "SIGNWRITING MOVEMENT-FLOORPLANE CROSS" -> 121198
      [] name = "SIGNWRITING MOVEMENT-FLOORPLANE TRIPLE STRAIGHT MOVEMENT" -> 121199
      [] name = "SIGNWRITING MOVEMENT-FLOORPLANE TRIPLE WRIST FLEX" -> 121200
      [] name = "SIGNWRITING MOVEMENT-FLOORPLANE TRIPLE ALTERNATING MOVEMENT" -> 121201
      [] name = "SIGNWRITING MOVEMENT-FLOORPLANE TRIPLE ALTERNATING WRIST FLEX" -> 121202
      [] name = "SIGNWRITING MOVEMENT-FLOORPLANE BEND" -> 121203
      [] name = "SIGNWRITING MOVEMENT-FLOORPLANE CORNER SMALL" -> 121204
      [] name = "SIGNWRITING MOVEMENT-FLOORPLANE CORNER MEDIUM" -> 121205
      [] name = "SIGNWRITING MOVEMENT-FLOORPLANE CORNER LARGE" -> 121206
      [] name = "SIGNWRITING MOVEMENT-FLOORPLANE CHECK" -> 121207
      [] name = "SIGNWRITING MOVEMENT-FLOORPLANE BOX SMALL" -> 121208
      [] name = "SIGNWRITING MOVEMENT-FLOORPLANE BOX MEDIUM" -> 121209
      [] name = "SIGNWRITING MOVEMENT-FLOORPLANE BOX LARGE" -> 121210
      [] name = "SIGNWRITING MOVEMENT-FLOORPLANE ZIGZAG SMALL" -> 121211
      [] name = "SIGNWRITING MOVEMENT-FLOORPLANE ZIGZAG MEDIUM" -> 121212
      [] name = "SIGNWRITING MOVEMENT-FLOORPLANE ZIGZAG LARGE" -> 121213
      [] name = "SIGNWRITING MOVEMENT-FLOORPLANE PEAKS SMALL" -> 121214
      [] name = "SIGNWRITING MOVEMENT-FLOORPLANE PEAKS MEDIUM" -> 121215
      [] name = "SIGNWRITING MOVEMENT-FLOORPLANE PEAKS LARGE" -> 121216
      [] name = "SIGNWRITING TRAVEL-FLOORPLANE ROTATION-FLOORPLANE SINGLE" -> 121217
      [] name = "SIGNWRITING TRAVEL-FLOORPLANE ROTATION-FLOORPLANE DOUBLE" -> 121218
      [] name = "SIGNWRITING TRAVEL-FLOORPLANE ROTATION-FLOORPLANE ALTERNATING" -> 121219
      [] name = "SIGNWRITING TRAVEL-FLOORPLANE ROTATION-WALLPLANE SINGLE" -> 121220
      [] name = "SIGNWRITING TRAVEL-FLOORPLANE ROTATION-WALLPLANE DOUBLE" -> 121221
      [] name = "SIGNWRITING TRAVEL-FLOORPLANE ROTATION-WALLPLANE ALTERNATING" -> 121222
      [] name = "SIGNWRITING TRAVEL-FLOORPLANE SHAKING" -> 121223
      [] name = "SIGNWRITING MOVEMENT-WALLPLANE CURVE QUARTER SMALL" -> 121224
      [] name = "SIGNWRITING MOVEMENT-WALLPLANE CURVE QUARTER MEDIUM" -> 121225
      [] name = "SIGNWRITING MOVEMENT-WALLPLANE CURVE QUARTER LARGE" -> 121226
      [] name = "SIGNWRITING MOVEMENT-WALLPLANE CURVE QUARTER LARGEST" -> 121227
      [] name = "SIGNWRITING MOVEMENT-WALLPLANE CURVE HALF-CIRCLE SMALL" -> 121228
      [] name = "SIGNWRITING MOVEMENT-WALLPLANE CURVE HALF-CIRCLE MEDIUM" -> 121229
      [] name = "SIGNWRITING MOVEMENT-WALLPLANE CURVE HALF-CIRCLE LARGE" -> 121230
      [] name = "SIGNWRITING MOVEMENT-WALLPLANE CURVE HALF-CIRCLE LARGEST" -> 121231
      [] name = "SIGNWRITING MOVEMENT-WALLPLANE CURVE THREE-QUARTER CIRCLE SMALL" -> 121232
      [] name = "SIGNWRITING MOVEMENT-WALLPLANE CURVE THREE-QUARTER CIRCLE MEDIUM" -> 121233
      [] name = "SIGNWRITING MOVEMENT-WALLPLANE HUMP SMALL" -> 121234
      [] name = "SIGNWRITING MOVEMENT-WALLPLANE HUMP MEDIUM" -> 121235
      [] name = "SIGNWRITING MOVEMENT-WALLPLANE HUMP LARGE" -> 121236
      [] name = "SIGNWRITING MOVEMENT-WALLPLANE LOOP SMALL" -> 121237
      [] name = "SIGNWRITING MOVEMENT-WALLPLANE LOOP MEDIUM" -> 121238
      [] name = "SIGNWRITING MOVEMENT-WALLPLANE LOOP LARGE" -> 121239
      [] name = "SIGNWRITING MOVEMENT-WALLPLANE LOOP SMALL DOUBLE" -> 121240
      [] name = "SIGNWRITING MOVEMENT-WALLPLANE WAVE CURVE DOUBLE SMALL" -> 121241
      [] name = "SIGNWRITING MOVEMENT-WALLPLANE WAVE CURVE DOUBLE MEDIUM" -> 121242
      [] name = "SIGNWRITING MOVEMENT-WALLPLANE WAVE CURVE DOUBLE LARGE" -> 121243
      [] name = "SIGNWRITING MOVEMENT-WALLPLANE WAVE CURVE TRIPLE SMALL" -> 121244
      [] name = "SIGNWRITING MOVEMENT-WALLPLANE WAVE CURVE TRIPLE MEDIUM" -> 121245
      [] name = "SIGNWRITING MOVEMENT-WALLPLANE WAVE CURVE TRIPLE LARGE" -> 121246
      [] name = "SIGNWRITING MOVEMENT-WALLPLANE CURVE THEN STRAIGHT" -> 121247
      [] name = "SIGNWRITING MOVEMENT-WALLPLANE CURVED CROSS SMALL" -> 121248
      [] name = "SIGNWRITING MOVEMENT-WALLPLANE CURVED CROSS MEDIUM" -> 121249
      [] name = "SIGNWRITING ROTATION-WALLPLANE SINGLE" -> 121250
      [] name = "SIGNWRITING ROTATION-WALLPLANE DOUBLE" -> 121251
      [] name = "SIGNWRITING ROTATION-WALLPLANE ALTERNATE" -> 121252
      [] name = "SIGNWRITING MOVEMENT-WALLPLANE SHAKING" -> 121253
      [] name = "SIGNWRITING MOVEMENT-WALLPLANE CURVE HITTING FRONT WALL" -> 121254
      [] name = "SIGNWRITING MOVEMENT-WALLPLANE HUMP HITTING FRONT WALL" -> 121255
      [] name = "SIGNWRITING MOVEMENT-WALLPLANE LOOP HITTING FRONT WALL" -> 121256
      [] name = "SIGNWRITING MOVEMENT-WALLPLANE WAVE HITTING FRONT WALL" -> 121257
      [] name = "SIGNWRITING ROTATION-WALLPLANE SINGLE HITTING FRONT WALL" -> 121258
      [] name = "SIGNWRITING ROTATION-WALLPLANE DOUBLE HITTING FRONT WALL" -> 121259
      [] name = "SIGNWRITING ROTATION-WALLPLANE ALTERNATING HITTING FRONT WALL" -> 121260
      [] name = "SIGNWRITING MOVEMENT-WALLPLANE CURVE HITTING CHEST" -> 121261
      [] name = "SIGNWRITING MOVEMENT-WALLPLANE HUMP HITTING CHEST" -> 121262
      [] name = "SIGNWRITING MOVEMENT-WALLPLANE LOOP HITTING CHEST" -> 121263
      [] name = "SIGNWRITING MOVEMENT-WALLPLANE WAVE HITTING CHEST" -> 121264
      [] name = "SIGNWRITING ROTATION-WALLPLANE SINGLE HITTING CHEST" -> 121265
      [] name = "SIGNWRITING ROTATION-WALLPLANE DOUBLE HITTING CHEST" -> 121266
      [] name = "SIGNWRITING ROTATION-WALLPLANE ALTERNATING HITTING CHEST" -> 121267
      [] name = "SIGNWRITING MOVEMENT-WALLPLANE WAVE DIAGONAL PATH SMALL" -> 121268
      [] name = "SIGNWRITING MOVEMENT-WALLPLANE WAVE DIAGONAL PATH MEDIUM" -> 121269
      [] name = "SIGNWRITING MOVEMENT-WALLPLANE WAVE DIAGONAL PATH LARGE" -> 121270
      [] name = "SIGNWRITING MOVEMENT-FLOORPLANE CURVE HITTING CEILING SMALL" -> 121271
      [] name = "SIGNWRITING MOVEMENT-FLOORPLANE CURVE HITTING CEILING LARGE" -> 121272
      [] name = "SIGNWRITING MOVEMENT-FLOORPLANE HUMP HITTING CEILING SMALL DOUBLE" -> 121273
      [] name = "SIGNWRITING MOVEMENT-FLOORPLANE HUMP HITTING CEILING LARGE DOUBLE" -> 121274
      [] name = "SIGNWRITING MOVEMENT-FLOORPLANE HUMP HITTING CEILING SMALL TRIPLE" -> 121275
      [] name = "SIGNWRITING MOVEMENT-FLOORPLANE HUMP HITTING CEILING LARGE TRIPLE" -> 121276
      [] name = "SIGNWRITING MOVEMENT-FLOORPLANE LOOP HITTING CEILING SMALL SINGLE" -> 121277
      [] name = "SIGNWRITING MOVEMENT-FLOORPLANE LOOP HITTING CEILING LARGE SINGLE" -> 121278
      [] name = "SIGNWRITING MOVEMENT-FLOORPLANE LOOP HITTING CEILING SMALL DOUBLE" -> 121279
      [] name = "SIGNWRITING MOVEMENT-FLOORPLANE LOOP HITTING CEILING LARGE DOUBLE" -> 121280
      [] name = "SIGNWRITING MOVEMENT-FLOORPLANE WAVE HITTING CEILING SMALL" -> 121281
      [] name = "SIGNWRITING MOVEMENT-FLOORPLANE WAVE HITTING CEILING LARGE" -> 121282
      [] name = "SIGNWRITING ROTATION-FLOORPLANE SINGLE HITTING CEILING" -> 121283
      [] name = "SIGNWRITING ROTATION-FLOORPLANE DOUBLE HITTING CEILING" -> 121284
      [] name = "SIGNWRITING ROTATION-FLOORPLANE ALTERNATING HITTING CEILING" -> 121285
      [] name = "SIGNWRITING MOVEMENT-FLOORPLANE CURVE HITTING FLOOR SMALL" -> 121286
      [] name = "SIGNWRITING MOVEMENT-FLOORPLANE CURVE HITTING FLOOR LARGE" -> 121287
      [] name = "SIGNWRITING MOVEMENT-FLOORPLANE HUMP HITTING FLOOR SMALL DOUBLE" -> 121288
      [] name = "SIGNWRITING MOVEMENT-FLOORPLANE HUMP HITTING FLOOR LARGE DOUBLE" -> 121289
      [] name = "SIGNWRITING MOVEMENT-FLOORPLANE HUMP HITTING FLOOR TRIPLE SMALL TRIPLE" -> 121290
      [] name = "SIGNWRITING MOVEMENT-FLOORPLANE HUMP HITTING FLOOR TRIPLE LARGE TRIPLE" -> 121291
      [] name = "SIGNWRITING MOVEMENT-FLOORPLANE LOOP HITTING FLOOR SMALL SINGLE" -> 121292
      [] name = "SIGNWRITING MOVEMENT-FLOORPLANE LOOP HITTING FLOOR LARGE SINGLE" -> 121293
      [] name = "SIGNWRITING MOVEMENT-FLOORPLANE LOOP HITTING FLOOR SMALL DOUBLE" -> 121294
      [] name = "SIGNWRITING MOVEMENT-FLOORPLANE LOOP HITTING FLOOR LARGE DOUBLE" -> 121295
      [] name = "SIGNWRITING MOVEMENT-FLOORPLANE WAVE HITTING FLOOR SMALL" -> 121296
      [] name = "SIGNWRITING MOVEMENT-FLOORPLANE WAVE HITTING FLOOR LARGE" -> 121297
      [] name = "SIGNWRITING ROTATION-FLOORPLANE SINGLE HITTING FLOOR" -> 121298
      [] name = "SIGNWRITING ROTATION-FLOORPLANE DOUBLE HITTING FLOOR" -> 121299
      [] name = "SIGNWRITING ROTATION-FLOORPLANE ALTERNATING HITTING FLOOR" -> 121300
      [] name = "SIGNWRITING MOVEMENT-FLOORPLANE CURVE SMALL" -> 121301
      [] name = "SIGNWRITING MOVEMENT-FLOORPLANE CURVE MEDIUM" -> 121302
      [] name = "SIGNWRITING MOVEMENT-FLOORPLANE CURVE LARGE" -> 121303
      [] name = "SIGNWRITING MOVEMENT-FLOORPLANE CURVE LARGEST" -> 121304
      [] name = "SIGNWRITING MOVEMENT-FLOORPLANE CURVE COMBINED" -> 121305
      [] name = "SIGNWRITING MOVEMENT-FLOORPLANE HUMP SMALL" -> 121306
      [] name = "SIGNWRITING MOVEMENT-FLOORPLANE LOOP SMALL" -> 121307
      [] name = "SIGNWRITING MOVEMENT-FLOORPLANE WAVE SNAKE" -> 121308
      [] name = "SIGNWRITING MOVEMENT-FLOORPLANE WAVE SMALL" -> 121309
      [] name = "SIGNWRITING MOVEMENT-FLOORPLANE WAVE LARGE" -> 121310
      [] name = "SIGNWRITING ROTATION-FLOORPLANE SINGLE" -> 121311
      [] name = "SIGNWRITING ROTATION-FLOORPLANE DOUBLE" -> 121312
      [] name = "SIGNWRITING ROTATION-FLOORPLANE ALTERNATING" -> 121313
      [] name = "SIGNWRITING MOVEMENT-FLOORPLANE SHAKING PARALLEL" -> 121314
      [] name = "SIGNWRITING MOVEMENT-WALLPLANE ARM CIRCLE SMALL SINGLE" -> 121315
      [] name = "SIGNWRITING MOVEMENT-WALLPLANE ARM CIRCLE MEDIUM SINGLE" -> 121316
      [] name = "SIGNWRITING MOVEMENT-WALLPLANE ARM CIRCLE SMALL DOUBLE" -> 121317
      [] name = "SIGNWRITING MOVEMENT-WALLPLANE ARM CIRCLE MEDIUM DOUBLE" -> 121318
      [] name = "SIGNWRITING MOVEMENT-FLOORPLANE ARM CIRCLE HITTING WALL SMALL SINGLE" -> 121319
      [] name = "SIGNWRITING MOVEMENT-FLOORPLANE ARM CIRCLE HITTING WALL MEDIUM SINGLE" -> 121320
      [] name = "SIGNWRITING MOVEMENT-FLOORPLANE ARM CIRCLE HITTING WALL LARGE SINGLE" -> 121321
      [] name = "SIGNWRITING MOVEMENT-FLOORPLANE ARM CIRCLE HITTING WALL SMALL DOUBLE" -> 121322
      [] name = "SIGNWRITING MOVEMENT-FLOORPLANE ARM CIRCLE HITTING WALL MEDIUM DOUBLE" -> 121323
      [] name = "SIGNWRITING MOVEMENT-FLOORPLANE ARM CIRCLE HITTING WALL LARGE DOUBLE" -> 121324
      [] name = "SIGNWRITING MOVEMENT-WALLPLANE WRIST CIRCLE FRONT SINGLE" -> 121325
      [] name = "SIGNWRITING MOVEMENT-WALLPLANE WRIST CIRCLE FRONT DOUBLE" -> 121326
      [] name = "SIGNWRITING MOVEMENT-FLOORPLANE WRIST CIRCLE HITTING WALL SINGLE" -> 121327
      [] name = "SIGNWRITING MOVEMENT-FLOORPLANE WRIST CIRCLE HITTING WALL DOUBLE" -> 121328
      [] name = "SIGNWRITING MOVEMENT-WALLPLANE FINGER CIRCLES SINGLE" -> 121329
      [] name = "SIGNWRITING MOVEMENT-WALLPLANE FINGER CIRCLES DOUBLE" -> 121330
      [] name = "SIGNWRITING MOVEMENT-FLOORPLANE FINGER CIRCLES HITTING WALL SINGLE" -> 121331
      [] name = "SIGNWRITING MOVEMENT-FLOORPLANE FINGER CIRCLES HITTING WALL DOUBLE" -> 121332
      [] name = "SIGNWRITING DYNAMIC ARROWHEAD SMALL" -> 121333
      [] name = "SIGNWRITING DYNAMIC ARROWHEAD LARGE" -> 121334
      [] name = "SIGNWRITING DYNAMIC FAST" -> 121335
      [] name = "SIGNWRITING DYNAMIC SLOW" -> 121336
      [] name = "SIGNWRITING DYNAMIC TENSE" -> 121337
      [] name = "SIGNWRITING DYNAMIC RELAXED" -> 121338
      [] name = "SIGNWRITING DYNAMIC SIMULTANEOUS" -> 121339
      [] name = "SIGNWRITING DYNAMIC SIMULTANEOUS ALTERNATING" -> 121340
      [] name = "SIGNWRITING DYNAMIC EVERY OTHER TIME" -> 121341
      [] name = "SIGNWRITING DYNAMIC GRADUAL" -> 121342
      [] name = "SIGNWRITING HEAD" -> 121343
      [] name = "SIGNWRITING HEAD RIM" -> 121344
      [] name = "SIGNWRITING HEAD MOVEMENT-WALLPLANE STRAIGHT" -> 121345
      [] name = "SIGNWRITING HEAD MOVEMENT-WALLPLANE TILT" -> 121346
      [] name = "SIGNWRITING HEAD MOVEMENT-FLOORPLANE STRAIGHT" -> 121347
      [] name = "SIGNWRITING HEAD MOVEMENT-WALLPLANE CURVE" -> 121348
      [] name = "SIGNWRITING HEAD MOVEMENT-FLOORPLANE CURVE" -> 121349
      [] name = "SIGNWRITING HEAD MOVEMENT CIRCLE" -> 121350
      [] name = "SIGNWRITING FACE DIRECTION POSITION NOSE FORWARD TILTING" -> 121351
      [] name = "SIGNWRITING FACE DIRECTION POSITION NOSE UP OR DOWN" -> 121352
      [] name = "SIGNWRITING FACE DIRECTION POSITION NOSE UP OR DOWN TILTING" -> 121353
      [] name = "SIGNWRITING EYEBROWS STRAIGHT UP" -> 121354
      [] name = "SIGNWRITING EYEBROWS STRAIGHT NEUTRAL" -> 121355
      [] name = "SIGNWRITING EYEBROWS STRAIGHT DOWN" -> 121356
      [] name = "SIGNWRITING DREAMY EYEBROWS NEUTRAL DOWN" -> 121357
      [] name = "SIGNWRITING DREAMY EYEBROWS DOWN NEUTRAL" -> 121358
      [] name = "SIGNWRITING DREAMY EYEBROWS UP NEUTRAL" -> 121359
      [] name = "SIGNWRITING DREAMY EYEBROWS NEUTRAL UP" -> 121360
      [] name = "SIGNWRITING FOREHEAD NEUTRAL" -> 121361
      [] name = "SIGNWRITING FOREHEAD CONTACT" -> 121362
      [] name = "SIGNWRITING FOREHEAD WRINKLED" -> 121363
      [] name = "SIGNWRITING EYES OPEN" -> 121364
      [] name = "SIGNWRITING EYES SQUEEZED" -> 121365
      [] name = "SIGNWRITING EYES CLOSED" -> 121366
      [] name = "SIGNWRITING EYE BLINK SINGLE" -> 121367
      [] name = "SIGNWRITING EYE BLINK MULTIPLE" -> 121368
      [] name = "SIGNWRITING EYES HALF OPEN" -> 121369
      [] name = "SIGNWRITING EYES WIDE OPEN" -> 121370
      [] name = "SIGNWRITING EYES HALF CLOSED" -> 121371
      [] name = "SIGNWRITING EYES WIDENING MOVEMENT" -> 121372
      [] name = "SIGNWRITING EYE WINK" -> 121373
      [] name = "SIGNWRITING EYELASHES UP" -> 121374
      [] name = "SIGNWRITING EYELASHES DOWN" -> 121375
      [] name = "SIGNWRITING EYELASHES FLUTTERING" -> 121376
      [] name = "SIGNWRITING EYEGAZE-WALLPLANE STRAIGHT" -> 121377
      [] name = "SIGNWRITING EYEGAZE-WALLPLANE STRAIGHT DOUBLE" -> 121378
      [] name = "SIGNWRITING EYEGAZE-WALLPLANE STRAIGHT ALTERNATING" -> 121379
      [] name = "SIGNWRITING EYEGAZE-FLOORPLANE STRAIGHT" -> 121380
      [] name = "SIGNWRITING EYEGAZE-FLOORPLANE STRAIGHT DOUBLE" -> 121381
      [] name = "SIGNWRITING EYEGAZE-FLOORPLANE STRAIGHT ALTERNATING" -> 121382
      [] name = "SIGNWRITING EYEGAZE-WALLPLANE CURVED" -> 121383
      [] name = "SIGNWRITING EYEGAZE-FLOORPLANE CURVED" -> 121384
      [] name = "SIGNWRITING EYEGAZE-WALLPLANE CIRCLING" -> 121385
      [] name = "SIGNWRITING CHEEKS PUFFED" -> 121386
      [] name = "SIGNWRITING CHEEKS NEUTRAL" -> 121387
      [] name = "SIGNWRITING CHEEKS SUCKED" -> 121388
      [] name = "SIGNWRITING TENSE CHEEKS HIGH" -> 121389
      [] name = "SIGNWRITING TENSE CHEEKS MIDDLE" -> 121390
      [] name = "SIGNWRITING TENSE CHEEKS LOW" -> 121391
      [] name = "SIGNWRITING EARS" -> 121392
      [] name = "SIGNWRITING NOSE NEUTRAL" -> 121393
      [] name = "SIGNWRITING NOSE CONTACT" -> 121394
      [] name = "SIGNWRITING NOSE WRINKLES" -> 121395
      [] name = "SIGNWRITING NOSE WIGGLES" -> 121396
      [] name = "SIGNWRITING AIR BLOWING OUT" -> 121397
      [] name = "SIGNWRITING AIR SUCKING IN" -> 121398
      [] name = "SIGNWRITING AIR BLOW SMALL ROTATIONS" -> 121399
      [] name = "SIGNWRITING AIR SUCK SMALL ROTATIONS" -> 121400
      [] name = "SIGNWRITING BREATH INHALE" -> 121401
      [] name = "SIGNWRITING BREATH EXHALE" -> 121402
      [] name = "SIGNWRITING MOUTH CLOSED NEUTRAL" -> 121403
      [] name = "SIGNWRITING MOUTH CLOSED FORWARD" -> 121404
      [] name = "SIGNWRITING MOUTH CLOSED CONTACT" -> 121405
      [] name = "SIGNWRITING MOUTH SMILE" -> 121406
      [] name = "SIGNWRITING MOUTH SMILE WRINKLED" -> 121407
      [] name = "SIGNWRITING MOUTH SMILE OPEN" -> 121408
      [] name = "SIGNWRITING MOUTH FROWN" -> 121409
      [] name = "SIGNWRITING MOUTH FROWN WRINKLED" -> 121410
      [] name = "SIGNWRITING MOUTH FROWN OPEN" -> 121411
      [] name = "SIGNWRITING MOUTH OPEN CIRCLE" -> 121412
      [] name = "SIGNWRITING MOUTH OPEN FORWARD" -> 121413
      [] name = "SIGNWRITING MOUTH OPEN WRINKLED" -> 121414
      [] name = "SIGNWRITING MOUTH OPEN OVAL" -> 121415
      [] name = "SIGNWRITING MOUTH OPEN OVAL WRINKLED" -> 121416
      [] name = "SIGNWRITING MOUTH OPEN OVAL YAWN" -> 121417
      [] name = "SIGNWRITING MOUTH OPEN RECTANGLE" -> 121418
      [] name = "SIGNWRITING MOUTH OPEN RECTANGLE WRINKLED" -> 121419
      [] name = "SIGNWRITING MOUTH OPEN RECTANGLE YAWN" -> 121420
      [] name = "SIGNWRITING MOUTH KISS" -> 121421
      [] name = "SIGNWRITING MOUTH KISS FORWARD" -> 121422
      [] name = "SIGNWRITING MOUTH KISS WRINKLED" -> 121423
      [] name = "SIGNWRITING MOUTH TENSE" -> 121424
      [] name = "SIGNWRITING MOUTH TENSE FORWARD" -> 121425
      [] name = "SIGNWRITING MOUTH TENSE SUCKED" -> 121426
      [] name = "SIGNWRITING LIPS PRESSED TOGETHER" -> 121427
      [] name = "SIGNWRITING LIP LOWER OVER UPPER" -> 121428
      [] name = "SIGNWRITING LIP UPPER OVER LOWER" -> 121429
      [] name = "SIGNWRITING MOUTH CORNERS" -> 121430
      [] name = "SIGNWRITING MOUTH WRINKLES SINGLE" -> 121431
      [] name = "SIGNWRITING MOUTH WRINKLES DOUBLE" -> 121432
      [] name = "SIGNWRITING TONGUE STICKING OUT FAR" -> 121433
      [] name = "SIGNWRITING TONGUE LICKING LIPS" -> 121434
      [] name = "SIGNWRITING TONGUE TIP BETWEEN LIPS" -> 121435
      [] name = "SIGNWRITING TONGUE TIP TOUCHING INSIDE MOUTH" -> 121436
      [] name = "SIGNWRITING TONGUE INSIDE MOUTH RELAXED" -> 121437
      [] name = "SIGNWRITING TONGUE MOVES AGAINST CHEEK" -> 121438
      [] name = "SIGNWRITING TONGUE CENTRE STICKING OUT" -> 121439
      [] name = "SIGNWRITING TONGUE CENTRE INSIDE MOUTH" -> 121440
      [] name = "SIGNWRITING TEETH" -> 121441
      [] name = "SIGNWRITING TEETH MOVEMENT" -> 121442
      [] name = "SIGNWRITING TEETH ON TONGUE" -> 121443
      [] name = "SIGNWRITING TEETH ON TONGUE MOVEMENT" -> 121444
      [] name = "SIGNWRITING TEETH ON LIPS" -> 121445
      [] name = "SIGNWRITING TEETH ON LIPS MOVEMENT" -> 121446
      [] name = "SIGNWRITING TEETH BITE LIPS" -> 121447
      [] name = "SIGNWRITING MOVEMENT-WALLPLANE JAW" -> 121448
      [] name = "SIGNWRITING MOVEMENT-FLOORPLANE JAW" -> 121449
      [] name = "SIGNWRITING NECK" -> 121450
      [] name = "SIGNWRITING HAIR" -> 121451
      [] name = "SIGNWRITING EXCITEMENT" -> 121452
      [] name = "SIGNWRITING SHOULDER HIP SPINE" -> 121453
      [] name = "SIGNWRITING SHOULDER HIP POSITIONS" -> 121454
      [] name = "SIGNWRITING WALLPLANE SHOULDER HIP MOVE" -> 121455
      [] name = "SIGNWRITING FLOORPLANE SHOULDER HIP MOVE" -> 121456
      [] name = "SIGNWRITING SHOULDER TILTING FROM WAIST" -> 121457
      [] name = "SIGNWRITING TORSO-WALLPLANE STRAIGHT STRETCH" -> 121458
      [] name = "SIGNWRITING TORSO-WALLPLANE CURVED BEND" -> 121459
      [] name = "SIGNWRITING TORSO-FLOORPLANE TWISTING" -> 121460
      [] name = "SIGNWRITING UPPER BODY TILTING FROM HIP JOINTS" -> 121461
      [] name = "SIGNWRITING LIMB COMBINATION" -> 121462
      [] name = "SIGNWRITING LIMB LENGTH-1" -> 121463
      [] name = "SIGNWRITING LIMB LENGTH-2" -> 121464
      [] name = "SIGNWRITING LIMB LENGTH-3" -> 121465
      [] name = "SIGNWRITING LIMB LENGTH-4" -> 121466
      [] name = "SIGNWRITING LIMB LENGTH-5" -> 121467
      [] name = "SIGNWRITING LIMB LENGTH-6" -> 121468
      [] name = "SIGNWRITING LIMB LENGTH-7" -> 121469
      [] name = "SIGNWRITING FINGER" -> 121470
      [] name = "SIGNWRITING LOCATION-WALLPLANE SPACE" -> 121471
      [] name = "SIGNWRITING LOCATION-FLOORPLANE SPACE" -> 121472
      [] name = "SIGNWRITING LOCATION HEIGHT" -> 121473
      [] name = "SIGNWRITING LOCATION WIDTH" -> 121474
      [] name = "SIGNWRITING LOCATION DEPTH" -> 121475
      [] name = "SIGNWRITING LOCATION HEAD NECK" -> 121476
      [] name = "SIGNWRITING LOCATION TORSO" -> 121477
      [] name = "SIGNWRITING LOCATION LIMBS DIGITS" -> 121478
      [] name = "SIGNWRITING COMMA" -> 121479
      [] name = "SIGNWRITING FULL STOP" -> 121480
      [] name = "SIGNWRITING SEMICOLON" -> 121481
      [] name = "SIGNWRITING COLON" -> 121482
      [] name = "SIGNWRITING PARENTHESIS" -> 121483
      [] name = "SIGNWRITING FILL MODIFIER-2" -> 121499
      [] name = "SIGNWRITING FILL MODIFIER-3" -> 121500
      [] name = "SIGNWRITING FILL MODIFIER-4" -> 121501
      [] name = "SIGNWRITING FILL MODIFIER-5" -> 121502
      [] name = "SIGNWRITING FILL MODIFIER-6" -> 121503
      [] name = "SIGNWRITING ROTATION MODIFIER-2" -> 121505
      [] name = "SIGNWRITING ROTATION MODIFIER-3" -> 121506
      [] name = "SIGNWRITING ROTATION MODIFIER-4" -> 121507
      [] name = "SIGNWRITING ROTATION MODIFIER-5" -> 121508
      [] name = "SIGNWRITING ROTATION MODIFIER-6" -> 121509
      [] name = "SIGNWRITING ROTATION MODIFIER-7" -> 121510
      [] name = "SIGNWRITING ROTATION MODIFIER-8" -> 121511
      [] name = "SIGNWRITING ROTATION MODIFIER-9" -> 121512
      [] name = "SIGNWRITING ROTATION MODIFIER-10" -> 121513
      [] name = "SIGNWRITING ROTATION MODIFIER-11" -> 121514
      [] name = "SIGNWRITING ROTATION MODIFIER-12" -> 121515
      [] name = "SIGNWRITING ROTATION MODIFIER-13" -> 121516
      [] name = "SIGNWRITING ROTATION MODIFIER-14" -> 121517
      [] name = "SIGNWRITING ROTATION MODIFIER-15" -> 121518
      [] name = "SIGNWRITING ROTATION MODIFIER-16" -> 121519
      [] name = "LATIN SMALL LETTER FENG DIGRAPH WITH TRILL" -> 122624
      [] name = "LATIN SMALL LETTER REVERSED SCRIPT G" -> 122625
      [] name = "LATIN LETTER SMALL CAPITAL TURNED G" -> 122626
      [] name = "LATIN SMALL LETTER REVERSED K" -> 122627
      [] name = "LATIN LETTER SMALL CAPITAL L WITH BELT" -> 122628
      [] name = "LATIN SMALL LETTER LEZH WITH RETROFLEX HOOK" -> 122629
      [] name = "LATIN SMALL LETTER TURNED Y WITH BELT" -> 122630
      [] name = "LATIN SMALL LETTER REVERSED ENG" -> 122631
      [] name = "LATIN SMALL LETTER TURNED R WITH LONG LEG AND RETROFLEX HOOK" -> 122632
      [] name = "LATIN SMALL LETTER T WITH HOOK AND RETROFLEX HOOK" -> 122633
      [] name = "LATIN LETTER RETROFLEX CLICK WITH RETROFLEX HOOK" -> 122634
      [] name = "LATIN SMALL LETTER ESH WITH DOUBLE BAR" -> 122635
      [] name = "LATIN SMALL LETTER ESH WITH DOUBLE BAR AND CURL" -> 122636
      [] name = "LATIN SMALL LETTER TURNED T WITH CURL" -> 122637
      [] name = "LATIN LETTER INVERTED GLOTTAL STOP WITH CURL" -> 122638
      [] name = "LATIN LETTER STRETCHED C WITH CURL" -> 122639
      [] name = "LATIN LETTER SMALL CAPITAL TURNED K" -> 122640
      [] name = "LATIN SMALL LETTER L WITH FISHHOOK" -> 122641
      [] name = "LATIN SMALL LETTER DEZH DIGRAPH WITH PALATAL HOOK" -> 122642
      [] name = "LATIN SMALL LETTER L WITH BELT AND PALATAL HOOK" -> 122643
      [] name = "LATIN SMALL LETTER ENG WITH PALATAL HOOK" -> 122644
      [] name = "LATIN SMALL LETTER TURNED R WITH PALATAL HOOK" -> 122645
      [] name = "LATIN SMALL LETTER R WITH FISHHOOK AND PALATAL HOOK" -> 122646
      [] name = "LATIN SMALL LETTER TESH DIGRAPH WITH PALATAL HOOK" -> 122647
      [] name = "LATIN SMALL LETTER EZH WITH PALATAL HOOK" -> 122648
      [] name = "LATIN SMALL LETTER DEZH DIGRAPH WITH RETROFLEX HOOK" -> 122649
      [] name = "LATIN SMALL LETTER I WITH STROKE AND RETROFLEX HOOK" -> 122650
      [] name = "LATIN SMALL LETTER O WITH RETROFLEX HOOK" -> 122651
      [] name = "LATIN SMALL LETTER TESH DIGRAPH WITH RETROFLEX HOOK" -> 122652
      [] name = "LATIN SMALL LETTER C WITH RETROFLEX HOOK" -> 122653
      [] name = "LATIN SMALL LETTER S WITH CURL" -> 122654
      [] name = "COMBINING GLAGOLITIC LETTER AZU" -> 122880
      [] name = "COMBINING GLAGOLITIC LETTER BUKY" -> 122881
      [] name = "COMBINING GLAGOLITIC LETTER VEDE" -> 122882
      [] name = "COMBINING GLAGOLITIC LETTER GLAGOLI" -> 122883
      [] name = "COMBINING GLAGOLITIC LETTER DOBRO" -> 122884
      [] name = "COMBINING GLAGOLITIC LETTER YESTU" -> 122885
      [] name = "COMBINING GLAGOLITIC LETTER ZHIVETE" -> 122886
      [] name = "COMBINING GLAGOLITIC LETTER ZEMLJA" -> 122888
      [] name = "COMBINING GLAGOLITIC LETTER IZHE" -> 122889
      [] name = "COMBINING GLAGOLITIC LETTER INITIAL IZHE" -> 122890
      [] name = "COMBINING GLAGOLITIC LETTER I" -> 122891
      [] name = "COMBINING GLAGOLITIC LETTER DJERVI" -> 122892
      [] name = "COMBINING GLAGOLITIC LETTER KAKO" -> 122893
      [] name = "COMBINING GLAGOLITIC LETTER LJUDIJE" -> 122894
      [] name = "COMBINING GLAGOLITIC LETTER MYSLITE" -> 122895
      [] name = "COMBINING GLAGOLITIC LETTER NASHI" -> 122896
      [] name = "COMBINING GLAGOLITIC LETTER ONU" -> 122897
      [] name = "COMBINING GLAGOLITIC LETTER POKOJI" -> 122898
      [] name = "COMBINING GLAGOLITIC LETTER RITSI" -> 122899
      [] name = "COMBINING GLAGOLITIC LETTER SLOVO" -> 122900
      [] name = "COMBINING GLAGOLITIC LETTER TVRIDO" -> 122901
      [] name = "COMBINING GLAGOLITIC LETTER UKU" -> 122902
      [] name = "COMBINING GLAGOLITIC LETTER FRITU" -> 122903
      [] name = "COMBINING GLAGOLITIC LETTER HERU" -> 122904
      [] name = "COMBINING GLAGOLITIC LETTER SHTA" -> 122907
      [] name = "COMBINING GLAGOLITIC LETTER TSI" -> 122908
      [] name = "COMBINING GLAGOLITIC LETTER CHRIVI" -> 122909
      [] name = "COMBINING GLAGOLITIC LETTER SHA" -> 122910
      [] name = "COMBINING GLAGOLITIC LETTER YERU" -> 122911
      [] name = "COMBINING GLAGOLITIC LETTER YERI" -> 122912
      [] name = "COMBINING GLAGOLITIC LETTER YATI" -> 122913
      [] name = "COMBINING GLAGOLITIC LETTER YU" -> 122915
      [] name = "COMBINING GLAGOLITIC LETTER SMALL YUS" -> 122916
      [] name = "COMBINING GLAGOLITIC LETTER YO" -> 122918
      [] name = "COMBINING GLAGOLITIC LETTER IOTATED SMALL YUS" -> 122919
      [] name = "COMBINING GLAGOLITIC LETTER BIG YUS" -> 122920
      [] name = "COMBINING GLAGOLITIC LETTER IOTATED BIG YUS" -> 122921
      [] name = "COMBINING GLAGOLITIC LETTER FITA" -> 122922
      [] name = "NYIAKENG PUACHUE HMONG LETTER MA" -> 123136
      [] name = "NYIAKENG PUACHUE HMONG LETTER TSA" -> 123137
      [] name = "NYIAKENG PUACHUE HMONG LETTER NTA" -> 123138
      [] name = "NYIAKENG PUACHUE HMONG LETTER TA" -> 123139
      [] name = "NYIAKENG PUACHUE HMONG LETTER HA" -> 123140
      [] name = "NYIAKENG PUACHUE HMONG LETTER NA" -> 123141
      [] name = "NYIAKENG PUACHUE HMONG LETTER XA" -> 123142
      [] name = "NYIAKENG PUACHUE HMONG LETTER NKA" -> 123143
      [] name = "NYIAKENG PUACHUE HMONG LETTER CA" -> 123144
      [] name = "NYIAKENG PUACHUE HMONG LETTER LA" -> 123145
      [] name = "NYIAKENG PUACHUE HMONG LETTER SA" -> 123146
      [] name = "NYIAKENG PUACHUE HMONG LETTER ZA" -> 123147
      [] name = "NYIAKENG PUACHUE HMONG LETTER NCA" -> 123148
      [] name = "NYIAKENG PUACHUE HMONG LETTER NTSA" -> 123149
      [] name = "NYIAKENG PUACHUE HMONG LETTER KA" -> 123150
      [] name = "NYIAKENG PUACHUE HMONG LETTER DA" -> 123151
      [] name = "NYIAKENG PUACHUE HMONG LETTER NYA" -> 123152
      [] name = "NYIAKENG PUACHUE HMONG LETTER NRA" -> 123153
      [] name = "NYIAKENG PUACHUE HMONG LETTER VA" -> 123154
      [] name = "NYIAKENG PUACHUE HMONG LETTER NTXA" -> 123155
      [] name = "NYIAKENG PUACHUE HMONG LETTER TXA" -> 123156
      [] name = "NYIAKENG PUACHUE HMONG LETTER FA" -> 123157
      [] name = "NYIAKENG PUACHUE HMONG LETTER RA" -> 123158
      [] name = "NYIAKENG PUACHUE HMONG LETTER QA" -> 123159
      [] name = "NYIAKENG PUACHUE HMONG LETTER YA" -> 123160
      [] name = "NYIAKENG PUACHUE HMONG LETTER NQA" -> 123161
      [] name = "NYIAKENG PUACHUE HMONG LETTER PA" -> 123162
      [] name = "NYIAKENG PUACHUE HMONG LETTER XYA" -> 123163
      [] name = "NYIAKENG PUACHUE HMONG LETTER NPA" -> 123164
      [] name = "NYIAKENG PUACHUE HMONG LETTER DLA" -> 123165
      [] name = "NYIAKENG PUACHUE HMONG LETTER NPLA" -> 123166
      [] name = "NYIAKENG PUACHUE HMONG LETTER HAH" -> 123167
      [] name = "NYIAKENG PUACHUE HMONG LETTER MLA" -> 123168
      [] name = "NYIAKENG PUACHUE HMONG LETTER PLA" -> 123169
      [] name = "NYIAKENG PUACHUE HMONG LETTER GA" -> 123170
      [] name = "NYIAKENG PUACHUE HMONG LETTER RRA" -> 123171
      [] name = "NYIAKENG PUACHUE HMONG LETTER A" -> 123172
      [] name = "NYIAKENG PUACHUE HMONG LETTER AA" -> 123173
      [] name = "NYIAKENG PUACHUE HMONG LETTER I" -> 123174
      [] name = "NYIAKENG PUACHUE HMONG LETTER U" -> 123175
      [] name = "NYIAKENG PUACHUE HMONG LETTER O" -> 123176
      [] name = "NYIAKENG PUACHUE HMONG LETTER OO" -> 123177
      [] name = "NYIAKENG PUACHUE HMONG LETTER E" -> 123178
      [] name = "NYIAKENG PUACHUE HMONG LETTER EE" -> 123179
      [] name = "NYIAKENG PUACHUE HMONG LETTER W" -> 123180
      [] name = "NYIAKENG PUACHUE HMONG TONE-B" -> 123184
      [] name = "NYIAKENG PUACHUE HMONG TONE-M" -> 123185
      [] name = "NYIAKENG PUACHUE HMONG TONE-J" -> 123186
      [] name = "NYIAKENG PUACHUE HMONG TONE-V" -> 123187
      [] name = "NYIAKENG PUACHUE HMONG TONE-S" -> 123188
      [] name = "NYIAKENG PUACHUE HMONG TONE-G" -> 123189
      [] name = "NYIAKENG PUACHUE HMONG TONE-D" -> 123190
      [] name = "NYIAKENG PUACHUE HMONG SIGN FOR PERSON" -> 123191
      [] name = "NYIAKENG PUACHUE HMONG SIGN FOR THING" -> 123192
      [] name = "NYIAKENG PUACHUE HMONG SIGN FOR LOCATION" -> 123193
      [] name = "NYIAKENG PUACHUE HMONG SIGN FOR ANIMAL" -> 123194
      [] name = "NYIAKENG PUACHUE HMONG SIGN FOR INVERTEBRATE" -> 123195
      [] name = "NYIAKENG PUACHUE HMONG SIGN XW XW" -> 123196
      [] name = "NYIAKENG PUACHUE HMONG SYLLABLE LENGTHENER" -> 123197
      [] name = "NYIAKENG PUACHUE HMONG DIGIT ZERO" -> 123200
      [] name = "NYIAKENG PUACHUE HMONG DIGIT ONE" -> 123201
      [] name = "NYIAKENG PUACHUE HMONG DIGIT TWO" -> 123202
      [] name = "NYIAKENG PUACHUE HMONG DIGIT THREE" -> 123203
      [] name = "NYIAKENG PUACHUE HMONG DIGIT FOUR" -> 123204
      [] name = "NYIAKENG PUACHUE HMONG DIGIT FIVE" -> 123205
      [] name = "NYIAKENG PUACHUE HMONG DIGIT SIX" -> 123206
      [] name = "NYIAKENG PUACHUE HMONG DIGIT SEVEN" -> 123207
      [] name = "NYIAKENG PUACHUE HMONG DIGIT EIGHT" -> 123208
      [] name = "NYIAKENG PUACHUE HMONG DIGIT NINE" -> 123209
      [] name = "NYIAKENG PUACHUE HMONG LOGOGRAM NYAJ" -> 123214
      [] name = "NYIAKENG PUACHUE HMONG CIRCLED CA" -> 123215
      [] name = "TOTO LETTER PA" -> 123536
      [] name = "TOTO LETTER BA" -> 123537
      [] name = "TOTO LETTER TA" -> 123538
      [] name = "TOTO LETTER DA" -> 123539
      [] name = "TOTO LETTER KA" -> 123540
      [] name = "TOTO LETTER GA" -> 123541
      [] name = "TOTO LETTER MA" -> 123542
      [] name = "TOTO LETTER NA" -> 123543
      [] name = "TOTO LETTER NGA" -> 123544
      [] name = "TOTO LETTER SA" -> 123545
      [] name = "TOTO LETTER CHA" -> 123546
      [] name = "TOTO LETTER YA" -> 123547
      [] name = "TOTO LETTER WA" -> 123548
      [] name = "TOTO LETTER JA" -> 123549
      [] name = "TOTO LETTER HA" -> 123550
      [] name = "TOTO LETTER RA" -> 123551
      [] name = "TOTO LETTER LA" -> 123552
      [] name = "TOTO LETTER I" -> 123553
      [] name = "TOTO LETTER BREATHY I" -> 123554
      [] name = "TOTO LETTER IU" -> 123555
      [] name = "TOTO LETTER BREATHY IU" -> 123556
      [] name = "TOTO LETTER U" -> 123557
      [] name = "TOTO LETTER E" -> 123558
      [] name = "TOTO LETTER BREATHY E" -> 123559
      [] name = "TOTO LETTER EO" -> 123560
      [] name = "TOTO LETTER BREATHY EO" -> 123561
      [] name = "TOTO LETTER O" -> 123562
      [] name = "TOTO LETTER AE" -> 123563
      [] name = "TOTO LETTER BREATHY AE" -> 123564
      [] name = "TOTO LETTER A" -> 123565
      [] name = "TOTO SIGN RISING TONE" -> 123566
      [] name = "WANCHO LETTER AA" -> 123584
      [] name = "WANCHO LETTER A" -> 123585
      [] name = "WANCHO LETTER BA" -> 123586
      [] name = "WANCHO LETTER CA" -> 123587
      [] name = "WANCHO LETTER DA" -> 123588
      [] name = "WANCHO LETTER GA" -> 123589
      [] name = "WANCHO LETTER YA" -> 123590
      [] name = "WANCHO LETTER PHA" -> 123591
      [] name = "WANCHO LETTER LA" -> 123592
      [] name = "WANCHO LETTER NA" -> 123593
      [] name = "WANCHO LETTER PA" -> 123594
      [] name = "WANCHO LETTER TA" -> 123595
      [] name = "WANCHO LETTER THA" -> 123596
      [] name = "WANCHO LETTER FA" -> 123597
      [] name = "WANCHO LETTER SA" -> 123598
      [] name = "WANCHO LETTER SHA" -> 123599
      [] name = "WANCHO LETTER JA" -> 123600
      [] name = "WANCHO LETTER ZA" -> 123601
      [] name = "WANCHO LETTER WA" -> 123602
      [] name = "WANCHO LETTER VA" -> 123603
      [] name = "WANCHO LETTER KA" -> 123604
      [] name = "WANCHO LETTER O" -> 123605
      [] name = "WANCHO LETTER AU" -> 123606
      [] name = "WANCHO LETTER RA" -> 123607
      [] name = "WANCHO LETTER MA" -> 123608
      [] name = "WANCHO LETTER KHA" -> 123609
      [] name = "WANCHO LETTER HA" -> 123610
      [] name = "WANCHO LETTER E" -> 123611
      [] name = "WANCHO LETTER I" -> 123612
      [] name = "WANCHO LETTER NGA" -> 123613
      [] name = "WANCHO LETTER U" -> 123614
      [] name = "WANCHO LETTER LLHA" -> 123615
      [] name = "WANCHO LETTER TSA" -> 123616
      [] name = "WANCHO LETTER TRA" -> 123617
      [] name = "WANCHO LETTER ONG" -> 123618
      [] name = "WANCHO LETTER AANG" -> 123619
      [] name = "WANCHO LETTER ANG" -> 123620
      [] name = "WANCHO LETTER ING" -> 123621
      [] name = "WANCHO LETTER ON" -> 123622
      [] name = "WANCHO LETTER EN" -> 123623
      [] name = "WANCHO LETTER AAN" -> 123624
      [] name = "WANCHO LETTER NYA" -> 123625
      [] name = "WANCHO LETTER UEN" -> 123626
      [] name = "WANCHO LETTER YIH" -> 123627
      [] name = "WANCHO TONE TUP" -> 123628
      [] name = "WANCHO TONE TUPNI" -> 123629
      [] name = "WANCHO TONE KOI" -> 123630
      [] name = "WANCHO TONE KOINI" -> 123631
      [] name = "WANCHO DIGIT ZERO" -> 123632
      [] name = "WANCHO DIGIT ONE" -> 123633
      [] name = "WANCHO DIGIT TWO" -> 123634
      [] name = "WANCHO DIGIT THREE" -> 123635
      [] name = "WANCHO DIGIT FOUR" -> 123636
      [] name = "WANCHO DIGIT FIVE" -> 123637
      [] name = "WANCHO DIGIT SIX" -> 123638
      [] name = "WANCHO DIGIT SEVEN" -> 123639
      [] name = "WANCHO DIGIT EIGHT" -> 123640
      [] name = "WANCHO DIGIT NINE" -> 123641
      [] name = "WANCHO NGUN SIGN" -> 123647
      [] name = "ETHIOPIC SYLLABLE HHYA" -> 124896
      [] name = "ETHIOPIC SYLLABLE HHYU" -> 124897
      [] name = "ETHIOPIC SYLLABLE HHYI" -> 124898
      [] name = "ETHIOPIC SYLLABLE HHYAA" -> 124899
      [] name = "ETHIOPIC SYLLABLE HHYEE" -> 124900
      [] name = "ETHIOPIC SYLLABLE HHYE" -> 124901
      [] name = "ETHIOPIC SYLLABLE HHYO" -> 124902
      [] name = "ETHIOPIC SYLLABLE GURAGE HHWA" -> 124904
      [] name = "ETHIOPIC SYLLABLE HHWI" -> 124905
      [] name = "ETHIOPIC SYLLABLE HHWEE" -> 124906
      [] name = "ETHIOPIC SYLLABLE HHWE" -> 124907
      [] name = "ETHIOPIC SYLLABLE GURAGE MWI" -> 124909
      [] name = "ETHIOPIC SYLLABLE GURAGE MWEE" -> 124910
      [] name = "ETHIOPIC SYLLABLE GURAGE QWI" -> 124912
      [] name = "ETHIOPIC SYLLABLE GURAGE QWEE" -> 124913
      [] name = "ETHIOPIC SYLLABLE GURAGE QWE" -> 124914
      [] name = "ETHIOPIC SYLLABLE GURAGE BWI" -> 124915
      [] name = "ETHIOPIC SYLLABLE GURAGE BWEE" -> 124916
      [] name = "ETHIOPIC SYLLABLE GURAGE KWI" -> 124917
      [] name = "ETHIOPIC SYLLABLE GURAGE KWEE" -> 124918
      [] name = "ETHIOPIC SYLLABLE GURAGE KWE" -> 124919
      [] name = "ETHIOPIC SYLLABLE GURAGE GWI" -> 124920
      [] name = "ETHIOPIC SYLLABLE GURAGE GWEE" -> 124921
      [] name = "ETHIOPIC SYLLABLE GURAGE GWE" -> 124922
      [] name = "ETHIOPIC SYLLABLE GURAGE FWI" -> 124923
      [] name = "ETHIOPIC SYLLABLE GURAGE FWEE" -> 124924
      [] name = "ETHIOPIC SYLLABLE GURAGE PWI" -> 124925
      [] name = "ETHIOPIC SYLLABLE GURAGE PWEE" -> 124926
      [] name = "MENDE KIKAKUI SYLLABLE M001 KI" -> 124928
      [] name = "MENDE KIKAKUI SYLLABLE M002 KA" -> 124929
      [] name = "MENDE KIKAKUI SYLLABLE M003 KU" -> 124930
      [] name = "MENDE KIKAKUI SYLLABLE M065 KEE" -> 124931
      [] name = "MENDE KIKAKUI SYLLABLE M095 KE" -> 124932
      [] name = "MENDE KIKAKUI SYLLABLE M076 KOO" -> 124933
      [] name = "MENDE KIKAKUI SYLLABLE M048 KO" -> 124934
      [] name = "MENDE KIKAKUI SYLLABLE M179 KUA" -> 124935
      [] name = "MENDE KIKAKUI SYLLABLE M004 WI" -> 124936
      [] name = "MENDE KIKAKUI SYLLABLE M005 WA" -> 124937
      [] name = "MENDE KIKAKUI SYLLABLE M006 WU" -> 124938
      [] name = "MENDE KIKAKUI SYLLABLE M126 WEE" -> 124939
      [] name = "MENDE KIKAKUI SYLLABLE M118 WE" -> 124940
      [] name = "MENDE KIKAKUI SYLLABLE M114 WOO" -> 124941
      [] name = "MENDE KIKAKUI SYLLABLE M045 WO" -> 124942
      [] name = "MENDE KIKAKUI SYLLABLE M194 WUI" -> 124943
      [] name = "MENDE KIKAKUI SYLLABLE M143 WEI" -> 124944
      [] name = "MENDE KIKAKUI SYLLABLE M061 WVI" -> 124945
      [] name = "MENDE KIKAKUI SYLLABLE M049 WVA" -> 124946
      [] name = "MENDE KIKAKUI SYLLABLE M139 WVE" -> 124947
      [] name = "MENDE KIKAKUI SYLLABLE M007 MIN" -> 124948
      [] name = "MENDE KIKAKUI SYLLABLE M008 MAN" -> 124949
      [] name = "MENDE KIKAKUI SYLLABLE M009 MUN" -> 124950
      [] name = "MENDE KIKAKUI SYLLABLE M059 MEN" -> 124951
      [] name = "MENDE KIKAKUI SYLLABLE M094 MON" -> 124952
      [] name = "MENDE KIKAKUI SYLLABLE M154 MUAN" -> 124953
      [] name = "MENDE KIKAKUI SYLLABLE M189 MUEN" -> 124954
      [] name = "MENDE KIKAKUI SYLLABLE M010 BI" -> 124955
      [] name = "MENDE KIKAKUI SYLLABLE M011 BA" -> 124956
      [] name = "MENDE KIKAKUI SYLLABLE M012 BU" -> 124957
      [] name = "MENDE KIKAKUI SYLLABLE M150 BEE" -> 124958
      [] name = "MENDE KIKAKUI SYLLABLE M097 BE" -> 124959
      [] name = "MENDE KIKAKUI SYLLABLE M103 BOO" -> 124960
      [] name = "MENDE KIKAKUI SYLLABLE M138 BO" -> 124961
      [] name = "MENDE KIKAKUI SYLLABLE M013 I" -> 124962
      [] name = "MENDE KIKAKUI SYLLABLE M014 A" -> 124963
      [] name = "MENDE KIKAKUI SYLLABLE M015 U" -> 124964
      [] name = "MENDE KIKAKUI SYLLABLE M163 EE" -> 124965
      [] name = "MENDE KIKAKUI SYLLABLE M100 E" -> 124966
      [] name = "MENDE KIKAKUI SYLLABLE M165 OO" -> 124967
      [] name = "MENDE KIKAKUI SYLLABLE M147 O" -> 124968
      [] name = "MENDE KIKAKUI SYLLABLE M137 EI" -> 124969
      [] name = "MENDE KIKAKUI SYLLABLE M131 IN" -> 124970
      [] name = "MENDE KIKAKUI SYLLABLE M135 IN" -> 124971
      [] name = "MENDE KIKAKUI SYLLABLE M195 AN" -> 124972
      [] name = "MENDE KIKAKUI SYLLABLE M178 EN" -> 124973
      [] name = "MENDE KIKAKUI SYLLABLE M019 SI" -> 124974
      [] name = "MENDE KIKAKUI SYLLABLE M020 SA" -> 124975
      [] name = "MENDE KIKAKUI SYLLABLE M021 SU" -> 124976
      [] name = "MENDE KIKAKUI SYLLABLE M162 SEE" -> 124977
      [] name = "MENDE KIKAKUI SYLLABLE M116 SE" -> 124978
      [] name = "MENDE KIKAKUI SYLLABLE M136 SOO" -> 124979
      [] name = "MENDE KIKAKUI SYLLABLE M079 SO" -> 124980
      [] name = "MENDE KIKAKUI SYLLABLE M196 SIA" -> 124981
      [] name = "MENDE KIKAKUI SYLLABLE M025 LI" -> 124982
      [] name = "MENDE KIKAKUI SYLLABLE M026 LA" -> 124983
      [] name = "MENDE KIKAKUI SYLLABLE M027 LU" -> 124984
      [] name = "MENDE KIKAKUI SYLLABLE M084 LEE" -> 124985
      [] name = "MENDE KIKAKUI SYLLABLE M073 LE" -> 124986
      [] name = "MENDE KIKAKUI SYLLABLE M054 LOO" -> 124987
      [] name = "MENDE KIKAKUI SYLLABLE M153 LO" -> 124988
      [] name = "MENDE KIKAKUI SYLLABLE M110 LONG LE" -> 124989
      [] name = "MENDE KIKAKUI SYLLABLE M016 DI" -> 124990
      [] name = "MENDE KIKAKUI SYLLABLE M017 DA" -> 124991
      [] name = "MENDE KIKAKUI SYLLABLE M018 DU" -> 124992
      [] name = "MENDE KIKAKUI SYLLABLE M089 DEE" -> 124993
      [] name = "MENDE KIKAKUI SYLLABLE M180 DOO" -> 124994
      [] name = "MENDE KIKAKUI SYLLABLE M181 DO" -> 124995
      [] name = "MENDE KIKAKUI SYLLABLE M022 TI" -> 124996
      [] name = "MENDE KIKAKUI SYLLABLE M023 TA" -> 124997
      [] name = "MENDE KIKAKUI SYLLABLE M024 TU" -> 124998
      [] name = "MENDE KIKAKUI SYLLABLE M091 TEE" -> 124999
      [] name = "MENDE KIKAKUI SYLLABLE M055 TE" -> 125000
      [] name = "MENDE KIKAKUI SYLLABLE M104 TOO" -> 125001
      [] name = "MENDE KIKAKUI SYLLABLE M069 TO" -> 125002
      [] name = "MENDE KIKAKUI SYLLABLE M028 JI" -> 125003
      [] name = "MENDE KIKAKUI SYLLABLE M029 JA" -> 125004
      [] name = "MENDE KIKAKUI SYLLABLE M030 JU" -> 125005
      [] name = "MENDE KIKAKUI SYLLABLE M157 JEE" -> 125006
      [] name = "MENDE KIKAKUI SYLLABLE M113 JE" -> 125007
      [] name = "MENDE KIKAKUI SYLLABLE M160 JOO" -> 125008
      [] name = "MENDE KIKAKUI SYLLABLE M063 JO" -> 125009
      [] name = "MENDE KIKAKUI SYLLABLE M175 LONG JO" -> 125010
      [] name = "MENDE KIKAKUI SYLLABLE M031 YI" -> 125011
      [] name = "MENDE KIKAKUI SYLLABLE M032 YA" -> 125012
      [] name = "MENDE KIKAKUI SYLLABLE M033 YU" -> 125013
      [] name = "MENDE KIKAKUI SYLLABLE M109 YEE" -> 125014
      [] name = "MENDE KIKAKUI SYLLABLE M080 YE" -> 125015
      [] name = "MENDE KIKAKUI SYLLABLE M141 YOO" -> 125016
      [] name = "MENDE KIKAKUI SYLLABLE M121 YO" -> 125017
      [] name = "MENDE KIKAKUI SYLLABLE M034 FI" -> 125018
      [] name = "MENDE KIKAKUI SYLLABLE M035 FA" -> 125019
      [] name = "MENDE KIKAKUI SYLLABLE M036 FU" -> 125020
      [] name = "MENDE KIKAKUI SYLLABLE M078 FEE" -> 125021
      [] name = "MENDE KIKAKUI SYLLABLE M075 FE" -> 125022
      [] name = "MENDE KIKAKUI SYLLABLE M133 FOO" -> 125023
      [] name = "MENDE KIKAKUI SYLLABLE M088 FO" -> 125024
      [] name = "MENDE KIKAKUI SYLLABLE M197 FUA" -> 125025
      [] name = "MENDE KIKAKUI SYLLABLE M101 FAN" -> 125026
      [] name = "MENDE KIKAKUI SYLLABLE M037 NIN" -> 125027
      [] name = "MENDE KIKAKUI SYLLABLE M038 NAN" -> 125028
      [] name = "MENDE KIKAKUI SYLLABLE M039 NUN" -> 125029
      [] name = "MENDE KIKAKUI SYLLABLE M117 NEN" -> 125030
      [] name = "MENDE KIKAKUI SYLLABLE M169 NON" -> 125031
      [] name = "MENDE KIKAKUI SYLLABLE M176 HI" -> 125032
      [] name = "MENDE KIKAKUI SYLLABLE M041 HA" -> 125033
      [] name = "MENDE KIKAKUI SYLLABLE M186 HU" -> 125034
      [] name = "MENDE KIKAKUI SYLLABLE M040 HEE" -> 125035
      [] name = "MENDE KIKAKUI SYLLABLE M096 HE" -> 125036
      [] name = "MENDE KIKAKUI SYLLABLE M042 HOO" -> 125037
      [] name = "MENDE KIKAKUI SYLLABLE M140 HO" -> 125038
      [] name = "MENDE KIKAKUI SYLLABLE M083 HEEI" -> 125039
      [] name = "MENDE KIKAKUI SYLLABLE M128 HOOU" -> 125040
      [] name = "MENDE KIKAKUI SYLLABLE M053 HIN" -> 125041
      [] name = "MENDE KIKAKUI SYLLABLE M130 HAN" -> 125042
      [] name = "MENDE KIKAKUI SYLLABLE M087 HUN" -> 125043
      [] name = "MENDE KIKAKUI SYLLABLE M052 HEN" -> 125044
      [] name = "MENDE KIKAKUI SYLLABLE M193 HON" -> 125045
      [] name = "MENDE KIKAKUI SYLLABLE M046 HUAN" -> 125046
      [] name = "MENDE KIKAKUI SYLLABLE M090 NGGI" -> 125047
      [] name = "MENDE KIKAKUI SYLLABLE M043 NGGA" -> 125048
      [] name = "MENDE KIKAKUI SYLLABLE M082 NGGU" -> 125049
      [] name = "MENDE KIKAKUI SYLLABLE M115 NGGEE" -> 125050
      [] name = "MENDE KIKAKUI SYLLABLE M146 NGGE" -> 125051
      [] name = "MENDE KIKAKUI SYLLABLE M156 NGGOO" -> 125052
      [] name = "MENDE KIKAKUI SYLLABLE M120 NGGO" -> 125053
      [] name = "MENDE KIKAKUI SYLLABLE M159 NGGAA" -> 125054
      [] name = "MENDE KIKAKUI SYLLABLE M127 NGGUA" -> 125055
      [] name = "MENDE KIKAKUI SYLLABLE M086 LONG NGGE" -> 125056
      [] name = "MENDE KIKAKUI SYLLABLE M106 LONG NGGOO" -> 125057
      [] name = "MENDE KIKAKUI SYLLABLE M183 LONG NGGO" -> 125058
      [] name = "MENDE KIKAKUI SYLLABLE M155 GI" -> 125059
      [] name = "MENDE KIKAKUI SYLLABLE M111 GA" -> 125060
      [] name = "MENDE KIKAKUI SYLLABLE M168 GU" -> 125061
      [] name = "MENDE KIKAKUI SYLLABLE M190 GEE" -> 125062
      [] name = "MENDE KIKAKUI SYLLABLE M166 GUEI" -> 125063
      [] name = "MENDE KIKAKUI SYLLABLE M167 GUAN" -> 125064
      [] name = "MENDE KIKAKUI SYLLABLE M184 NGEN" -> 125065
      [] name = "MENDE KIKAKUI SYLLABLE M057 NGON" -> 125066
      [] name = "MENDE KIKAKUI SYLLABLE M177 NGUAN" -> 125067
      [] name = "MENDE KIKAKUI SYLLABLE M068 PI" -> 125068
      [] name = "MENDE KIKAKUI SYLLABLE M099 PA" -> 125069
      [] name = "MENDE KIKAKUI SYLLABLE M050 PU" -> 125070
      [] name = "MENDE KIKAKUI SYLLABLE M081 PEE" -> 125071
      [] name = "MENDE KIKAKUI SYLLABLE M051 PE" -> 125072
      [] name = "MENDE KIKAKUI SYLLABLE M102 POO" -> 125073
      [] name = "MENDE KIKAKUI SYLLABLE M066 PO" -> 125074
      [] name = "MENDE KIKAKUI SYLLABLE M145 MBI" -> 125075
      [] name = "MENDE KIKAKUI SYLLABLE M062 MBA" -> 125076
      [] name = "MENDE KIKAKUI SYLLABLE M122 MBU" -> 125077
      [] name = "MENDE KIKAKUI SYLLABLE M047 MBEE" -> 125078
      [] name = "MENDE KIKAKUI SYLLABLE M188 MBEE" -> 125079
      [] name = "MENDE KIKAKUI SYLLABLE M072 MBE" -> 125080
      [] name = "MENDE KIKAKUI SYLLABLE M172 MBOO" -> 125081
      [] name = "MENDE KIKAKUI SYLLABLE M174 MBO" -> 125082
      [] name = "MENDE KIKAKUI SYLLABLE M187 MBUU" -> 125083
      [] name = "MENDE KIKAKUI SYLLABLE M161 LONG MBE" -> 125084
      [] name = "MENDE KIKAKUI SYLLABLE M105 LONG MBOO" -> 125085
      [] name = "MENDE KIKAKUI SYLLABLE M142 LONG MBO" -> 125086
      [] name = "MENDE KIKAKUI SYLLABLE M132 KPI" -> 125087
      [] name = "MENDE KIKAKUI SYLLABLE M092 KPA" -> 125088
      [] name = "MENDE KIKAKUI SYLLABLE M074 KPU" -> 125089
      [] name = "MENDE KIKAKUI SYLLABLE M044 KPEE" -> 125090
      [] name = "MENDE KIKAKUI SYLLABLE M108 KPE" -> 125091
      [] name = "MENDE KIKAKUI SYLLABLE M112 KPOO" -> 125092
      [] name = "MENDE KIKAKUI SYLLABLE M158 KPO" -> 125093
      [] name = "MENDE KIKAKUI SYLLABLE M124 GBI" -> 125094
      [] name = "MENDE KIKAKUI SYLLABLE M056 GBA" -> 125095
      [] name = "MENDE KIKAKUI SYLLABLE M148 GBU" -> 125096
      [] name = "MENDE KIKAKUI SYLLABLE M093 GBEE" -> 125097
      [] name = "MENDE KIKAKUI SYLLABLE M107 GBE" -> 125098
      [] name = "MENDE KIKAKUI SYLLABLE M071 GBOO" -> 125099
      [] name = "MENDE KIKAKUI SYLLABLE M070 GBO" -> 125100
      [] name = "MENDE KIKAKUI SYLLABLE M171 RA" -> 125101
      [] name = "MENDE KIKAKUI SYLLABLE M123 NDI" -> 125102
      [] name = "MENDE KIKAKUI SYLLABLE M129 NDA" -> 125103
      [] name = "MENDE KIKAKUI SYLLABLE M125 NDU" -> 125104
      [] name = "MENDE KIKAKUI SYLLABLE M191 NDEE" -> 125105
      [] name = "MENDE KIKAKUI SYLLABLE M119 NDE" -> 125106
      [] name = "MENDE KIKAKUI SYLLABLE M067 NDOO" -> 125107
      [] name = "MENDE KIKAKUI SYLLABLE M064 NDO" -> 125108
      [] name = "MENDE KIKAKUI SYLLABLE M152 NJA" -> 125109
      [] name = "MENDE KIKAKUI SYLLABLE M192 NJU" -> 125110
      [] name = "MENDE KIKAKUI SYLLABLE M149 NJEE" -> 125111
      [] name = "MENDE KIKAKUI SYLLABLE M134 NJOO" -> 125112
      [] name = "MENDE KIKAKUI SYLLABLE M182 VI" -> 125113
      [] name = "MENDE KIKAKUI SYLLABLE M185 VA" -> 125114
      [] name = "MENDE KIKAKUI SYLLABLE M151 VU" -> 125115
      [] name = "MENDE KIKAKUI SYLLABLE M173 VEE" -> 125116
      [] name = "MENDE KIKAKUI SYLLABLE M085 VE" -> 125117
      [] name = "MENDE KIKAKUI SYLLABLE M144 VOO" -> 125118
      [] name = "MENDE KIKAKUI SYLLABLE M077 VO" -> 125119
      [] name = "MENDE KIKAKUI SYLLABLE M164 NYIN" -> 125120
      [] name = "MENDE KIKAKUI SYLLABLE M058 NYAN" -> 125121
      [] name = "MENDE KIKAKUI SYLLABLE M170 NYUN" -> 125122
      [] name = "MENDE KIKAKUI SYLLABLE M098 NYEN" -> 125123
      [] name = "MENDE KIKAKUI SYLLABLE M060 NYON" -> 125124
      [] name = "MENDE KIKAKUI DIGIT ONE" -> 125127
      [] name = "MENDE KIKAKUI DIGIT TWO" -> 125128
      [] name = "MENDE KIKAKUI DIGIT THREE" -> 125129
      [] name = "MENDE KIKAKUI DIGIT FOUR" -> 125130
      [] name = "MENDE KIKAKUI DIGIT FIVE" -> 125131
      [] name = "MENDE KIKAKUI DIGIT SIX" -> 125132
      [] name = "MENDE KIKAKUI DIGIT SEVEN" -> 125133
      [] name = "MENDE KIKAKUI DIGIT EIGHT" -> 125134
      [] name = "MENDE KIKAKUI DIGIT NINE" -> 125135
      [] name = "MENDE KIKAKUI COMBINING NUMBER TEENS" -> 125136
      [] name = "MENDE KIKAKUI COMBINING NUMBER TENS" -> 125137
      [] name = "MENDE KIKAKUI COMBINING NUMBER HUNDREDS" -> 125138
      [] name = "MENDE KIKAKUI COMBINING NUMBER THOUSANDS" -> 125139
      [] name = "MENDE KIKAKUI COMBINING NUMBER TEN THOUSANDS" -> 125140
      [] name = "MENDE KIKAKUI COMBINING NUMBER HUNDRED THOUSANDS" -> 125141
      [] name = "MENDE KIKAKUI COMBINING NUMBER MILLIONS" -> 125142
      [] name = "ADLAM CAPITAL LETTER ALIF" -> 125184
      [] name = "ADLAM CAPITAL LETTER DAALI" -> 125185
      [] name = "ADLAM CAPITAL LETTER LAAM" -> 125186
      [] name = "ADLAM CAPITAL LETTER MIIM" -> 125187
      [] name = "ADLAM CAPITAL LETTER BA" -> 125188
      [] name = "ADLAM CAPITAL LETTER SINNYIIYHE" -> 125189
      [] name = "ADLAM CAPITAL LETTER PE" -> 125190
      [] name = "ADLAM CAPITAL LETTER BHE" -> 125191
      [] name = "ADLAM CAPITAL LETTER RA" -> 125192
      [] name = "ADLAM CAPITAL LETTER E" -> 125193
      [] name = "ADLAM CAPITAL LETTER FA" -> 125194
      [] name = "ADLAM CAPITAL LETTER I" -> 125195
      [] name = "ADLAM CAPITAL LETTER O" -> 125196
      [] name = "ADLAM CAPITAL LETTER DHA" -> 125197
      [] name = "ADLAM CAPITAL LETTER YHE" -> 125198
      [] name = "ADLAM CAPITAL LETTER WAW" -> 125199
      [] name = "ADLAM CAPITAL LETTER NUN" -> 125200
      [] name = "ADLAM CAPITAL LETTER KAF" -> 125201
      [] name = "ADLAM CAPITAL LETTER YA" -> 125202
      [] name = "ADLAM CAPITAL LETTER U" -> 125203
      [] name = "ADLAM CAPITAL LETTER JIIM" -> 125204
      [] name = "ADLAM CAPITAL LETTER CHI" -> 125205
      [] name = "ADLAM CAPITAL LETTER HA" -> 125206
      [] name = "ADLAM CAPITAL LETTER QAAF" -> 125207
      [] name = "ADLAM CAPITAL LETTER GA" -> 125208
      [] name = "ADLAM CAPITAL LETTER NYA" -> 125209
      [] name = "ADLAM CAPITAL LETTER TU" -> 125210
      [] name = "ADLAM CAPITAL LETTER NHA" -> 125211
      [] name = "ADLAM CAPITAL LETTER VA" -> 125212
      [] name = "ADLAM CAPITAL LETTER KHA" -> 125213
      [] name = "ADLAM CAPITAL LETTER GBE" -> 125214
      [] name = "ADLAM CAPITAL LETTER ZAL" -> 125215
      [] name = "ADLAM CAPITAL LETTER KPO" -> 125216
      [] name = "ADLAM CAPITAL LETTER SHA" -> 125217
      [] name = "ADLAM SMALL LETTER ALIF" -> 125218
      [] name = "ADLAM SMALL LETTER DAALI" -> 125219
      [] name = "ADLAM SMALL LETTER LAAM" -> 125220
      [] name = "ADLAM SMALL LETTER MIIM" -> 125221
      [] name = "ADLAM SMALL LETTER BA" -> 125222
      [] name = "ADLAM SMALL LETTER SINNYIIYHE" -> 125223
      [] name = "ADLAM SMALL LETTER PE" -> 125224
      [] name = "ADLAM SMALL LETTER BHE" -> 125225
      [] name = "ADLAM SMALL LETTER RA" -> 125226
      [] name = "ADLAM SMALL LETTER E" -> 125227
      [] name = "ADLAM SMALL LETTER FA" -> 125228
      [] name = "ADLAM SMALL LETTER I" -> 125229
      [] name = "ADLAM SMALL LETTER O" -> 125230
      [] name = "ADLAM SMALL LETTER DHA" -> 125231
      [] name = "ADLAM SMALL LETTER YHE" -> 125232
      [] name = "ADLAM SMALL LETTER WAW" -> 125233
      [] name = "ADLAM SMALL LETTER NUN" -> 125234
      [] name = "ADLAM SMALL LETTER KAF" -> 125235
      [] name = "ADLAM SMALL LETTER YA" -> 125236
      [] name = "ADLAM SMALL LETTER U" -> 125237
      [] name = "ADLAM SMALL LETTER JIIM" -> 125238
      [] name = "ADLAM SMALL LETTER CHI" -> 125239
      [] name = "ADLAM SMALL LETTER HA" -> 125240
      [] name = "ADLAM SMALL LETTER QAAF" -> 125241
      [] name = "ADLAM SMALL LETTER GA" -> 125242
      [] name = "ADLAM SMALL LETTER NYA" -> 125243
      [] name = "ADLAM SMALL LETTER TU" -> 125244
      [] name = "ADLAM SMALL LETTER NHA" -> 125245
      [] name = "ADLAM SMALL LETTER VA" -> 125246
      [] name = "ADLAM SMALL LETTER KHA" -> 125247
      [] name = "ADLAM SMALL LETTER GBE" -> 125248
      [] name = "ADLAM SMALL LETTER ZAL" -> 125249
      [] name = "ADLAM SMALL LETTER KPO" -> 125250
      [] name = "ADLAM SMALL LETTER SHA" -> 125251
      [] name = "ADLAM ALIF LENGTHENER" -> 125252
      [] name = "ADLAM VOWEL LENGTHENER" -> 125253
      [] name = "ADLAM GEMINATION MARK" -> 125254
      [] name = "ADLAM HAMZA" -> 125255
      [] name = "ADLAM CONSONANT MODIFIER" -> 125256
      [] name = "ADLAM GEMINATE CONSONANT MODIFIER" -> 125257
      [] name = "ADLAM NUKTA" -> 125258
      [] name = "ADLAM NASALIZATION MARK" -> 125259
      [] name = "ADLAM DIGIT ZERO" -> 125264
      [] name = "ADLAM DIGIT ONE" -> 125265
      [] name = "ADLAM DIGIT TWO" -> 125266
      [] name = "ADLAM DIGIT THREE" -> 125267
      [] name = "ADLAM DIGIT FOUR" -> 125268
      [] name = "ADLAM DIGIT FIVE" -> 125269
      [] name = "ADLAM DIGIT SIX" -> 125270
      [] name = "ADLAM DIGIT SEVEN" -> 125271
      [] name = "ADLAM DIGIT EIGHT" -> 125272
      [] name = "ADLAM DIGIT NINE" -> 125273
      [] name = "ADLAM INITIAL EXCLAMATION MARK" -> 125278
      [] name = "ADLAM INITIAL QUESTION MARK" -> 125279
      [] name = "INDIC SIYAQ NUMBER ONE" -> 126065
      [] name = "INDIC SIYAQ NUMBER TWO" -> 126066
      [] name = "INDIC SIYAQ NUMBER THREE" -> 126067
      [] name = "INDIC SIYAQ NUMBER FOUR" -> 126068
      [] name = "INDIC SIYAQ NUMBER FIVE" -> 126069
      [] name = "INDIC SIYAQ NUMBER SIX" -> 126070
      [] name = "INDIC SIYAQ NUMBER SEVEN" -> 126071
      [] name = "INDIC SIYAQ NUMBER EIGHT" -> 126072
      [] name = "INDIC SIYAQ NUMBER NINE" -> 126073
      [] name = "INDIC SIYAQ NUMBER TEN" -> 126074
      [] name = "INDIC SIYAQ NUMBER TWENTY" -> 126075
      [] name = "INDIC SIYAQ NUMBER THIRTY" -> 126076
      [] name = "INDIC SIYAQ NUMBER FORTY" -> 126077
      [] name = "INDIC SIYAQ NUMBER FIFTY" -> 126078
      [] name = "INDIC SIYAQ NUMBER SIXTY" -> 126079
      [] name = "INDIC SIYAQ NUMBER SEVENTY" -> 126080
      [] name = "INDIC SIYAQ NUMBER EIGHTY" -> 126081
      [] name = "INDIC SIYAQ NUMBER NINETY" -> 126082
      [] name = "INDIC SIYAQ NUMBER ONE HUNDRED" -> 126083
      [] name = "INDIC SIYAQ NUMBER TWO HUNDRED" -> 126084
      [] name = "INDIC SIYAQ NUMBER THREE HUNDRED" -> 126085
      [] name = "INDIC SIYAQ NUMBER FOUR HUNDRED" -> 126086
      [] name = "INDIC SIYAQ NUMBER FIVE HUNDRED" -> 126087
      [] name = "INDIC SIYAQ NUMBER SIX HUNDRED" -> 126088
      [] name = "INDIC SIYAQ NUMBER SEVEN HUNDRED" -> 126089
      [] name = "INDIC SIYAQ NUMBER EIGHT HUNDRED" -> 126090
      [] name = "INDIC SIYAQ NUMBER NINE HUNDRED" -> 126091
      [] name = "INDIC SIYAQ NUMBER ONE THOUSAND" -> 126092
      [] name = "INDIC SIYAQ NUMBER TWO THOUSAND" -> 126093
      [] name = "INDIC SIYAQ NUMBER THREE THOUSAND" -> 126094
      [] name = "INDIC SIYAQ NUMBER FOUR THOUSAND" -> 126095
      [] name = "INDIC SIYAQ NUMBER FIVE THOUSAND" -> 126096
      [] name = "INDIC SIYAQ NUMBER SIX THOUSAND" -> 126097
      [] name = "INDIC SIYAQ NUMBER SEVEN THOUSAND" -> 126098
      [] name = "INDIC SIYAQ NUMBER EIGHT THOUSAND" -> 126099
      [] name = "INDIC SIYAQ NUMBER NINE THOUSAND" -> 126100
      [] name = "INDIC SIYAQ NUMBER TEN THOUSAND" -> 126101
      [] name = "INDIC SIYAQ NUMBER TWENTY THOUSAND" -> 126102
      [] name = "INDIC SIYAQ NUMBER THIRTY THOUSAND" -> 126103
      [] name = "INDIC SIYAQ NUMBER FORTY THOUSAND" -> 126104
      [] name = "INDIC SIYAQ NUMBER FIFTY THOUSAND" -> 126105
      [] name = "INDIC SIYAQ NUMBER SIXTY THOUSAND" -> 126106
      [] name = "INDIC SIYAQ NUMBER SEVENTY THOUSAND" -> 126107
      [] name = "INDIC SIYAQ NUMBER EIGHTY THOUSAND" -> 126108
      [] name = "INDIC SIYAQ NUMBER NINETY THOUSAND" -> 126109
      [] name = "INDIC SIYAQ NUMBER LAKH" -> 126110
      [] name = "INDIC SIYAQ NUMBER LAKHAN" -> 126111
      [] name = "INDIC SIYAQ LAKH MARK" -> 126112
      [] name = "INDIC SIYAQ NUMBER KAROR" -> 126113
      [] name = "INDIC SIYAQ NUMBER KARORAN" -> 126114
      [] name = "INDIC SIYAQ NUMBER PREFIXED ONE" -> 126115
      [] name = "INDIC SIYAQ NUMBER PREFIXED TWO" -> 126116
      [] name = "INDIC SIYAQ NUMBER PREFIXED THREE" -> 126117
      [] name = "INDIC SIYAQ NUMBER PREFIXED FOUR" -> 126118
      [] name = "INDIC SIYAQ NUMBER PREFIXED FIVE" -> 126119
      [] name = "INDIC SIYAQ NUMBER PREFIXED SIX" -> 126120
      [] name = "INDIC SIYAQ NUMBER PREFIXED SEVEN" -> 126121
      [] name = "INDIC SIYAQ NUMBER PREFIXED EIGHT" -> 126122
      [] name = "INDIC SIYAQ NUMBER PREFIXED NINE" -> 126123
      [] name = "INDIC SIYAQ PLACEHOLDER" -> 126124
      [] name = "INDIC SIYAQ FRACTION ONE QUARTER" -> 126125
      [] name = "INDIC SIYAQ FRACTION ONE HALF" -> 126126
      [] name = "INDIC SIYAQ FRACTION THREE QUARTERS" -> 126127
      [] name = "INDIC SIYAQ RUPEE MARK" -> 126128
      [] name = "INDIC SIYAQ NUMBER ALTERNATE ONE" -> 126129
      [] name = "INDIC SIYAQ NUMBER ALTERNATE TWO" -> 126130
      [] name = "INDIC SIYAQ NUMBER ALTERNATE TEN THOUSAND" -> 126131
      [] name = "INDIC SIYAQ ALTERNATE LAKH MARK" -> 126132
      [] name = "OTTOMAN SIYAQ NUMBER ONE" -> 126209
      [] name = "OTTOMAN SIYAQ NUMBER TWO" -> 126210
      [] name = "OTTOMAN SIYAQ NUMBER THREE" -> 126211
      [] name = "OTTOMAN SIYAQ NUMBER FOUR" -> 126212
      [] name = "OTTOMAN SIYAQ NUMBER FIVE" -> 126213
      [] name = "OTTOMAN SIYAQ NUMBER SIX" -> 126214
      [] name = "OTTOMAN SIYAQ NUMBER SEVEN" -> 126215
      [] name = "OTTOMAN SIYAQ NUMBER EIGHT" -> 126216
      [] name = "OTTOMAN SIYAQ NUMBER NINE" -> 126217
      [] name = "OTTOMAN SIYAQ NUMBER TEN" -> 126218
      [] name = "OTTOMAN SIYAQ NUMBER TWENTY" -> 126219
      [] name = "OTTOMAN SIYAQ NUMBER THIRTY" -> 126220
      [] name = "OTTOMAN SIYAQ NUMBER FORTY" -> 126221
      [] name = "OTTOMAN SIYAQ NUMBER FIFTY" -> 126222
      [] name = "OTTOMAN SIYAQ NUMBER SIXTY" -> 126223
      [] name = "OTTOMAN SIYAQ NUMBER SEVENTY" -> 126224
      [] name = "OTTOMAN SIYAQ NUMBER EIGHTY" -> 126225
      [] name = "OTTOMAN SIYAQ NUMBER NINETY" -> 126226
      [] name = "OTTOMAN SIYAQ NUMBER ONE HUNDRED" -> 126227
      [] name = "OTTOMAN SIYAQ NUMBER TWO HUNDRED" -> 126228
      [] name = "OTTOMAN SIYAQ NUMBER THREE HUNDRED" -> 126229
      [] name = "OTTOMAN SIYAQ NUMBER FOUR HUNDRED" -> 126230
      [] name = "OTTOMAN SIYAQ NUMBER FIVE HUNDRED" -> 126231
      [] name = "OTTOMAN SIYAQ NUMBER SIX HUNDRED" -> 126232
      [] name = "OTTOMAN SIYAQ NUMBER SEVEN HUNDRED" -> 126233
      [] name = "OTTOMAN SIYAQ NUMBER EIGHT HUNDRED" -> 126234
      [] name = "OTTOMAN SIYAQ NUMBER NINE HUNDRED" -> 126235
      [] name = "OTTOMAN SIYAQ NUMBER ONE THOUSAND" -> 126236
      [] name = "OTTOMAN SIYAQ NUMBER TWO THOUSAND" -> 126237
      [] name = "OTTOMAN SIYAQ NUMBER THREE THOUSAND" -> 126238
      [] name = "OTTOMAN SIYAQ NUMBER FOUR THOUSAND" -> 126239
      [] name = "OTTOMAN SIYAQ NUMBER FIVE THOUSAND" -> 126240
      [] name = "OTTOMAN SIYAQ NUMBER SIX THOUSAND" -> 126241
      [] name = "OTTOMAN SIYAQ NUMBER SEVEN THOUSAND" -> 126242
      [] name = "OTTOMAN SIYAQ NUMBER EIGHT THOUSAND" -> 126243
      [] name = "OTTOMAN SIYAQ NUMBER NINE THOUSAND" -> 126244
      [] name = "OTTOMAN SIYAQ NUMBER TEN THOUSAND" -> 126245
      [] name = "OTTOMAN SIYAQ NUMBER TWENTY THOUSAND" -> 126246
      [] name = "OTTOMAN SIYAQ NUMBER THIRTY THOUSAND" -> 126247
      [] name = "OTTOMAN SIYAQ NUMBER FORTY THOUSAND" -> 126248
      [] name = "OTTOMAN SIYAQ NUMBER FIFTY THOUSAND" -> 126249
      [] name = "OTTOMAN SIYAQ NUMBER SIXTY THOUSAND" -> 126250
      [] name = "OTTOMAN SIYAQ NUMBER SEVENTY THOUSAND" -> 126251
      [] name = "OTTOMAN SIYAQ NUMBER EIGHTY THOUSAND" -> 126252
      [] name = "OTTOMAN SIYAQ NUMBER NINETY THOUSAND" -> 126253
      [] name = "OTTOMAN SIYAQ MARRATAN" -> 126254
      [] name = "OTTOMAN SIYAQ ALTERNATE NUMBER TWO" -> 126255
      [] name = "OTTOMAN SIYAQ ALTERNATE NUMBER THREE" -> 126256
      [] name = "OTTOMAN SIYAQ ALTERNATE NUMBER FOUR" -> 126257
      [] name = "OTTOMAN SIYAQ ALTERNATE NUMBER FIVE" -> 126258
      [] name = "OTTOMAN SIYAQ ALTERNATE NUMBER SIX" -> 126259
      [] name = "OTTOMAN SIYAQ ALTERNATE NUMBER SEVEN" -> 126260
      [] name = "OTTOMAN SIYAQ ALTERNATE NUMBER EIGHT" -> 126261
      [] name = "OTTOMAN SIYAQ ALTERNATE NUMBER NINE" -> 126262
      [] name = "OTTOMAN SIYAQ ALTERNATE NUMBER TEN" -> 126263
      [] name = "OTTOMAN SIYAQ ALTERNATE NUMBER FOUR HUNDRED" -> 126264
      [] name = "OTTOMAN SIYAQ ALTERNATE NUMBER SIX HUNDRED" -> 126265
      [] name = "OTTOMAN SIYAQ ALTERNATE NUMBER TWO THOUSAND" -> 126266
      [] name = "OTTOMAN SIYAQ ALTERNATE NUMBER TEN THOUSAND" -> 126267
      [] name = "OTTOMAN SIYAQ FRACTION ONE HALF" -> 126268
      [] name = "OTTOMAN SIYAQ FRACTION ONE SIXTH" -> 126269
      [] name = "ARABIC MATHEMATICAL ALEF" -> 126464
      [] name = "ARABIC MATHEMATICAL BEH" -> 126465
      [] name = "ARABIC MATHEMATICAL JEEM" -> 126466
      [] name = "ARABIC MATHEMATICAL DAL" -> 126467
      [] name = "ARABIC MATHEMATICAL WAW" -> 126469
      [] name = "ARABIC MATHEMATICAL ZAIN" -> 126470
      [] name = "ARABIC MATHEMATICAL HAH" -> 126471
      [] name = "ARABIC MATHEMATICAL TAH" -> 126472
      [] name = "ARABIC MATHEMATICAL YEH" -> 126473
      [] name = "ARABIC MATHEMATICAL KAF" -> 126474
      [] name = "ARABIC MATHEMATICAL LAM" -> 126475
      [] name = "ARABIC MATHEMATICAL MEEM" -> 126476
      [] name = "ARABIC MATHEMATICAL NOON" -> 126477
      [] name = "ARABIC MATHEMATICAL SEEN" -> 126478
      [] name = "ARABIC MATHEMATICAL AIN" -> 126479
      [] name = "ARABIC MATHEMATICAL FEH" -> 126480
      [] name = "ARABIC MATHEMATICAL SAD" -> 126481
      [] name = "ARABIC MATHEMATICAL QAF" -> 126482
      [] name = "ARABIC MATHEMATICAL REH" -> 126483
      [] name = "ARABIC MATHEMATICAL SHEEN" -> 126484
      [] name = "ARABIC MATHEMATICAL TEH" -> 126485
      [] name = "ARABIC MATHEMATICAL THEH" -> 126486
      [] name = "ARABIC MATHEMATICAL KHAH" -> 126487
      [] name = "ARABIC MATHEMATICAL THAL" -> 126488
      [] name = "ARABIC MATHEMATICAL DAD" -> 126489
      [] name = "ARABIC MATHEMATICAL ZAH" -> 126490
      [] name = "ARABIC MATHEMATICAL GHAIN" -> 126491
      [] name = "ARABIC MATHEMATICAL DOTLESS BEH" -> 126492
      [] name = "ARABIC MATHEMATICAL DOTLESS NOON" -> 126493
      [] name = "ARABIC MATHEMATICAL DOTLESS FEH" -> 126494
      [] name = "ARABIC MATHEMATICAL DOTLESS QAF" -> 126495
      [] name = "ARABIC MATHEMATICAL INITIAL BEH" -> 126497
      [] name = "ARABIC MATHEMATICAL INITIAL JEEM" -> 126498
      [] name = "ARABIC MATHEMATICAL INITIAL HEH" -> 126500
      [] name = "ARABIC MATHEMATICAL INITIAL HAH" -> 126503
      [] name = "ARABIC MATHEMATICAL INITIAL YEH" -> 126505
      [] name = "ARABIC MATHEMATICAL INITIAL KAF" -> 126506
      [] name = "ARABIC MATHEMATICAL INITIAL LAM" -> 126507
      [] name = "ARABIC MATHEMATICAL INITIAL MEEM" -> 126508
      [] name = "ARABIC MATHEMATICAL INITIAL NOON" -> 126509
      [] name = "ARABIC MATHEMATICAL INITIAL SEEN" -> 126510
      [] name = "ARABIC MATHEMATICAL INITIAL AIN" -> 126511
      [] name = "ARABIC MATHEMATICAL INITIAL FEH" -> 126512
      [] name = "ARABIC MATHEMATICAL INITIAL SAD" -> 126513
      [] name = "ARABIC MATHEMATICAL INITIAL QAF" -> 126514
      [] name = "ARABIC MATHEMATICAL INITIAL SHEEN" -> 126516
      [] name = "ARABIC MATHEMATICAL INITIAL TEH" -> 126517
      [] name = "ARABIC MATHEMATICAL INITIAL THEH" -> 126518
      [] name = "ARABIC MATHEMATICAL INITIAL KHAH" -> 126519
      [] name = "ARABIC MATHEMATICAL INITIAL DAD" -> 126521
      [] name = "ARABIC MATHEMATICAL INITIAL GHAIN" -> 126523
      [] name = "ARABIC MATHEMATICAL TAILED JEEM" -> 126530
      [] name = "ARABIC MATHEMATICAL TAILED HAH" -> 126535
      [] name = "ARABIC MATHEMATICAL TAILED YEH" -> 126537
      [] name = "ARABIC MATHEMATICAL TAILED LAM" -> 126539
      [] name = "ARABIC MATHEMATICAL TAILED NOON" -> 126541
      [] name = "ARABIC MATHEMATICAL TAILED SEEN" -> 126542
      [] name = "ARABIC MATHEMATICAL TAILED AIN" -> 126543
      [] name = "ARABIC MATHEMATICAL TAILED SAD" -> 126545
      [] name = "ARABIC MATHEMATICAL TAILED QAF" -> 126546
      [] name = "ARABIC MATHEMATICAL TAILED SHEEN" -> 126548
      [] name = "ARABIC MATHEMATICAL TAILED KHAH" -> 126551
      [] name = "ARABIC MATHEMATICAL TAILED DAD" -> 126553
      [] name = "ARABIC MATHEMATICAL TAILED GHAIN" -> 126555
      [] name = "ARABIC MATHEMATICAL TAILED DOTLESS NOON" -> 126557
      [] name = "ARABIC MATHEMATICAL TAILED DOTLESS QAF" -> 126559
      [] name = "ARABIC MATHEMATICAL STRETCHED BEH" -> 126561
      [] name = "ARABIC MATHEMATICAL STRETCHED JEEM" -> 126562
      [] name = "ARABIC MATHEMATICAL STRETCHED HEH" -> 126564
      [] name = "ARABIC MATHEMATICAL STRETCHED HAH" -> 126567
      [] name = "ARABIC MATHEMATICAL STRETCHED TAH" -> 126568
      [] name = "ARABIC MATHEMATICAL STRETCHED YEH" -> 126569
      [] name = "ARABIC MATHEMATICAL STRETCHED KAF" -> 126570
      [] name = "ARABIC MATHEMATICAL STRETCHED MEEM" -> 126572
      [] name = "ARABIC MATHEMATICAL STRETCHED NOON" -> 126573
      [] name = "ARABIC MATHEMATICAL STRETCHED SEEN" -> 126574
      [] name = "ARABIC MATHEMATICAL STRETCHED AIN" -> 126575
      [] name = "ARABIC MATHEMATICAL STRETCHED FEH" -> 126576
      [] name = "ARABIC MATHEMATICAL STRETCHED SAD" -> 126577
      [] name = "ARABIC MATHEMATICAL STRETCHED QAF" -> 126578
      [] name = "ARABIC MATHEMATICAL STRETCHED SHEEN" -> 126580
      [] name = "ARABIC MATHEMATICAL STRETCHED TEH" -> 126581
      [] name = "ARABIC MATHEMATICAL STRETCHED THEH" -> 126582
      [] name = "ARABIC MATHEMATICAL STRETCHED KHAH" -> 126583
      [] name = "ARABIC MATHEMATICAL STRETCHED DAD" -> 126585
      [] name = "ARABIC MATHEMATICAL STRETCHED ZAH" -> 126586
      [] name = "ARABIC MATHEMATICAL STRETCHED GHAIN" -> 126587
      [] name = "ARABIC MATHEMATICAL STRETCHED DOTLESS BEH" -> 126588
      [] name = "ARABIC MATHEMATICAL STRETCHED DOTLESS FEH" -> 126590
      [] name = "ARABIC MATHEMATICAL LOOPED ALEF" -> 126592
      [] name = "ARABIC MATHEMATICAL LOOPED BEH" -> 126593
      [] name = "ARABIC MATHEMATICAL LOOPED JEEM" -> 126594
      [] name = "ARABIC MATHEMATICAL LOOPED DAL" -> 126595
      [] name = "ARABIC MATHEMATICAL LOOPED HEH" -> 126596
      [] name = "ARABIC MATHEMATICAL LOOPED WAW" -> 126597
      [] name = "ARABIC MATHEMATICAL LOOPED ZAIN" -> 126598
      [] name = "ARABIC MATHEMATICAL LOOPED HAH" -> 126599
      [] name = "ARABIC MATHEMATICAL LOOPED TAH" -> 126600
      [] name = "ARABIC MATHEMATICAL LOOPED YEH" -> 126601
      [] name = "ARABIC MATHEMATICAL LOOPED LAM" -> 126603
      [] name = "ARABIC MATHEMATICAL LOOPED MEEM" -> 126604
      [] name = "ARABIC MATHEMATICAL LOOPED NOON" -> 126605
      [] name = "ARABIC MATHEMATICAL LOOPED SEEN" -> 126606
      [] name = "ARABIC MATHEMATICAL LOOPED AIN" -> 126607
      [] name = "ARABIC MATHEMATICAL LOOPED FEH" -> 126608
      [] name = "ARABIC MATHEMATICAL LOOPED SAD" -> 126609
      [] name = "ARABIC MATHEMATICAL LOOPED QAF" -> 126610
      [] name = "ARABIC MATHEMATICAL LOOPED REH" -> 126611
      [] name = "ARABIC MATHEMATICAL LOOPED SHEEN" -> 126612
      [] name = "ARABIC MATHEMATICAL LOOPED TEH" -> 126613
      [] name = "ARABIC MATHEMATICAL LOOPED THEH" -> 126614
      [] name = "ARABIC MATHEMATICAL LOOPED KHAH" -> 126615
      [] name = "ARABIC MATHEMATICAL LOOPED THAL" -> 126616
      [] name = "ARABIC MATHEMATICAL LOOPED DAD" -> 126617
      [] name = "ARABIC MATHEMATICAL LOOPED ZAH" -> 126618
      [] name = "ARABIC MATHEMATICAL LOOPED GHAIN" -> 126619
      [] name = "ARABIC MATHEMATICAL DOUBLE-STRUCK BEH" -> 126625
      [] name = "ARABIC MATHEMATICAL DOUBLE-STRUCK JEEM" -> 126626
      [] name = "ARABIC MATHEMATICAL DOUBLE-STRUCK DAL" -> 126627
      [] name = "ARABIC MATHEMATICAL DOUBLE-STRUCK WAW" -> 126629
      [] name = "ARABIC MATHEMATICAL DOUBLE-STRUCK ZAIN" -> 126630
      [] name = "ARABIC MATHEMATICAL DOUBLE-STRUCK HAH" -> 126631
      [] name = "ARABIC MATHEMATICAL DOUBLE-STRUCK TAH" -> 126632
      [] name = "ARABIC MATHEMATICAL DOUBLE-STRUCK YEH" -> 126633
      [] name = "ARABIC MATHEMATICAL DOUBLE-STRUCK LAM" -> 126635
      [] name = "ARABIC MATHEMATICAL DOUBLE-STRUCK MEEM" -> 126636
      [] name = "ARABIC MATHEMATICAL DOUBLE-STRUCK NOON" -> 126637
      [] name = "ARABIC MATHEMATICAL DOUBLE-STRUCK SEEN" -> 126638
      [] name = "ARABIC MATHEMATICAL DOUBLE-STRUCK AIN" -> 126639
      [] name = "ARABIC MATHEMATICAL DOUBLE-STRUCK FEH" -> 126640
      [] name = "ARABIC MATHEMATICAL DOUBLE-STRUCK SAD" -> 126641
      [] name = "ARABIC MATHEMATICAL DOUBLE-STRUCK QAF" -> 126642
      [] name = "ARABIC MATHEMATICAL DOUBLE-STRUCK REH" -> 126643
      [] name = "ARABIC MATHEMATICAL DOUBLE-STRUCK SHEEN" -> 126644
      [] name = "ARABIC MATHEMATICAL DOUBLE-STRUCK TEH" -> 126645
      [] name = "ARABIC MATHEMATICAL DOUBLE-STRUCK THEH" -> 126646
      [] name = "ARABIC MATHEMATICAL DOUBLE-STRUCK KHAH" -> 126647
      [] name = "ARABIC MATHEMATICAL DOUBLE-STRUCK THAL" -> 126648
      [] name = "ARABIC MATHEMATICAL DOUBLE-STRUCK DAD" -> 126649
      [] name = "ARABIC MATHEMATICAL DOUBLE-STRUCK ZAH" -> 126650
      [] name = "ARABIC MATHEMATICAL DOUBLE-STRUCK GHAIN" -> 126651
      [] name = "ARABIC MATHEMATICAL OPERATOR MEEM WITH HAH WITH TATWEEL" -> 126704
      [] name = "ARABIC MATHEMATICAL OPERATOR HAH WITH DAL" -> 126705
      [] name = "MAHJONG TILE EAST WIND" -> 126976
      [] name = "MAHJONG TILE SOUTH WIND" -> 126977
      [] name = "MAHJONG TILE WEST WIND" -> 126978
      [] name = "MAHJONG TILE NORTH WIND" -> 126979
      [] name = "MAHJONG TILE RED DRAGON" -> 126980
      [] name = "MAHJONG TILE GREEN DRAGON" -> 126981
      [] name = "MAHJONG TILE WHITE DRAGON" -> 126982
      [] name = "MAHJONG TILE ONE OF CHARACTERS" -> 126983
      [] name = "MAHJONG TILE TWO OF CHARACTERS" -> 126984
      [] name = "MAHJONG TILE THREE OF CHARACTERS" -> 126985
      [] name = "MAHJONG TILE FOUR OF CHARACTERS" -> 126986
      [] name = "MAHJONG TILE FIVE OF CHARACTERS" -> 126987
      [] name = "MAHJONG TILE SIX OF CHARACTERS" -> 126988
      [] name = "MAHJONG TILE SEVEN OF CHARACTERS" -> 126989
      [] name = "MAHJONG TILE EIGHT OF CHARACTERS" -> 126990
      [] name = "MAHJONG TILE NINE OF CHARACTERS" -> 126991
      [] name = "MAHJONG TILE ONE OF BAMBOOS" -> 126992
      [] name = "MAHJONG TILE TWO OF BAMBOOS" -> 126993
      [] name = "MAHJONG TILE THREE OF BAMBOOS" -> 126994
      [] name = "MAHJONG TILE FOUR OF BAMBOOS" -> 126995
      [] name = "MAHJONG TILE FIVE OF BAMBOOS" -> 126996
      [] name = "MAHJONG TILE SIX OF BAMBOOS" -> 126997
      [] name = "MAHJONG TILE SEVEN OF BAMBOOS" -> 126998
      [] name = "MAHJONG TILE EIGHT OF BAMBOOS" -> 126999
      [] name = "MAHJONG TILE NINE OF BAMBOOS" -> 127000
      [] name = "MAHJONG TILE ONE OF CIRCLES" -> 127001
      [] name = "MAHJONG TILE TWO OF CIRCLES" -> 127002
      [] name = "MAHJONG TILE THREE OF CIRCLES" -> 127003
      [] name = "MAHJONG TILE FOUR OF CIRCLES" -> 127004
      [] name = "MAHJONG TILE FIVE OF CIRCLES" -> 127005
      [] name = "MAHJONG TILE SIX OF CIRCLES" -> 127006
      [] name = "MAHJONG TILE SEVEN OF CIRCLES" -> 127007
      [] name = "MAHJONG TILE EIGHT OF CIRCLES" -> 127008
      [] name = "MAHJONG TILE NINE OF CIRCLES" -> 127009
      [] name = "MAHJONG TILE PLUM" -> 127010
      [] name = "MAHJONG TILE ORCHID" -> 127011
      [] name = "MAHJONG TILE BAMBOO" -> 127012
      [] name = "MAHJONG TILE CHRYSANTHEMUM" -> 127013
      [] name = "MAHJONG TILE SPRING" -> 127014
      [] name = "MAHJONG TILE SUMMER" -> 127015
      [] name = "MAHJONG TILE AUTUMN" -> 127016
      [] name = "MAHJONG TILE WINTER" -> 127017
      [] name = "MAHJONG TILE JOKER" -> 127018
      [] name = "MAHJONG TILE BACK" -> 127019
      [] name = "DOMINO TILE HORIZONTAL BACK" -> 127024
      [] name = "DOMINO TILE HORIZONTAL-00-00" -> 127025
      [] name = "DOMINO TILE HORIZONTAL-00-01" -> 127026
      [] name = "DOMINO TILE HORIZONTAL-00-02" -> 127027
      [] name = "DOMINO TILE HORIZONTAL-00-03" -> 127028
      [] name = "DOMINO TILE HORIZONTAL-00-04" -> 127029
      [] name = "DOMINO TILE HORIZONTAL-00-05" -> 127030
      [] name = "DOMINO TILE HORIZONTAL-00-06" -> 127031
      [] name = "DOMINO TILE HORIZONTAL-01-00" -> 127032
      [] name = "DOMINO TILE HORIZONTAL-01-01" -> 127033
      [] name = "DOMINO TILE HORIZONTAL-01-02" -> 127034
      [] name = "DOMINO TILE HORIZONTAL-01-03" -> 127035
      [] name = "DOMINO TILE HORIZONTAL-01-04" -> 127036
      [] name = "DOMINO TILE HORIZONTAL-01-05" -> 127037
      [] name = "DOMINO TILE HORIZONTAL-01-06" -> 127038
      [] name = "DOMINO TILE HORIZONTAL-02-00" -> 127039
      [] name = "DOMINO TILE HORIZONTAL-02-01" -> 127040
      [] name = "DOMINO TILE HORIZONTAL-02-02" -> 127041
      [] name = "DOMINO TILE HORIZONTAL-02-03" -> 127042
      [] name = "DOMINO TILE HORIZONTAL-02-04" -> 127043
      [] name = "DOMINO TILE HORIZONTAL-02-05" -> 127044
      [] name = "DOMINO TILE HORIZONTAL-02-06" -> 127045
      [] name = "DOMINO TILE HORIZONTAL-03-00" -> 127046
      [] name = "DOMINO TILE HORIZONTAL-03-01" -> 127047
      [] name = "DOMINO TILE HORIZONTAL-03-02" -> 127048
      [] name = "DOMINO TILE HORIZONTAL-03-03" -> 127049
      [] name = "DOMINO TILE HORIZONTAL-03-04" -> 127050
      [] name = "DOMINO TILE HORIZONTAL-03-05" -> 127051
      [] name = "DOMINO TILE HORIZONTAL-03-06" -> 127052
      [] name = "DOMINO TILE HORIZONTAL-04-00" -> 127053
      [] name = "DOMINO TILE HORIZONTAL-04-01" -> 127054
      [] name = "DOMINO TILE HORIZONTAL-04-02" -> 127055
      [] name = "DOMINO TILE HORIZONTAL-04-03" -> 127056
      [] name = "DOMINO TILE HORIZONTAL-04-04" -> 127057
      [] name = "DOMINO TILE HORIZONTAL-04-05" -> 127058
      [] name = "DOMINO TILE HORIZONTAL-04-06" -> 127059
      [] name = "DOMINO TILE HORIZONTAL-05-00" -> 127060
      [] name = "DOMINO TILE HORIZONTAL-05-01" -> 127061
      [] name = "DOMINO TILE HORIZONTAL-05-02" -> 127062
      [] name = "DOMINO TILE HORIZONTAL-05-03" -> 127063
      [] name = "DOMINO TILE HORIZONTAL-05-04" -> 127064
      [] name = "DOMINO TILE HORIZONTAL-05-05" -> 127065
      [] name = "DOMINO TILE HORIZONTAL-05-06" -> 127066
      [] name = "DOMINO TILE HORIZONTAL-06-00" -> 127067
      [] name = "DOMINO TILE HORIZONTAL-06-01" -> 127068
      [] name = "DOMINO TILE HORIZONTAL-06-02" -> 127069
      [] name = "DOMINO TILE HORIZONTAL-06-03" -> 127070
      [] name = "DOMINO TILE HORIZONTAL-06-04" -> 127071
      [] name = "DOMINO TILE HORIZONTAL-06-05" -> 127072
      [] name = "DOMINO TILE HORIZONTAL-06-06" -> 127073
      [] name = "DOMINO TILE VERTICAL BACK" -> 127074
      [] name = "DOMINO TILE VERTICAL-00-00" -> 127075
      [] name = "DOMINO TILE VERTICAL-00-01" -> 127076
      [] name = "DOMINO TILE VERTICAL-00-02" -> 127077
      [] name = "DOMINO TILE VERTICAL-00-03" -> 127078
      [] name = "DOMINO TILE VERTICAL-00-04" -> 127079
      [] name = "DOMINO TILE VERTICAL-00-05" -> 127080
      [] name = "DOMINO TILE VERTICAL-00-06" -> 127081
      [] name = "DOMINO TILE VERTICAL-01-00" -> 127082
      [] name = "DOMINO TILE VERTICAL-01-01" -> 127083
      [] name = "DOMINO TILE VERTICAL-01-02" -> 127084
      [] name = "DOMINO TILE VERTICAL-01-03" -> 127085
      [] name = "DOMINO TILE VERTICAL-01-04" -> 127086
      [] name = "DOMINO TILE VERTICAL-01-05" -> 127087
      [] name = "DOMINO TILE VERTICAL-01-06" -> 127088
      [] name = "DOMINO TILE VERTICAL-02-00" -> 127089
      [] name = "DOMINO TILE VERTICAL-02-01" -> 127090
      [] name = "DOMINO TILE VERTICAL-02-02" -> 127091
      [] name = "DOMINO TILE VERTICAL-02-03" -> 127092
      [] name = "DOMINO TILE VERTICAL-02-04" -> 127093
      [] name = "DOMINO TILE VERTICAL-02-05" -> 127094
      [] name = "DOMINO TILE VERTICAL-02-06" -> 127095
      [] name = "DOMINO TILE VERTICAL-03-00" -> 127096
      [] name = "DOMINO TILE VERTICAL-03-01" -> 127097
      [] name = "DOMINO TILE VERTICAL-03-02" -> 127098
      [] name = "DOMINO TILE VERTICAL-03-03" -> 127099
      [] name = "DOMINO TILE VERTICAL-03-04" -> 127100
      [] name = "DOMINO TILE VERTICAL-03-05" -> 127101
      [] name = "DOMINO TILE VERTICAL-03-06" -> 127102
      [] name = "DOMINO TILE VERTICAL-04-00" -> 127103
      [] name = "DOMINO TILE VERTICAL-04-01" -> 127104
      [] name = "DOMINO TILE VERTICAL-04-02" -> 127105
      [] name = "DOMINO TILE VERTICAL-04-03" -> 127106
      [] name = "DOMINO TILE VERTICAL-04-04" -> 127107
      [] name = "DOMINO TILE VERTICAL-04-05" -> 127108
      [] name = "DOMINO TILE VERTICAL-04-06" -> 127109
      [] name = "DOMINO TILE VERTICAL-05-00" -> 127110
      [] name = "DOMINO TILE VERTICAL-05-01" -> 127111
      [] name = "DOMINO TILE VERTICAL-05-02" -> 127112
      [] name = "DOMINO TILE VERTICAL-05-03" -> 127113
      [] name = "DOMINO TILE VERTICAL-05-04" -> 127114
      [] name = "DOMINO TILE VERTICAL-05-05" -> 127115
      [] name = "DOMINO TILE VERTICAL-05-06" -> 127116
      [] name = "DOMINO TILE VERTICAL-06-00" -> 127117
      [] name = "DOMINO TILE VERTICAL-06-01" -> 127118
      [] name = "DOMINO TILE VERTICAL-06-02" -> 127119
      [] name = "DOMINO TILE VERTICAL-06-03" -> 127120
      [] name = "DOMINO TILE VERTICAL-06-04" -> 127121
      [] name = "DOMINO TILE VERTICAL-06-05" -> 127122
      [] name = "DOMINO TILE VERTICAL-06-06" -> 127123
      [] name = "PLAYING CARD BACK" -> 127136
      [] name = "PLAYING CARD ACE OF SPADES" -> 127137
      [] name = "PLAYING CARD TWO OF SPADES" -> 127138
      [] name = "PLAYING CARD THREE OF SPADES" -> 127139
      [] name = "PLAYING CARD FOUR OF SPADES" -> 127140
      [] name = "PLAYING CARD FIVE OF SPADES" -> 127141
      [] name = "PLAYING CARD SIX OF SPADES" -> 127142
      [] name = "PLAYING CARD SEVEN OF SPADES" -> 127143
      [] name = "PLAYING CARD EIGHT OF SPADES" -> 127144
      [] name = "PLAYING CARD NINE OF SPADES" -> 127145
      [] name = "PLAYING CARD TEN OF SPADES" -> 127146
      [] name = "PLAYING CARD JACK OF SPADES" -> 127147
      [] name = "PLAYING CARD KNIGHT OF SPADES" -> 127148
      [] name = "PLAYING CARD QUEEN OF SPADES" -> 127149
      [] name = "PLAYING CARD KING OF SPADES" -> 127150
      [] name = "PLAYING CARD ACE OF HEARTS" -> 127153
      [] name = "PLAYING CARD TWO OF HEARTS" -> 127154
      [] name = "PLAYING CARD THREE OF HEARTS" -> 127155
      [] name = "PLAYING CARD FOUR OF HEARTS" -> 127156
      [] name = "PLAYING CARD FIVE OF HEARTS" -> 127157
      [] name = "PLAYING CARD SIX OF HEARTS" -> 127158
      [] name = "PLAYING CARD SEVEN OF HEARTS" -> 127159
      [] name = "PLAYING CARD EIGHT OF HEARTS" -> 127160
      [] name = "PLAYING CARD NINE OF HEARTS" -> 127161
      [] name = "PLAYING CARD TEN OF HEARTS" -> 127162
      [] name = "PLAYING CARD JACK OF HEARTS" -> 127163
      [] name = "PLAYING CARD KNIGHT OF HEARTS" -> 127164
      [] name = "PLAYING CARD QUEEN OF HEARTS" -> 127165
      [] name = "PLAYING CARD KING OF HEARTS" -> 127166
      [] name = "PLAYING CARD RED JOKER" -> 127167
      [] name = "PLAYING CARD ACE OF DIAMONDS" -> 127169
      [] name = "PLAYING CARD TWO OF DIAMONDS" -> 127170
      [] name = "PLAYING CARD THREE OF DIAMONDS" -> 127171
      [] name = "PLAYING CARD FOUR OF DIAMONDS" -> 127172
      [] name = "PLAYING CARD FIVE OF DIAMONDS" -> 127173
      [] name = "PLAYING CARD SIX OF DIAMONDS" -> 127174
      [] name = "PLAYING CARD SEVEN OF DIAMONDS" -> 127175
      [] name = "PLAYING CARD EIGHT OF DIAMONDS" -> 127176
      [] name = "PLAYING CARD NINE OF DIAMONDS" -> 127177
      [] name = "PLAYING CARD TEN OF DIAMONDS" -> 127178
      [] name = "PLAYING CARD JACK OF DIAMONDS" -> 127179
      [] name = "PLAYING CARD KNIGHT OF DIAMONDS" -> 127180
      [] name = "PLAYING CARD QUEEN OF DIAMONDS" -> 127181
      [] name = "PLAYING CARD KING OF DIAMONDS" -> 127182
      [] name = "PLAYING CARD BLACK JOKER" -> 127183
      [] name = "PLAYING CARD ACE OF CLUBS" -> 127185
      [] name = "PLAYING CARD TWO OF CLUBS" -> 127186
      [] name = "PLAYING CARD THREE OF CLUBS" -> 127187
      [] name = "PLAYING CARD FOUR OF CLUBS" -> 127188
      [] name = "PLAYING CARD FIVE OF CLUBS" -> 127189
      [] name = "PLAYING CARD SIX OF CLUBS" -> 127190
      [] name = "PLAYING CARD SEVEN OF CLUBS" -> 127191
      [] name = "PLAYING CARD EIGHT OF CLUBS" -> 127192
      [] name = "PLAYING CARD NINE OF CLUBS" -> 127193
      [] name = "PLAYING CARD TEN OF CLUBS" -> 127194
      [] name = "PLAYING CARD JACK OF CLUBS" -> 127195
      [] name = "PLAYING CARD KNIGHT OF CLUBS" -> 127196
      [] name = "PLAYING CARD QUEEN OF CLUBS" -> 127197
      [] name = "PLAYING CARD KING OF CLUBS" -> 127198
      [] name = "PLAYING CARD WHITE JOKER" -> 127199
      [] name = "PLAYING CARD FOOL" -> 127200
      [] name = "PLAYING CARD TRUMP-1" -> 127201
      [] name = "PLAYING CARD TRUMP-2" -> 127202
      [] name = "PLAYING CARD TRUMP-3" -> 127203
      [] name = "PLAYING CARD TRUMP-4" -> 127204
      [] name = "PLAYING CARD TRUMP-5" -> 127205
      [] name = "PLAYING CARD TRUMP-6" -> 127206
      [] name = "PLAYING CARD TRUMP-7" -> 127207
      [] name = "PLAYING CARD TRUMP-8" -> 127208
      [] name = "PLAYING CARD TRUMP-9" -> 127209
      [] name = "PLAYING CARD TRUMP-10" -> 127210
      [] name = "PLAYING CARD TRUMP-11" -> 127211
      [] name = "PLAYING CARD TRUMP-12" -> 127212
      [] name = "PLAYING CARD TRUMP-13" -> 127213
      [] name = "PLAYING CARD TRUMP-14" -> 127214
      [] name = "PLAYING CARD TRUMP-15" -> 127215
      [] name = "PLAYING CARD TRUMP-16" -> 127216
      [] name = "PLAYING CARD TRUMP-17" -> 127217
      [] name = "PLAYING CARD TRUMP-18" -> 127218
      [] name = "PLAYING CARD TRUMP-19" -> 127219
      [] name = "PLAYING CARD TRUMP-20" -> 127220
      [] name = "PLAYING CARD TRUMP-21" -> 127221
      [] name = "DIGIT ZERO FULL STOP" -> 127232
      [] name = "DIGIT ZERO COMMA" -> 127233
      [] name = "DIGIT ONE COMMA" -> 127234
      [] name = "DIGIT TWO COMMA" -> 127235
      [] name = "DIGIT THREE COMMA" -> 127236
      [] name = "DIGIT FOUR COMMA" -> 127237
      [] name = "DIGIT FIVE COMMA" -> 127238
      [] name = "DIGIT SIX COMMA" -> 127239
      [] name = "DIGIT SEVEN COMMA" -> 127240
      [] name = "DIGIT EIGHT COMMA" -> 127241
      [] name = "DIGIT NINE COMMA" -> 127242
      [] name = "DINGBAT CIRCLED SANS-SERIF DIGIT ZERO" -> 127243
      [] name = "DINGBAT NEGATIVE CIRCLED SANS-SERIF DIGIT ZERO" -> 127244
      [] name = "CIRCLED ZERO WITH SLASH" -> 127245
      [] name = "CIRCLED ANTICLOCKWISE ARROW" -> 127246
      [] name = "CIRCLED DOLLAR SIGN WITH OVERLAID BACKSLASH" -> 127247
      [] name = "PARENTHESIZED LATIN CAPITAL LETTER A" -> 127248
      [] name = "PARENTHESIZED LATIN CAPITAL LETTER B" -> 127249
      [] name = "PARENTHESIZED LATIN CAPITAL LETTER C" -> 127250
      [] name = "PARENTHESIZED LATIN CAPITAL LETTER D" -> 127251
      [] name = "PARENTHESIZED LATIN CAPITAL LETTER E" -> 127252
      [] name = "PARENTHESIZED LATIN CAPITAL LETTER F" -> 127253
      [] name = "PARENTHESIZED LATIN CAPITAL LETTER G" -> 127254
      [] name = "PARENTHESIZED LATIN CAPITAL LETTER H" -> 127255
      [] name = "PARENTHESIZED LATIN CAPITAL LETTER I" -> 127256
      [] name = "PARENTHESIZED LATIN CAPITAL LETTER J" -> 127257
      [] name = "PARENTHESIZED LATIN CAPITAL LETTER K" -> 127258
      [] name = "PARENTHESIZED LATIN CAPITAL LETTER L" -> 127259
      [] name = "PARENTHESIZED LATIN CAPITAL LETTER M" -> 127260
      [] name = "PARENTHESIZED LATIN CAPITAL LETTER N" -> 127261
      [] name = "PARENTHESIZED LATIN CAPITAL LETTER O" -> 127262
      [] name = "PARENTHESIZED LATIN CAPITAL LETTER P" -> 127263
      [] name = "PARENTHESIZED LATIN CAPITAL LETTER Q" -> 127264
      [] name = "PARENTHESIZED LATIN CAPITAL LETTER R" -> 127265
      [] name = "PARENTHESIZED LATIN CAPITAL LETTER S" -> 127266
      [] name = "PARENTHESIZED LATIN CAPITAL LETTER T" -> 127267
      [] name = "PARENTHESIZED LATIN CAPITAL LETTER U" -> 127268
      [] name = "PARENTHESIZED LATIN CAPITAL LETTER V" -> 127269
      [] name = "PARENTHESIZED LATIN CAPITAL LETTER W" -> 127270
      [] name = "PARENTHESIZED LATIN CAPITAL LETTER X" -> 127271
      [] name = "PARENTHESIZED LATIN CAPITAL LETTER Y" -> 127272
      [] name = "PARENTHESIZED LATIN CAPITAL LETTER Z" -> 127273
      [] name = "TORTOISE SHELL BRACKETED LATIN CAPITAL LETTER S" -> 127274
      [] name = "CIRCLED ITALIC LATIN CAPITAL LETTER C" -> 127275
      [] name = "CIRCLED ITALIC LATIN CAPITAL LETTER R" -> 127276
      [] name = "CIRCLED CD" -> 127277
      [] name = "CIRCLED WZ" -> 127278
      [] name = "COPYLEFT SYMBOL" -> 127279
      [] name = "SQUARED LATIN CAPITAL LETTER A" -> 127280
      [] name = "SQUARED LATIN CAPITAL LETTER B" -> 127281
      [] name = "SQUARED LATIN CAPITAL LETTER C" -> 127282
      [] name = "SQUARED LATIN CAPITAL LETTER D" -> 127283
      [] name = "SQUARED LATIN CAPITAL LETTER E" -> 127284
      [] name = "SQUARED LATIN CAPITAL LETTER F" -> 127285
      [] name = "SQUARED LATIN CAPITAL LETTER G" -> 127286
      [] name = "SQUARED LATIN CAPITAL LETTER H" -> 127287
      [] name = "SQUARED LATIN CAPITAL LETTER I" -> 127288
      [] name = "SQUARED LATIN CAPITAL LETTER J" -> 127289
      [] name = "SQUARED LATIN CAPITAL LETTER K" -> 127290
      [] name = "SQUARED LATIN CAPITAL LETTER L" -> 127291
      [] name = "SQUARED LATIN CAPITAL LETTER M" -> 127292
      [] name = "SQUARED LATIN CAPITAL LETTER N" -> 127293
      [] name = "SQUARED LATIN CAPITAL LETTER O" -> 127294
      [] name = "SQUARED LATIN CAPITAL LETTER P" -> 127295
      [] name = "SQUARED LATIN CAPITAL LETTER Q" -> 127296
      [] name = "SQUARED LATIN CAPITAL LETTER R" -> 127297
      [] name = "SQUARED LATIN CAPITAL LETTER S" -> 127298
      [] name = "SQUARED LATIN CAPITAL LETTER T" -> 127299
      [] name = "SQUARED LATIN CAPITAL LETTER U" -> 127300
      [] name = "SQUARED LATIN CAPITAL LETTER V" -> 127301
      [] name = "SQUARED LATIN CAPITAL LETTER W" -> 127302
      [] name = "SQUARED LATIN CAPITAL LETTER X" -> 127303
      [] name = "SQUARED LATIN CAPITAL LETTER Y" -> 127304
      [] name = "SQUARED LATIN CAPITAL LETTER Z" -> 127305
      [] name = "SQUARED HV" -> 127306
      [] name = "SQUARED MV" -> 127307
      [] name = "SQUARED SD" -> 127308
      [] name = "SQUARED SS" -> 127309
      [] name = "SQUARED PPV" -> 127310
      [] name = "SQUARED WC" -> 127311
      [] name = "NEGATIVE CIRCLED LATIN CAPITAL LETTER A" -> 127312
      [] name = "NEGATIVE CIRCLED LATIN CAPITAL LETTER B" -> 127313
      [] name = "NEGATIVE CIRCLED LATIN CAPITAL LETTER C" -> 127314
      [] name = "NEGATIVE CIRCLED LATIN CAPITAL LETTER D" -> 127315
      [] name = "NEGATIVE CIRCLED LATIN CAPITAL LETTER E" -> 127316
      [] name = "NEGATIVE CIRCLED LATIN CAPITAL LETTER F" -> 127317
      [] name = "NEGATIVE CIRCLED LATIN CAPITAL LETTER G" -> 127318
      [] name = "NEGATIVE CIRCLED LATIN CAPITAL LETTER H" -> 127319
      [] name = "NEGATIVE CIRCLED LATIN CAPITAL LETTER I" -> 127320
      [] name = "NEGATIVE CIRCLED LATIN CAPITAL LETTER J" -> 127321
      [] name = "NEGATIVE CIRCLED LATIN CAPITAL LETTER K" -> 127322
      [] name = "NEGATIVE CIRCLED LATIN CAPITAL LETTER L" -> 127323
      [] name = "NEGATIVE CIRCLED LATIN CAPITAL LETTER M" -> 127324
      [] name = "NEGATIVE CIRCLED LATIN CAPITAL LETTER N" -> 127325
      [] name = "NEGATIVE CIRCLED LATIN CAPITAL LETTER O" -> 127326
      [] name = "NEGATIVE CIRCLED LATIN CAPITAL LETTER P" -> 127327
      [] name = "NEGATIVE CIRCLED LATIN CAPITAL LETTER Q" -> 127328
      [] name = "NEGATIVE CIRCLED LATIN CAPITAL LETTER R" -> 127329
      [] name = "NEGATIVE CIRCLED LATIN CAPITAL LETTER S" -> 127330
      [] name = "NEGATIVE CIRCLED LATIN CAPITAL LETTER T" -> 127331
      [] name = "NEGATIVE CIRCLED LATIN CAPITAL LETTER U" -> 127332
      [] name = "NEGATIVE CIRCLED LATIN CAPITAL LETTER V" -> 127333
      [] name = "NEGATIVE CIRCLED LATIN CAPITAL LETTER W" -> 127334
      [] name = "NEGATIVE CIRCLED LATIN CAPITAL LETTER X" -> 127335
      [] name = "NEGATIVE CIRCLED LATIN CAPITAL LETTER Y" -> 127336
      [] name = "NEGATIVE CIRCLED LATIN CAPITAL LETTER Z" -> 127337
      [] name = "RAISED MC SIGN" -> 127338
      [] name = "RAISED MD SIGN" -> 127339
      [] name = "RAISED MR SIGN" -> 127340
      [] name = "CIRCLED CC" -> 127341
      [] name = "CIRCLED C WITH OVERLAID BACKSLASH" -> 127342
      [] name = "CIRCLED HUMAN FIGURE" -> 127343
      [] name = "NEGATIVE SQUARED LATIN CAPITAL LETTER A" -> 127344
      [] name = "NEGATIVE SQUARED LATIN CAPITAL LETTER B" -> 127345
      [] name = "NEGATIVE SQUARED LATIN CAPITAL LETTER C" -> 127346
      [] name = "NEGATIVE SQUARED LATIN CAPITAL LETTER D" -> 127347
      [] name = "NEGATIVE SQUARED LATIN CAPITAL LETTER E" -> 127348
      [] name = "NEGATIVE SQUARED LATIN CAPITAL LETTER F" -> 127349
      [] name = "NEGATIVE SQUARED LATIN CAPITAL LETTER G" -> 127350
      [] name = "NEGATIVE SQUARED LATIN CAPITAL LETTER H" -> 127351
      [] name = "NEGATIVE SQUARED LATIN CAPITAL LETTER I" -> 127352
      [] name = "NEGATIVE SQUARED LATIN CAPITAL LETTER J" -> 127353
      [] name = "NEGATIVE SQUARED LATIN CAPITAL LETTER K" -> 127354
      [] name = "NEGATIVE SQUARED LATIN CAPITAL LETTER L" -> 127355
      [] name = "NEGATIVE SQUARED LATIN CAPITAL LETTER M" -> 127356
      [] name = "NEGATIVE SQUARED LATIN CAPITAL LETTER N" -> 127357
      [] name = "NEGATIVE SQUARED LATIN CAPITAL LETTER O" -> 127358
      [] name = "NEGATIVE SQUARED LATIN CAPITAL LETTER P" -> 127359
      [] name = "NEGATIVE SQUARED LATIN CAPITAL LETTER Q" -> 127360
      [] name = "NEGATIVE SQUARED LATIN CAPITAL LETTER R" -> 127361
      [] name = "NEGATIVE SQUARED LATIN CAPITAL LETTER S" -> 127362
      [] name = "NEGATIVE SQUARED LATIN CAPITAL LETTER T" -> 127363
      [] name = "NEGATIVE SQUARED LATIN CAPITAL LETTER U" -> 127364
      [] name = "NEGATIVE SQUARED LATIN CAPITAL LETTER V" -> 127365
      [] name = "NEGATIVE SQUARED LATIN CAPITAL LETTER W" -> 127366
      [] name = "NEGATIVE SQUARED LATIN CAPITAL LETTER X" -> 127367
      [] name = "NEGATIVE SQUARED LATIN CAPITAL LETTER Y" -> 127368
      [] name = "NEGATIVE SQUARED LATIN CAPITAL LETTER Z" -> 127369
      [] name = "CROSSED NEGATIVE SQUARED LATIN CAPITAL LETTER P" -> 127370
      [] name = "NEGATIVE SQUARED IC" -> 127371
      [] name = "NEGATIVE SQUARED PA" -> 127372
      [] name = "NEGATIVE SQUARED SA" -> 127373
      [] name = "NEGATIVE SQUARED AB" -> 127374
      [] name = "NEGATIVE SQUARED WC" -> 127375
      [] name = "SQUARE DJ" -> 127376
      [] name = "SQUARED CL" -> 127377
      [] name = "SQUARED COOL" -> 127378
      [] name = "SQUARED FREE" -> 127379
      [] name = "SQUARED ID" -> 127380
      [] name = "SQUARED NEW" -> 127381
      [] name = "SQUARED NG" -> 127382
      [] name = "SQUARED OK" -> 127383
      [] name = "SQUARED SOS" -> 127384
      [] name = "SQUARED UP WITH EXCLAMATION MARK" -> 127385
      [] name = "SQUARED VS" -> 127386
      [] name = "SQUARED THREE D" -> 127387
      [] name = "SQUARED SECOND SCREEN" -> 127388
      [] name = "SQUARED TWO K" -> 127389
      [] name = "SQUARED FOUR K" -> 127390
      [] name = "SQUARED EIGHT K" -> 127391
      [] name = "SQUARED FIVE POINT ONE" -> 127392
      [] name = "SQUARED SEVEN POINT ONE" -> 127393
      [] name = "SQUARED TWENTY-TWO POINT TWO" -> 127394
      [] name = "SQUARED SIXTY P" -> 127395
      [] name = "SQUARED ONE HUNDRED TWENTY P" -> 127396
      [] name = "SQUARED LATIN SMALL LETTER D" -> 127397
      [] name = "SQUARED HC" -> 127398
      [] name = "SQUARED HDR" -> 127399
      [] name = "SQUARED HI-RES" -> 127400
      [] name = "SQUARED LOSSLESS" -> 127401
      [] name = "SQUARED SHV" -> 127402
      [] name = "SQUARED UHD" -> 127403
      [] name = "SQUARED VOD" -> 127404
      [] name = "MASK WORK SYMBOL" -> 127405
      [] name = "REGIONAL INDICATOR SYMBOL LETTER A" -> 127462
      [] name = "REGIONAL INDICATOR SYMBOL LETTER B" -> 127463
      [] name = "REGIONAL INDICATOR SYMBOL LETTER C" -> 127464
      [] name = "REGIONAL INDICATOR SYMBOL LETTER D" -> 127465
      [] name = "REGIONAL INDICATOR SYMBOL LETTER E" -> 127466
      [] name = "REGIONAL INDICATOR SYMBOL LETTER F" -> 127467
      [] name = "REGIONAL INDICATOR SYMBOL LETTER G" -> 127468
      [] name = "REGIONAL INDICATOR SYMBOL LETTER H" -> 127469
      [] name = "REGIONAL INDICATOR SYMBOL LETTER I" -> 127470
      [] name = "REGIONAL INDICATOR SYMBOL LETTER J" -> 127471
      [] name = "REGIONAL INDICATOR SYMBOL LETTER K" -> 127472
      [] name = "REGIONAL INDICATOR SYMBOL LETTER L" -> 127473
      [] name = "REGIONAL INDICATOR SYMBOL LETTER M" -> 127474
      [] name = "REGIONAL INDICATOR SYMBOL LETTER N" -> 127475
      [] name = "REGIONAL INDICATOR SYMBOL LETTER O" -> 127476
      [] name = "REGIONAL INDICATOR SYMBOL LETTER P" -> 127477
      [] name = "REGIONAL INDICATOR SYMBOL LETTER Q" -> 127478
      [] name = "REGIONAL INDICATOR SYMBOL LETTER R" -> 127479
      [] name = "REGIONAL INDICATOR SYMBOL LETTER S" -> 127480
      [] name = "REGIONAL INDICATOR SYMBOL LETTER T" -> 127481
      [] name = "REGIONAL INDICATOR SYMBOL LETTER U" -> 127482
      [] name = "REGIONAL INDICATOR SYMBOL LETTER V" -> 127483
      [] name = "REGIONAL INDICATOR SYMBOL LETTER W" -> 127484
      [] name = "REGIONAL INDICATOR SYMBOL LETTER X" -> 127485
      [] name = "REGIONAL INDICATOR SYMBOL LETTER Y" -> 127486
      [] name = "REGIONAL INDICATOR SYMBOL LETTER Z" -> 127487
      [] name = "SQUARE HIRAGANA HOKA" -> 127488
      [] name = "SQUARED KATAKANA KOKO" -> 127489
      [] name = "SQUARED KATAKANA SA" -> 127490
      [] name = "SQUARED CJK UNIFIED IDEOGRAPH-624B" -> 127504
      [] name = "SQUARED CJK UNIFIED IDEOGRAPH-5B57" -> 127505
      [] name = "SQUARED CJK UNIFIED IDEOGRAPH-53CC" -> 127506
      [] name = "SQUARED KATAKANA DE" -> 127507
      [] name = "SQUARED CJK UNIFIED IDEOGRAPH-4E8C" -> 127508
      [] name = "SQUARED CJK UNIFIED IDEOGRAPH-591A" -> 127509
      [] name = "SQUARED CJK UNIFIED IDEOGRAPH-89E3" -> 127510
      [] name = "SQUARED CJK UNIFIED IDEOGRAPH-5929" -> 127511
      [] name = "SQUARED CJK UNIFIED IDEOGRAPH-4EA4" -> 127512
      [] name = "SQUARED CJK UNIFIED IDEOGRAPH-6620" -> 127513
      [] name = "SQUARED CJK UNIFIED IDEOGRAPH-7121" -> 127514
      [] name = "SQUARED CJK UNIFIED IDEOGRAPH-6599" -> 127515
      [] name = "SQUARED CJK UNIFIED IDEOGRAPH-524D" -> 127516
      [] name = "SQUARED CJK UNIFIED IDEOGRAPH-5F8C" -> 127517
      [] name = "SQUARED CJK UNIFIED IDEOGRAPH-518D" -> 127518
      [] name = "SQUARED CJK UNIFIED IDEOGRAPH-65B0" -> 127519
      [] name = "SQUARED CJK UNIFIED IDEOGRAPH-521D" -> 127520
      [] name = "SQUARED CJK UNIFIED IDEOGRAPH-7D42" -> 127521
      [] name = "SQUARED CJK UNIFIED IDEOGRAPH-751F" -> 127522
      [] name = "SQUARED CJK UNIFIED IDEOGRAPH-8CA9" -> 127523
      [] name = "SQUARED CJK UNIFIED IDEOGRAPH-58F0" -> 127524
      [] name = "SQUARED CJK UNIFIED IDEOGRAPH-5439" -> 127525
      [] name = "SQUARED CJK UNIFIED IDEOGRAPH-6F14" -> 127526
      [] name = "SQUARED CJK UNIFIED IDEOGRAPH-6295" -> 127527
      [] name = "SQUARED CJK UNIFIED IDEOGRAPH-6355" -> 127528
      [] name = "SQUARED CJK UNIFIED IDEOGRAPH-4E00" -> 127529
      [] name = "SQUARED CJK UNIFIED IDEOGRAPH-4E09" -> 127530
      [] name = "SQUARED CJK UNIFIED IDEOGRAPH-904A" -> 127531
      [] name = "SQUARED CJK UNIFIED IDEOGRAPH-5DE6" -> 127532
      [] name = "SQUARED CJK UNIFIED IDEOGRAPH-4E2D" -> 127533
      [] name = "SQUARED CJK UNIFIED IDEOGRAPH-53F3" -> 127534
      [] name = "SQUARED CJK UNIFIED IDEOGRAPH-6307" -> 127535
      [] name = "SQUARED CJK UNIFIED IDEOGRAPH-8D70" -> 127536
      [] name = "SQUARED CJK UNIFIED IDEOGRAPH-6253" -> 127537
      [] name = "SQUARED CJK UNIFIED IDEOGRAPH-7981" -> 127538
      [] name = "SQUARED CJK UNIFIED IDEOGRAPH-7A7A" -> 127539
      [] name = "SQUARED CJK UNIFIED IDEOGRAPH-5408" -> 127540
      [] name = "SQUARED CJK UNIFIED IDEOGRAPH-6E80" -> 127541
      [] name = "SQUARED CJK UNIFIED IDEOGRAPH-6709" -> 127542
      [] name = "SQUARED CJK UNIFIED IDEOGRAPH-6708" -> 127543
      [] name = "SQUARED CJK UNIFIED IDEOGRAPH-7533" -> 127544
      [] name = "SQUARED CJK UNIFIED IDEOGRAPH-5272" -> 127545
      [] name = "SQUARED CJK UNIFIED IDEOGRAPH-55B6" -> 127546
      [] name = "SQUARED CJK UNIFIED IDEOGRAPH-914D" -> 127547
      [] name = "TORTOISE SHELL BRACKETED CJK UNIFIED IDEOGRAPH-672C" -> 127552
      [] name = "TORTOISE SHELL BRACKETED CJK UNIFIED IDEOGRAPH-4E09" -> 127553
      [] name = "TORTOISE SHELL BRACKETED CJK UNIFIED IDEOGRAPH-4E8C" -> 127554
      [] name = "TORTOISE SHELL BRACKETED CJK UNIFIED IDEOGRAPH-5B89" -> 127555
      [] name = "TORTOISE SHELL BRACKETED CJK UNIFIED IDEOGRAPH-70B9" -> 127556
      [] name = "TORTOISE SHELL BRACKETED CJK UNIFIED IDEOGRAPH-6253" -> 127557
      [] name = "TORTOISE SHELL BRACKETED CJK UNIFIED IDEOGRAPH-76D7" -> 127558
      [] name = "TORTOISE SHELL BRACKETED CJK UNIFIED IDEOGRAPH-52DD" -> 127559
      [] name = "TORTOISE SHELL BRACKETED CJK UNIFIED IDEOGRAPH-6557" -> 127560
      [] name = "CIRCLED IDEOGRAPH ADVANTAGE" -> 127568
      [] name = "CIRCLED IDEOGRAPH ACCEPT" -> 127569
      [] name = "ROUNDED SYMBOL FOR FU" -> 127584
      [] name = "ROUNDED SYMBOL FOR LU" -> 127585
      [] name = "ROUNDED SYMBOL FOR SHOU" -> 127586
      [] name = "ROUNDED SYMBOL FOR XI" -> 127587
      [] name = "ROUNDED SYMBOL FOR SHUANGXI" -> 127588
      [] name = "ROUNDED SYMBOL FOR CAI" -> 127589
      [] name = "CYCLONE" -> 127744
      [] name = "FOGGY" -> 127745
      [] name = "CLOSED UMBRELLA" -> 127746
      [] name = "NIGHT WITH STARS" -> 127747
      [] name = "SUNRISE OVER MOUNTAINS" -> 127748
      [] name = "SUNRISE" -> 127749
      [] name = "CITYSCAPE AT DUSK" -> 127750
      [] name = "SUNSET OVER BUILDINGS" -> 127751
      [] name = "RAINBOW" -> 127752
      [] name = "BRIDGE AT NIGHT" -> 127753
      [] name = "WATER WAVE" -> 127754
      [] name = "VOLCANO" -> 127755
      [] name = "MILKY WAY" -> 127756
      [] name = "EARTH GLOBE EUROPE-AFRICA" -> 127757
      [] name = "EARTH GLOBE AMERICAS" -> 127758
      [] name = "EARTH GLOBE ASIA-AUSTRALIA" -> 127759
      [] name = "GLOBE WITH MERIDIANS" -> 127760
      [] name = "NEW MOON SYMBOL" -> 127761
      [] name = "WAXING CRESCENT MOON SYMBOL" -> 127762
      [] name = "FIRST QUARTER MOON SYMBOL" -> 127763
      [] name = "WAXING GIBBOUS MOON SYMBOL" -> 127764
      [] name = "FULL MOON SYMBOL" -> 127765
      [] name = "WANING GIBBOUS MOON SYMBOL" -> 127766
      [] name = "LAST QUARTER MOON SYMBOL" -> 127767
      [] name = "WANING CRESCENT MOON SYMBOL" -> 127768
      [] name = "CRESCENT MOON" -> 127769
      [] name = "NEW MOON WITH FACE" -> 127770
      [] name = "FIRST QUARTER MOON WITH FACE" -> 127771
      [] name = "LAST QUARTER MOON WITH FACE" -> 127772
      [] name = "FULL MOON WITH FACE" -> 127773
      [] name = "SUN WITH FACE" -> 127774
      [] name = "GLOWING STAR" -> 127775
      [] name = "SHOOTING STAR" -> 127776
      [] name = "THERMOMETER" -> 127777
      [] name = "BLACK DROPLET" -> 127778
      [] name = "WHITE SUN" -> 127779
      [] name = "WHITE SUN WITH SMALL CLOUD" -> 127780
      [] name = "WHITE SUN BEHIND CLOUD" -> 127781
      [] name = "WHITE SUN BEHIND CLOUD WITH RAIN" -> 127782
      [] name = "CLOUD WITH RAIN" -> 127783
      [] name = "CLOUD WITH SNOW" -> 127784
      [] name = "CLOUD WITH LIGHTNING" -> 127785
      [] name = "CLOUD WITH TORNADO" -> 127786
      [] name = "FOG" -> 127787
      [] name = "WIND BLOWING FACE" -> 127788
      [] name = "HOT DOG" -> 127789
      [] name = "TACO" -> 127790
      [] name = "BURRITO" -> 127791
      [] name = "CHESTNUT" -> 127792
      [] name = "SEEDLING" -> 127793
      [] name = "EVERGREEN TREE" -> 127794
      [] name = "DECIDUOUS TREE" -> 127795
      [] name = "PALM TREE" -> 127796
      [] name = "CACTUS" -> 127797
      [] name = "HOT PEPPER" -> 127798
      [] name = "TULIP" -> 127799
      [] name = "CHERRY BLOSSOM" -> 127800
      [] name = "ROSE" -> 127801
      [] name = "HIBISCUS" -> 127802
      [] name = "SUNFLOWER" -> 127803
      [] name = "BLOSSOM" -> 127804
      [] name = "EAR OF MAIZE" -> 127805
      [] name = "EAR OF RICE" -> 127806
      [] name = "HERB" -> 127807
      [] name = "FOUR LEAF CLOVER" -> 127808
      [] name = "MAPLE LEAF" -> 127809
      [] name = "FALLEN LEAF" -> 127810
      [] name = "LEAF FLUTTERING IN WIND" -> 127811
      [] name = "MUSHROOM" -> 127812
      [] name = "TOMATO" -> 127813
      [] name = "AUBERGINE" -> 127814
      [] name = "GRAPES" -> 127815
      [] name = "MELON" -> 127816
      [] name = "WATERMELON" -> 127817
      [] name = "TANGERINE" -> 127818
      [] name = "LEMON" -> 127819
      [] name = "BANANA" -> 127820
      [] name = "PINEAPPLE" -> 127821
      [] name = "RED APPLE" -> 127822
      [] name = "GREEN APPLE" -> 127823
      [] name = "PEAR" -> 127824
      [] name = "PEACH" -> 127825
      [] name = "CHERRIES" -> 127826
      [] name = "STRAWBERRY" -> 127827
      [] name = "HAMBURGER" -> 127828
      [] name = "SLICE OF PIZZA" -> 127829
      [] name = "MEAT ON BONE" -> 127830
      [] name = "POULTRY LEG" -> 127831
      [] name = "RICE CRACKER" -> 127832
      [] name = "RICE BALL" -> 127833
      [] name = "COOKED RICE" -> 127834
      [] name = "CURRY AND RICE" -> 127835
      [] name = "STEAMING BOWL" -> 127836
      [] name = "SPAGHETTI" -> 127837
      [] name = "BREAD" -> 127838
      [] name = "FRENCH FRIES" -> 127839
      [] name = "ROASTED SWEET POTATO" -> 127840
      [] name = "DANGO" -> 127841
      [] name = "ODEN" -> 127842
      [] name = "SUSHI" -> 127843
      [] name = "FRIED SHRIMP" -> 127844
      [] name = "FISH CAKE WITH SWIRL DESIGN" -> 127845
      [] name = "SOFT ICE CREAM" -> 127846
      [] name = "SHAVED ICE" -> 127847
      [] name = "ICE CREAM" -> 127848
      [] name = "DOUGHNUT" -> 127849
      [] name = "COOKIE" -> 127850
      [] name = "CHOCOLATE BAR" -> 127851
      [] name = "CANDY" -> 127852
      [] name = "LOLLIPOP" -> 127853
      [] name = "CUSTARD" -> 127854
      [] name = "HONEY POT" -> 127855
      [] name = "SHORTCAKE" -> 127856
      [] name = "BENTO BOX" -> 127857
      [] name = "POT OF FOOD" -> 127858
      [] name = "COOKING" -> 127859
      [] name = "FORK AND KNIFE" -> 127860
      [] name = "TEACUP WITHOUT HANDLE" -> 127861
      [] name = "SAKE BOTTLE AND CUP" -> 127862
      [] name = "WINE GLASS" -> 127863
      [] name = "COCKTAIL GLASS" -> 127864
      [] name = "TROPICAL DRINK" -> 127865
      [] name = "BEER MUG" -> 127866
      [] name = "CLINKING BEER MUGS" -> 127867
      [] name = "BABY BOTTLE" -> 127868
      [] name = "FORK AND KNIFE WITH PLATE" -> 127869
      [] name = "BOTTLE WITH POPPING CORK" -> 127870
      [] name = "POPCORN" -> 127871
      [] name = "RIBBON" -> 127872
      [] name = "WRAPPED PRESENT" -> 127873
      [] name = "BIRTHDAY CAKE" -> 127874
      [] name = "JACK-O-LANTERN" -> 127875
      [] name = "CHRISTMAS TREE" -> 127876
      [] name = "FATHER CHRISTMAS" -> 127877
      [] name = "FIREWORKS" -> 127878
      [] name = "FIREWORK SPARKLER" -> 127879
      [] name = "BALLOON" -> 127880
      [] name = "PARTY POPPER" -> 127881
      [] name = "CONFETTI BALL" -> 127882
      [] name = "TANABATA TREE" -> 127883
      [] name = "CROSSED FLAGS" -> 127884
      [] name = "PINE DECORATION" -> 127885
      [] name = "JAPANESE DOLLS" -> 127886
      [] name = "CARP STREAMER" -> 127887
      [] name = "WIND CHIME" -> 127888
      [] name = "MOON VIEWING CEREMONY" -> 127889
      [] name = "SCHOOL SATCHEL" -> 127890
      [] name = "GRADUATION CAP" -> 127891
      [] name = "HEART WITH TIP ON THE LEFT" -> 127892
      [] name = "BOUQUET OF FLOWERS" -> 127893
      [] name = "MILITARY MEDAL" -> 127894
      [] name = "REMINDER RIBBON" -> 127895
      [] name = "MUSICAL KEYBOARD WITH JACKS" -> 127896
      [] name = "STUDIO MICROPHONE" -> 127897
      [] name = "LEVEL SLIDER" -> 127898
      [] name = "CONTROL KNOBS" -> 127899
      [] name = "BEAMED ASCENDING MUSICAL NOTES" -> 127900
      [] name = "BEAMED DESCENDING MUSICAL NOTES" -> 127901
      [] name = "FILM FRAMES" -> 127902
      [] name = "ADMISSION TICKETS" -> 127903
      [] name = "CAROUSEL HORSE" -> 127904
      [] name = "FERRIS WHEEL" -> 127905
      [] name = "ROLLER COASTER" -> 127906
      [] name = "FISHING POLE AND FISH" -> 127907
      [] name = "MICROPHONE" -> 127908
      [] name = "MOVIE CAMERA" -> 127909
      [] name = "CINEMA" -> 127910
      [] name = "HEADPHONE" -> 127911
      [] name = "ARTIST PALETTE" -> 127912
      [] name = "TOP HAT" -> 127913
      [] name = "CIRCUS TENT" -> 127914
      [] name = "TICKET" -> 127915
      [] name = "CLAPPER BOARD" -> 127916
      [] name = "PERFORMING ARTS" -> 127917
      [] name = "VIDEO GAME" -> 127918
      [] name = "DIRECT HIT" -> 127919
      [] name = "SLOT MACHINE" -> 127920
      [] name = "BILLIARDS" -> 127921
      [] name = "GAME DIE" -> 127922
      [] name = "BOWLING" -> 127923
      [] name = "FLOWER PLAYING CARDS" -> 127924
      [] name = "MUSICAL NOTE" -> 127925
      [] name = "MULTIPLE MUSICAL NOTES" -> 127926
      [] name = "SAXOPHONE" -> 127927
      [] name = "GUITAR" -> 127928
      [] name = "MUSICAL KEYBOARD" -> 127929
      [] name = "TRUMPET" -> 127930
      [] name = "VIOLIN" -> 127931
      [] name = "MUSICAL SCORE" -> 127932
      [] name = "RUNNING SHIRT WITH SASH" -> 127933
      [] name = "TENNIS RACQUET AND BALL" -> 127934
      [] name = "SKI AND SKI BOOT" -> 127935
      [] name = "BASKETBALL AND HOOP" -> 127936
      [] name = "CHEQUERED FLAG" -> 127937
      [] name = "SNOWBOARDER" -> 127938
      [] name = "RUNNER" -> 127939
      [] name = "SURFER" -> 127940
      [] name = "SPORTS MEDAL" -> 127941
      [] name = "TROPHY" -> 127942
      [] name = "HORSE RACING" -> 127943
      [] name = "AMERICAN FOOTBALL" -> 127944
      [] name = "RUGBY FOOTBALL" -> 127945
      [] name = "SWIMMER" -> 127946
      [] name = "WEIGHT LIFTER" -> 127947
      [] name = "GOLFER" -> 127948
      [] name = "RACING MOTORCYCLE" -> 127949
      [] name = "RACING CAR" -> 127950
      [] name = "CRICKET BAT AND BALL" -> 127951
      [] name = "VOLLEYBALL" -> 127952
      [] name = "FIELD HOCKEY STICK AND BALL" -> 127953
      [] name = "ICE HOCKEY STICK AND PUCK" -> 127954
      [] name = "TABLE TENNIS PADDLE AND BALL" -> 127955
      [] name = "SNOW CAPPED MOUNTAIN" -> 127956
      [] name = "CAMPING" -> 127957
      [] name = "BEACH WITH UMBRELLA" -> 127958
      [] name = "BUILDING CONSTRUCTION" -> 127959
      [] name = "HOUSE BUILDINGS" -> 127960
      [] name = "CITYSCAPE" -> 127961
      [] name = "DERELICT HOUSE BUILDING" -> 127962
      [] name = "CLASSICAL BUILDING" -> 127963
      [] name = "DESERT" -> 127964
      [] name = "DESERT ISLAND" -> 127965
      [] name = "NATIONAL PARK" -> 127966
      [] name = "STADIUM" -> 127967
      [] name = "HOUSE BUILDING" -> 127968
      [] name = "HOUSE WITH GARDEN" -> 127969
      [] name = "OFFICE BUILDING" -> 127970
      [] name = "JAPANESE POST OFFICE" -> 127971
      [] name = "EUROPEAN POST OFFICE" -> 127972
      [] name = "HOSPITAL" -> 127973
      [] name = "BANK" -> 127974
      [] name = "AUTOMATED TELLER MACHINE" -> 127975
      [] name = "HOTEL" -> 127976
      [] name = "LOVE HOTEL" -> 127977
      [] name = "CONVENIENCE STORE" -> 127978
      [] name = "SCHOOL" -> 127979
      [] name = "DEPARTMENT STORE" -> 127980
      [] name = "FACTORY" -> 127981
      [] name = "IZAKAYA LANTERN" -> 127982
      [] name = "JAPANESE CASTLE" -> 127983
      [] name = "EUROPEAN CASTLE" -> 127984
      [] name = "WHITE PENNANT" -> 127985
      [] name = "BLACK PENNANT" -> 127986
      [] name = "WAVING WHITE FLAG" -> 127987
      [] name = "WAVING BLACK FLAG" -> 127988
      [] name = "ROSETTE" -> 127989
      [] name = "BLACK ROSETTE" -> 127990
      [] name = "LABEL" -> 127991
      [] name = "BADMINTON RACQUET AND SHUTTLECOCK" -> 127992
      [] name = "BOW AND ARROW" -> 127993
      [] name = "AMPHORA" -> 127994
      [] name = "EMOJI MODIFIER FITZPATRICK TYPE-1-2" -> 127995
      [] name = "EMOJI MODIFIER FITZPATRICK TYPE-3" -> 127996
      [] name = "EMOJI MODIFIER FITZPATRICK TYPE-4" -> 127997
      [] name = "EMOJI MODIFIER FITZPATRICK TYPE-5" -> 127998
      [] name = "EMOJI MODIFIER FITZPATRICK TYPE-6" -> 127999
      [] name = "RAT" -> 128000
      [] name = "MOUSE" -> 128001
      [] name = "OX" -> 128002
      [] name = "WATER BUFFALO" -> 128003
      [] name = "COW" -> 128004
      [] name = "TIGER" -> 128005
      [] name = "LEOPARD" -> 128006
      [] name = "RABBIT" -> 128007
      [] name = "CAT" -> 128008
      [] name = "DRAGON" -> 128009
      [] name = "CROCODILE" -> 128010
      [] name = "WHALE" -> 128011
      [] name = "SNAIL" -> 128012
      [] name = "SNAKE" -> 128013
      [] name = "HORSE" -> 128014
      [] name = "RAM" -> 128015
      [] name = "GOAT" -> 128016
      [] name = "SHEEP" -> 128017
      [] name = "MONKEY" -> 128018
      [] name = "ROOSTER" -> 128019
      [] name = "CHICKEN" -> 128020
      [] name = "DOG" -> 128021
      [] name = "PIG" -> 128022
      [] name = "BOAR" -> 128023
      [] name = "ELEPHANT" -> 128024
      [] name = "OCTOPUS" -> 128025
      [] name = "SPIRAL SHELL" -> 128026
      [] name = "BUG" -> 128027
      [] name = "ANT" -> 128028
      [] name = "HONEYBEE" -> 128029
      [] name = "LADY BEETLE" -> 128030
      [] name = "FISH" -> 128031
      [] name = "TROPICAL FISH" -> 128032
      [] name = "BLOWFISH" -> 128033
      [] name = "TURTLE" -> 128034
      [] name = "HATCHING CHICK" -> 128035
      [] name = "BABY CHICK" -> 128036
      [] name = "FRONT-FACING BABY CHICK" -> 128037
      [] name = "BIRD" -> 128038
      [] name = "PENGUIN" -> 128039
      [] name = "KOALA" -> 128040
      [] name = "POODLE" -> 128041
      [] name = "DROMEDARY CAMEL" -> 128042
      [] name = "BACTRIAN CAMEL" -> 128043
      [] name = "DOLPHIN" -> 128044
      [] name = "MOUSE FACE" -> 128045
      [] name = "COW FACE" -> 128046
      [] name = "TIGER FACE" -> 128047
      [] name = "RABBIT FACE" -> 128048
      [] name = "CAT FACE" -> 128049
      [] name = "DRAGON FACE" -> 128050
      [] name = "SPOUTING WHALE" -> 128051
      [] name = "HORSE FACE" -> 128052
      [] name = "MONKEY FACE" -> 128053
      [] name = "DOG FACE" -> 128054
      [] name = "PIG FACE" -> 128055
      [] name = "FROG FACE" -> 128056
      [] name = "HAMSTER FACE" -> 128057
      [] name = "WOLF FACE" -> 128058
      [] name = "BEAR FACE" -> 128059
      [] name = "PANDA FACE" -> 128060
      [] name = "PIG NOSE" -> 128061
      [] name = "PAW PRINTS" -> 128062
      [] name = "CHIPMUNK" -> 128063
      [] name = "EYES" -> 128064
      [] name = "EYE" -> 128065
      [] name = "EAR" -> 128066
      [] name = "NOSE" -> 128067
      [] name = "MOUTH" -> 128068
      [] name = "TONGUE" -> 128069
      [] name = "WHITE UP POINTING BACKHAND INDEX" -> 128070
      [] name = "WHITE DOWN POINTING BACKHAND INDEX" -> 128071
      [] name = "WHITE LEFT POINTING BACKHAND INDEX" -> 128072
      [] name = "WHITE RIGHT POINTING BACKHAND INDEX" -> 128073
      [] name = "FISTED HAND SIGN" -> 128074
      [] name = "WAVING HAND SIGN" -> 128075
      [] name = "OK HAND SIGN" -> 128076
      [] name = "THUMBS UP SIGN" -> 128077
      [] name = "THUMBS DOWN SIGN" -> 128078
      [] name = "CLAPPING HANDS SIGN" -> 128079
      [] name = "OPEN HANDS SIGN" -> 128080
      [] name = "CROWN" -> 128081
      [] name = "WOMANS HAT" -> 128082
      [] name = "EYEGLASSES" -> 128083
      [] name = "NECKTIE" -> 128084
      [] name = "T-SHIRT" -> 128085
      [] name = "JEANS" -> 128086
      [] name = "DRESS" -> 128087
      [] name = "KIMONO" -> 128088
      [] name = "BIKINI" -> 128089
      [] name = "WOMANS CLOTHES" -> 128090
      [] name = "PURSE" -> 128091
      [] name = "HANDBAG" -> 128092
      [] name = "POUCH" -> 128093
      [] name = "MANS SHOE" -> 128094
      [] name = "ATHLETIC SHOE" -> 128095
      [] name = "HIGH-HEELED SHOE" -> 128096
      [] name = "WOMANS SANDAL" -> 128097
      [] name = "WOMANS BOOTS" -> 128098
      [] name = "FOOTPRINTS" -> 128099
      [] name = "BUST IN SILHOUETTE" -> 128100
      [] name = "BUSTS IN SILHOUETTE" -> 128101
      [] name = "BOY" -> 128102
      [] name = "GIRL" -> 128103
      [] name = "MAN" -> 128104
      [] name = "WOMAN" -> 128105
      [] name = "FAMILY" -> 128106
      [] name = "MAN AND WOMAN HOLDING HANDS" -> 128107
      [] name = "TWO MEN HOLDING HANDS" -> 128108
      [] name = "TWO WOMEN HOLDING HANDS" -> 128109
      [] name = "POLICE OFFICER" -> 128110
      [] name = "WOMAN WITH BUNNY EARS" -> 128111
      [] name = "BRIDE WITH VEIL" -> 128112
      [] name = "PERSON WITH BLOND HAIR" -> 128113
      [] name = "MAN WITH GUA PI MAO" -> 128114
      [] name = "MAN WITH TURBAN" -> 128115
      [] name = "OLDER MAN" -> 128116
      [] name = "OLDER WOMAN" -> 128117
      [] name = "BABY" -> 128118
      [] name = "CONSTRUCTION WORKER" -> 128119
      [] name = "PRINCESS" -> 128120
      [] name = "JAPANESE OGRE" -> 128121
      [] name = "JAPANESE GOBLIN" -> 128122
      [] name = "GHOST" -> 128123
      [] name = "BABY ANGEL" -> 128124
      [] name = "EXTRATERRESTRIAL ALIEN" -> 128125
      [] name = "ALIEN MONSTER" -> 128126
      [] name = "IMP" -> 128127
      [] name = "SKULL" -> 128128
      [] name = "INFORMATION DESK PERSON" -> 128129
      [] name = "GUARDSMAN" -> 128130
      [] name = "DANCER" -> 128131
      [] name = "LIPSTICK" -> 128132
      [] name = "NAIL POLISH" -> 128133
      [] name = "FACE MASSAGE" -> 128134
      [] name = "HAIRCUT" -> 128135
      [] name = "BARBER POLE" -> 128136
      [] name = "SYRINGE" -> 128137
      [] name = "PILL" -> 128138
      [] name = "KISS MARK" -> 128139
      [] name = "LOVE LETTER" -> 128140
      [] name = "RING" -> 128141
      [] name = "GEM STONE" -> 128142
      [] name = "KISS" -> 128143
      [] name = "BOUQUET" -> 128144
      [] name = "COUPLE WITH HEART" -> 128145
      [] name = "WEDDING" -> 128146
      [] name = "BEATING HEART" -> 128147
      [] name = "BROKEN HEART" -> 128148
      [] name = "TWO HEARTS" -> 128149
      [] name = "SPARKLING HEART" -> 128150
      [] name = "GROWING HEART" -> 128151
      [] name = "HEART WITH ARROW" -> 128152
      [] name = "BLUE HEART" -> 128153
      [] name = "GREEN HEART" -> 128154
      [] name = "YELLOW HEART" -> 128155
      [] name = "PURPLE HEART" -> 128156
      [] name = "HEART WITH RIBBON" -> 128157
      [] name = "REVOLVING HEARTS" -> 128158
      [] name = "HEART DECORATION" -> 128159
      [] name = "DIAMOND SHAPE WITH A DOT INSIDE" -> 128160
      [] name = "ELECTRIC LIGHT BULB" -> 128161
      [] name = "ANGER SYMBOL" -> 128162
      [] name = "BOMB" -> 128163
      [] name = "SLEEPING SYMBOL" -> 128164
      [] name = "COLLISION SYMBOL" -> 128165
      [] name = "SPLASHING SWEAT SYMBOL" -> 128166
      [] name = "DROPLET" -> 128167
      [] name = "DASH SYMBOL" -> 128168
      [] name = "PILE OF POO" -> 128169
      [] name = "FLEXED BICEPS" -> 128170
      [] name = "DIZZY SYMBOL" -> 128171
      [] name = "SPEECH BALLOON" -> 128172
      [] name = "THOUGHT BALLOON" -> 128173
      [] name = "WHITE FLOWER" -> 128174
      [] name = "HUNDRED POINTS SYMBOL" -> 128175
      [] name = "MONEY BAG" -> 128176
      [] name = "CURRENCY EXCHANGE" -> 128177
      [] name = "HEAVY DOLLAR SIGN" -> 128178
      [] name = "CREDIT CARD" -> 128179
      [] name = "BANKNOTE WITH YEN SIGN" -> 128180
      [] name = "BANKNOTE WITH DOLLAR SIGN" -> 128181
      [] name = "BANKNOTE WITH EURO SIGN" -> 128182
      [] name = "BANKNOTE WITH POUND SIGN" -> 128183
      [] name = "MONEY WITH WINGS" -> 128184
      [] name = "CHART WITH UPWARDS TREND AND YEN SIGN" -> 128185
      [] name = "SEAT" -> 128186
      [] name = "PERSONAL COMPUTER" -> 128187
      [] name = "BRIEFCASE" -> 128188
      [] name = "MINIDISC" -> 128189
      [] name = "FLOPPY DISK" -> 128190
      [] name = "OPTICAL DISC" -> 128191
      [] name = "DVD" -> 128192
      [] name = "FILE FOLDER" -> 128193
      [] name = "OPEN FILE FOLDER" -> 128194
      [] name = "PAGE WITH CURL" -> 128195
      [] name = "PAGE FACING UP" -> 128196
      [] name = "CALENDAR" -> 128197
      [] name = "TEAR-OFF CALENDAR" -> 128198
      [] name = "CARD INDEX" -> 128199
      [] name = "CHART WITH UPWARDS TREND" -> 128200
      [] name = "CHART WITH DOWNWARDS TREND" -> 128201
      [] name = "BAR CHART" -> 128202
      [] name = "CLIPBOARD" -> 128203
      [] name = "PUSHPIN" -> 128204
      [] name = "ROUND PUSHPIN" -> 128205
      [] name = "PAPERCLIP" -> 128206
      [] name = "STRAIGHT RULER" -> 128207
      [] name = "TRIANGULAR RULER" -> 128208
      [] name = "BOOKMARK TABS" -> 128209
      [] name = "LEDGER" -> 128210
      [] name = "NOTEBOOK" -> 128211
      [] name = "NOTEBOOK WITH DECORATIVE COVER" -> 128212
      [] name = "CLOSED BOOK" -> 128213
      [] name = "OPEN BOOK" -> 128214
      [] name = "GREEN BOOK" -> 128215
      [] name = "BLUE BOOK" -> 128216
      [] name = "ORANGE BOOK" -> 128217
      [] name = "BOOKS" -> 128218
      [] name = "NAME BADGE" -> 128219
      [] name = "SCROLL" -> 128220
      [] name = "MEMO" -> 128221
      [] name = "TELEPHONE RECEIVER" -> 128222
      [] name = "PAGER" -> 128223
      [] name = "FAX MACHINE" -> 128224
      [] name = "SATELLITE ANTENNA" -> 128225
      [] name = "PUBLIC ADDRESS LOUDSPEAKER" -> 128226
      [] name = "CHEERING MEGAPHONE" -> 128227
      [] name = "OUTBOX TRAY" -> 128228
      [] name = "INBOX TRAY" -> 128229
      [] name = "PACKAGE" -> 128230
      [] name = "E-MAIL SYMBOL" -> 128231
      [] name = "INCOMING ENVELOPE" -> 128232
      [] name = "ENVELOPE WITH DOWNWARDS ARROW ABOVE" -> 128233
      [] name = "CLOSED MAILBOX WITH LOWERED FLAG" -> 128234
      [] name = "CLOSED MAILBOX WITH RAISED FLAG" -> 128235
      [] name = "OPEN MAILBOX WITH RAISED FLAG" -> 128236
      [] name = "OPEN MAILBOX WITH LOWERED FLAG" -> 128237
      [] name = "POSTBOX" -> 128238
      [] name = "POSTAL HORN" -> 128239
      [] name = "NEWSPAPER" -> 128240
      [] name = "MOBILE PHONE" -> 128241
      [] name = "MOBILE PHONE WITH RIGHTWARDS ARROW AT LEFT" -> 128242
      [] name = "VIBRATION MODE" -> 128243
      [] name = "MOBILE PHONE OFF" -> 128244
      [] name = "NO MOBILE PHONES" -> 128245
      [] name = "ANTENNA WITH BARS" -> 128246
      [] name = "CAMERA" -> 128247
      [] name = "CAMERA WITH FLASH" -> 128248
      [] name = "VIDEO CAMERA" -> 128249
      [] name = "TELEVISION" -> 128250
      [] name = "RADIO" -> 128251
      [] name = "VIDEOCASSETTE" -> 128252
      [] name = "FILM PROJECTOR" -> 128253
      [] name = "PORTABLE STEREO" -> 128254
      [] name = "PRAYER BEADS" -> 128255
      [] name = "TWISTED RIGHTWARDS ARROWS" -> 128256
      [] name = "CLOCKWISE RIGHTWARDS AND LEFTWARDS OPEN CIRCLE ARROWS" -> 128257
      [] name = "CLOCKWISE RIGHTWARDS AND LEFTWARDS OPEN CIRCLE ARROWS WITH CIRCLED ONE OVERLAY" -> 128258
      [] name = "CLOCKWISE DOWNWARDS AND UPWARDS OPEN CIRCLE ARROWS" -> 128259
      [] name = "ANTICLOCKWISE DOWNWARDS AND UPWARDS OPEN CIRCLE ARROWS" -> 128260
      [] name = "LOW BRIGHTNESS SYMBOL" -> 128261
      [] name = "HIGH BRIGHTNESS SYMBOL" -> 128262
      [] name = "SPEAKER WITH CANCELLATION STROKE" -> 128263
      [] name = "SPEAKER" -> 128264
      [] name = "SPEAKER WITH ONE SOUND WAVE" -> 128265
      [] name = "SPEAKER WITH THREE SOUND WAVES" -> 128266
      [] name = "BATTERY" -> 128267
      [] name = "ELECTRIC PLUG" -> 128268
      [] name = "LEFT-POINTING MAGNIFYING GLASS" -> 128269
      [] name = "RIGHT-POINTING MAGNIFYING GLASS" -> 128270
      [] name = "LOCK WITH INK PEN" -> 128271
      [] name = "CLOSED LOCK WITH KEY" -> 128272
      [] name = "KEY" -> 128273
      [] name = "LOCK" -> 128274
      [] name = "OPEN LOCK" -> 128275
      [] name = "BELL" -> 128276
      [] name = "BELL WITH CANCELLATION STROKE" -> 128277
      [] name = "BOOKMARK" -> 128278
      [] name = "LINK SYMBOL" -> 128279
      [] name = "RADIO BUTTON" -> 128280
      [] name = "BACK WITH LEFTWARDS ARROW ABOVE" -> 128281
      [] name = "END WITH LEFTWARDS ARROW ABOVE" -> 128282
      [] name = "ON WITH EXCLAMATION MARK WITH LEFT RIGHT ARROW ABOVE" -> 128283
      [] name = "SOON WITH RIGHTWARDS ARROW ABOVE" -> 128284
      [] name = "TOP WITH UPWARDS ARROW ABOVE" -> 128285
      [] name = "NO ONE UNDER EIGHTEEN SYMBOL" -> 128286
      [] name = "KEYCAP TEN" -> 128287
      [] name = "INPUT SYMBOL FOR LATIN CAPITAL LETTERS" -> 128288
      [] name = "INPUT SYMBOL FOR LATIN SMALL LETTERS" -> 128289
      [] name = "INPUT SYMBOL FOR NUMBERS" -> 128290
      [] name = "INPUT SYMBOL FOR SYMBOLS" -> 128291
      [] name = "INPUT SYMBOL FOR LATIN LETTERS" -> 128292
      [] name = "FIRE" -> 128293
      [] name = "ELECTRIC TORCH" -> 128294
      [] name = "WRENCH" -> 128295
      [] name = "HAMMER" -> 128296
      [] name = "NUT AND BOLT" -> 128297
      [] name = "HOCHO" -> 128298
      [] name = "PISTOL" -> 128299
      [] name = "MICROSCOPE" -> 128300
      [] name = "TELESCOPE" -> 128301
      [] name = "CRYSTAL BALL" -> 128302
      [] name = "SIX POINTED STAR WITH MIDDLE DOT" -> 128303
      [] name = "JAPANESE SYMBOL FOR BEGINNER" -> 128304
      [] name = "TRIDENT EMBLEM" -> 128305
      [] name = "BLACK SQUARE BUTTON" -> 128306
      [] name = "WHITE SQUARE BUTTON" -> 128307
      [] name = "LARGE RED CIRCLE" -> 128308
      [] name = "LARGE BLUE CIRCLE" -> 128309
      [] name = "LARGE ORANGE DIAMOND" -> 128310
      [] name = "LARGE BLUE DIAMOND" -> 128311
      [] name = "SMALL ORANGE DIAMOND" -> 128312
      [] name = "SMALL BLUE DIAMOND" -> 128313
      [] name = "UP-POINTING RED TRIANGLE" -> 128314
      [] name = "DOWN-POINTING RED TRIANGLE" -> 128315
      [] name = "UP-POINTING SMALL RED TRIANGLE" -> 128316
      [] name = "DOWN-POINTING SMALL RED TRIANGLE" -> 128317
      [] name = "LOWER RIGHT SHADOWED WHITE CIRCLE" -> 128318
      [] name = "UPPER RIGHT SHADOWED WHITE CIRCLE" -> 128319
      [] name = "CIRCLED CROSS POMMEE" -> 128320
      [] name = "CROSS POMMEE WITH HALF-CIRCLE BELOW" -> 128321
      [] name = "CROSS POMMEE" -> 128322
      [] name = "NOTCHED LEFT SEMICIRCLE WITH THREE DOTS" -> 128323
      [] name = "NOTCHED RIGHT SEMICIRCLE WITH THREE DOTS" -> 128324
      [] name = "SYMBOL FOR MARKS CHAPTER" -> 128325
      [] name = "WHITE LATIN CROSS" -> 128326
      [] name = "HEAVY LATIN CROSS" -> 128327
      [] name = "CELTIC CROSS" -> 128328
      [] name = "OM SYMBOL" -> 128329
      [] name = "DOVE OF PEACE" -> 128330
      [] name = "KAABA" -> 128331
      [] name = "MOSQUE" -> 128332
      [] name = "SYNAGOGUE" -> 128333
      [] name = "MENORAH WITH NINE BRANCHES" -> 128334
      [] name = "BOWL OF HYGIEIA" -> 128335
      [] name = "CLOCK FACE ONE OCLOCK" -> 128336
      [] name = "CLOCK FACE TWO OCLOCK" -> 128337
      [] name = "CLOCK FACE THREE OCLOCK" -> 128338
      [] name = "CLOCK FACE FOUR OCLOCK" -> 128339
      [] name = "CLOCK FACE FIVE OCLOCK" -> 128340
      [] name = "CLOCK FACE SIX OCLOCK" -> 128341
      [] name = "CLOCK FACE SEVEN OCLOCK" -> 128342
      [] name = "CLOCK FACE EIGHT OCLOCK" -> 128343
      [] name = "CLOCK FACE NINE OCLOCK" -> 128344
      [] name = "CLOCK FACE TEN OCLOCK" -> 128345
      [] name = "CLOCK FACE ELEVEN OCLOCK" -> 128346
      [] name = "CLOCK FACE TWELVE OCLOCK" -> 128347
      [] name = "CLOCK FACE ONE-THIRTY" -> 128348
      [] name = "CLOCK FACE TWO-THIRTY" -> 128349
      [] name = "CLOCK FACE THREE-THIRTY" -> 128350
      [] name = "CLOCK FACE FOUR-THIRTY" -> 128351
      [] name = "CLOCK FACE FIVE-THIRTY" -> 128352
      [] name = "CLOCK FACE SIX-THIRTY" -> 128353
      [] name = "CLOCK FACE SEVEN-THIRTY" -> 128354
      [] name = "CLOCK FACE EIGHT-THIRTY" -> 128355
      [] name = "CLOCK FACE NINE-THIRTY" -> 128356
      [] name = "CLOCK FACE TEN-THIRTY" -> 128357
      [] name = "CLOCK FACE ELEVEN-THIRTY" -> 128358
      [] name = "CLOCK FACE TWELVE-THIRTY" -> 128359
      [] name = "RIGHT SPEAKER" -> 128360
      [] name = "RIGHT SPEAKER WITH ONE SOUND WAVE" -> 128361
      [] name = "RIGHT SPEAKER WITH THREE SOUND WAVES" -> 128362
      [] name = "BULLHORN" -> 128363
      [] name = "BULLHORN WITH SOUND WAVES" -> 128364
      [] name = "RINGING BELL" -> 128365
      [] name = "BOOK" -> 128366
      [] name = "CANDLE" -> 128367
      [] name = "MANTELPIECE CLOCK" -> 128368
      [] name = "BLACK SKULL AND CROSSBONES" -> 128369
      [] name = "NO PIRACY" -> 128370
      [] name = "HOLE" -> 128371
      [] name = "MAN IN BUSINESS SUIT LEVITATING" -> 128372
      [] name = "SLEUTH OR SPY" -> 128373
      [] name = "DARK SUNGLASSES" -> 128374
      [] name = "SPIDER" -> 128375
      [] name = "SPIDER WEB" -> 128376
      [] name = "JOYSTICK" -> 128377
      [] name = "MAN DANCING" -> 128378
      [] name = "LEFT HAND TELEPHONE RECEIVER" -> 128379
      [] name = "TELEPHONE RECEIVER WITH PAGE" -> 128380
      [] name = "RIGHT HAND TELEPHONE RECEIVER" -> 128381
      [] name = "WHITE TOUCHTONE TELEPHONE" -> 128382
      [] name = "BLACK TOUCHTONE TELEPHONE" -> 128383
      [] name = "TELEPHONE ON TOP OF MODEM" -> 128384
      [] name = "CLAMSHELL MOBILE PHONE" -> 128385
      [] name = "BACK OF ENVELOPE" -> 128386
      [] name = "STAMPED ENVELOPE" -> 128387
      [] name = "ENVELOPE WITH LIGHTNING" -> 128388
      [] name = "FLYING ENVELOPE" -> 128389
      [] name = "PEN OVER STAMPED ENVELOPE" -> 128390
      [] name = "LINKED PAPERCLIPS" -> 128391
      [] name = "BLACK PUSHPIN" -> 128392
      [] name = "LOWER LEFT PENCIL" -> 128393
      [] name = "LOWER LEFT BALLPOINT PEN" -> 128394
      [] name = "LOWER LEFT FOUNTAIN PEN" -> 128395
      [] name = "LOWER LEFT PAINTBRUSH" -> 128396
      [] name = "LOWER LEFT CRAYON" -> 128397
      [] name = "LEFT WRITING HAND" -> 128398
      [] name = "TURNED OK HAND SIGN" -> 128399
      [] name = "RAISED HAND WITH FINGERS SPLAYED" -> 128400
      [] name = "REVERSED RAISED HAND WITH FINGERS SPLAYED" -> 128401
      [] name = "REVERSED THUMBS UP SIGN" -> 128402
      [] name = "REVERSED THUMBS DOWN SIGN" -> 128403
      [] name = "REVERSED VICTORY HAND" -> 128404
      [] name = "REVERSED HAND WITH MIDDLE FINGER EXTENDED" -> 128405
      [] name = "RAISED HAND WITH PART BETWEEN MIDDLE AND RING FINGERS" -> 128406
      [] name = "WHITE DOWN POINTING LEFT HAND INDEX" -> 128407
      [] name = "SIDEWAYS WHITE LEFT POINTING INDEX" -> 128408
      [] name = "SIDEWAYS WHITE RIGHT POINTING INDEX" -> 128409
      [] name = "SIDEWAYS BLACK LEFT POINTING INDEX" -> 128410
      [] name = "SIDEWAYS BLACK RIGHT POINTING INDEX" -> 128411
      [] name = "BLACK LEFT POINTING BACKHAND INDEX" -> 128412
      [] name = "BLACK RIGHT POINTING BACKHAND INDEX" -> 128413
      [] name = "SIDEWAYS WHITE UP POINTING INDEX" -> 128414
      [] name = "SIDEWAYS WHITE DOWN POINTING INDEX" -> 128415
      [] name = "SIDEWAYS BLACK UP POINTING INDEX" -> 128416
      [] name = "SIDEWAYS BLACK DOWN POINTING INDEX" -> 128417
      [] name = "BLACK UP POINTING BACKHAND INDEX" -> 128418
      [] name = "BLACK DOWN POINTING BACKHAND INDEX" -> 128419
      [] name = "BLACK HEART" -> 128420
      [] name = "DESKTOP COMPUTER" -> 128421
      [] name = "KEYBOARD AND MOUSE" -> 128422
      [] name = "THREE NETWORKED COMPUTERS" -> 128423
      [] name = "PRINTER" -> 128424
      [] name = "POCKET CALCULATOR" -> 128425
      [] name = "BLACK HARD SHELL FLOPPY DISK" -> 128426
      [] name = "WHITE HARD SHELL FLOPPY DISK" -> 128427
      [] name = "SOFT SHELL FLOPPY DISK" -> 128428
      [] name = "TAPE CARTRIDGE" -> 128429
      [] name = "WIRED KEYBOARD" -> 128430
      [] name = "ONE BUTTON MOUSE" -> 128431
      [] name = "TWO BUTTON MOUSE" -> 128432
      [] name = "THREE BUTTON MOUSE" -> 128433
      [] name = "TRACKBALL" -> 128434
      [] name = "OLD PERSONAL COMPUTER" -> 128435
      [] name = "HARD DISK" -> 128436
      [] name = "SCREEN" -> 128437
      [] name = "PRINTER ICON" -> 128438
      [] name = "FAX ICON" -> 128439
      [] name = "OPTICAL DISC ICON" -> 128440
      [] name = "DOCUMENT WITH TEXT" -> 128441
      [] name = "DOCUMENT WITH TEXT AND PICTURE" -> 128442
      [] name = "DOCUMENT WITH PICTURE" -> 128443
      [] name = "FRAME WITH PICTURE" -> 128444
      [] name = "FRAME WITH TILES" -> 128445
      [] name = "FRAME WITH AN X" -> 128446
      [] name = "BLACK FOLDER" -> 128447
      [] name = "FOLDER" -> 128448
      [] name = "OPEN FOLDER" -> 128449
      [] name = "CARD INDEX DIVIDERS" -> 128450
      [] name = "CARD FILE BOX" -> 128451
      [] name = "FILE CABINET" -> 128452
      [] name = "EMPTY NOTE" -> 128453
      [] name = "EMPTY NOTE PAGE" -> 128454
      [] name = "EMPTY NOTE PAD" -> 128455
      [] name = "NOTE" -> 128456
      [] name = "NOTE PAGE" -> 128457
      [] name = "NOTE PAD" -> 128458
      [] name = "EMPTY DOCUMENT" -> 128459
      [] name = "EMPTY PAGE" -> 128460
      [] name = "EMPTY PAGES" -> 128461
      [] name = "DOCUMENT" -> 128462
      [] name = "PAGE" -> 128463
      [] name = "PAGES" -> 128464
      [] name = "WASTEBASKET" -> 128465
      [] name = "SPIRAL NOTE PAD" -> 128466
      [] name = "SPIRAL CALENDAR PAD" -> 128467
      [] name = "DESKTOP WINDOW" -> 128468
      [] name = "MINIMIZE" -> 128469
      [] name = "MAXIMIZE" -> 128470
      [] name = "OVERLAP" -> 128471
      [] name = "CLOCKWISE RIGHT AND LEFT SEMICIRCLE ARROWS" -> 128472
      [] name = "CANCELLATION X" -> 128473
      [] name = "INCREASE FONT SIZE SYMBOL" -> 128474
      [] name = "DECREASE FONT SIZE SYMBOL" -> 128475
      [] name = "COMPRESSION" -> 128476
      [] name = "OLD KEY" -> 128477
      [] name = "ROLLED-UP NEWSPAPER" -> 128478
      [] name = "PAGE WITH CIRCLED TEXT" -> 128479
      [] name = "STOCK CHART" -> 128480
      [] name = "DAGGER KNIFE" -> 128481
      [] name = "LIPS" -> 128482
      [] name = "SPEAKING HEAD IN SILHOUETTE" -> 128483
      [] name = "THREE RAYS ABOVE" -> 128484
      [] name = "THREE RAYS BELOW" -> 128485
      [] name = "THREE RAYS LEFT" -> 128486
      [] name = "THREE RAYS RIGHT" -> 128487
      [] name = "LEFT SPEECH BUBBLE" -> 128488
      [] name = "RIGHT SPEECH BUBBLE" -> 128489
      [] name = "TWO SPEECH BUBBLES" -> 128490
      [] name = "THREE SPEECH BUBBLES" -> 128491
      [] name = "LEFT THOUGHT BUBBLE" -> 128492
      [] name = "RIGHT THOUGHT BUBBLE" -> 128493
      [] name = "LEFT ANGER BUBBLE" -> 128494
      [] name = "RIGHT ANGER BUBBLE" -> 128495
      [] name = "MOOD BUBBLE" -> 128496
      [] name = "LIGHTNING MOOD BUBBLE" -> 128497
      [] name = "LIGHTNING MOOD" -> 128498
      [] name = "BALLOT BOX WITH BALLOT" -> 128499
      [] name = "BALLOT SCRIPT X" -> 128500
      [] name = "BALLOT BOX WITH SCRIPT X" -> 128501
      [] name = "BALLOT BOLD SCRIPT X" -> 128502
      [] name = "BALLOT BOX WITH BOLD SCRIPT X" -> 128503
      [] name = "LIGHT CHECK MARK" -> 128504
      [] name = "BALLOT BOX WITH BOLD CHECK" -> 128505
      [] name = "WORLD MAP" -> 128506
      [] name = "MOUNT FUJI" -> 128507
      [] name = "TOKYO TOWER" -> 128508
      [] name = "STATUE OF LIBERTY" -> 128509
      [] name = "SILHOUETTE OF JAPAN" -> 128510
      [] name = "MOYAI" -> 128511
      [] name = "GRINNING FACE" -> 128512
      [] name = "GRINNING FACE WITH SMILING EYES" -> 128513
      [] name = "FACE WITH TEARS OF JOY" -> 128514
      [] name = "SMILING FACE WITH OPEN MOUTH" -> 128515
      [] name = "SMILING FACE WITH OPEN MOUTH AND SMILING EYES" -> 128516
      [] name = "SMILING FACE WITH OPEN MOUTH AND COLD SWEAT" -> 128517
      [] name = "SMILING FACE WITH OPEN MOUTH AND TIGHTLY-CLOSED EYES" -> 128518
      [] name = "SMILING FACE WITH HALO" -> 128519
      [] name = "SMILING FACE WITH HORNS" -> 128520
      [] name = "WINKING FACE" -> 128521
      [] name = "SMILING FACE WITH SMILING EYES" -> 128522
      [] name = "FACE SAVOURING DELICIOUS FOOD" -> 128523
      [] name = "RELIEVED FACE" -> 128524
      [] name = "SMILING FACE WITH HEART-SHAPED EYES" -> 128525
      [] name = "SMILING FACE WITH SUNGLASSES" -> 128526
      [] name = "SMIRKING FACE" -> 128527
      [] name = "NEUTRAL FACE" -> 128528
      [] name = "EXPRESSIONLESS FACE" -> 128529
      [] name = "UNAMUSED FACE" -> 128530
      [] name = "FACE WITH COLD SWEAT" -> 128531
      [] name = "PENSIVE FACE" -> 128532
      [] name = "CONFUSED FACE" -> 128533
      [] name = "CONFOUNDED FACE" -> 128534
      [] name = "KISSING FACE" -> 128535
      [] name = "FACE THROWING A KISS" -> 128536
      [] name = "KISSING FACE WITH SMILING EYES" -> 128537
      [] name = "KISSING FACE WITH CLOSED EYES" -> 128538
      [] name = "FACE WITH STUCK-OUT TONGUE" -> 128539
      [] name = "FACE WITH STUCK-OUT TONGUE AND WINKING EYE" -> 128540
      [] name = "FACE WITH STUCK-OUT TONGUE AND TIGHTLY-CLOSED EYES" -> 128541
      [] name = "DISAPPOINTED FACE" -> 128542
      [] name = "WORRIED FACE" -> 128543
      [] name = "ANGRY FACE" -> 128544
      [] name = "POUTING FACE" -> 128545
      [] name = "CRYING FACE" -> 128546
      [] name = "PERSEVERING FACE" -> 128547
      [] name = "FACE WITH LOOK OF TRIUMPH" -> 128548
      [] name = "DISAPPOINTED BUT RELIEVED FACE" -> 128549
      [] name = "FROWNING FACE WITH OPEN MOUTH" -> 128550
      [] name = "ANGUISHED FACE" -> 128551
      [] name = "FEARFUL FACE" -> 128552
      [] name = "WEARY FACE" -> 128553
      [] name = "SLEEPY FACE" -> 128554
      [] name = "TIRED FACE" -> 128555
      [] name = "GRIMACING FACE" -> 128556
      [] name = "LOUDLY CRYING FACE" -> 128557
      [] name = "FACE WITH OPEN MOUTH" -> 128558
      [] name = "HUSHED FACE" -> 128559
      [] name = "FACE WITH OPEN MOUTH AND COLD SWEAT" -> 128560
      [] name = "FACE SCREAMING IN FEAR" -> 128561
      [] name = "ASTONISHED FACE" -> 128562
      [] name = "FLUSHED FACE" -> 128563
      [] name = "SLEEPING FACE" -> 128564
      [] name = "DIZZY FACE" -> 128565
      [] name = "FACE WITHOUT MOUTH" -> 128566
      [] name = "FACE WITH MEDICAL MASK" -> 128567
      [] name = "GRINNING CAT FACE WITH SMILING EYES" -> 128568
      [] name = "CAT FACE WITH TEARS OF JOY" -> 128569
      [] name = "SMILING CAT FACE WITH OPEN MOUTH" -> 128570
      [] name = "SMILING CAT FACE WITH HEART-SHAPED EYES" -> 128571
      [] name = "CAT FACE WITH WRY SMILE" -> 128572
      [] name = "KISSING CAT FACE WITH CLOSED EYES" -> 128573
      [] name = "POUTING CAT FACE" -> 128574
      [] name = "CRYING CAT FACE" -> 128575
      [] name = "WEARY CAT FACE" -> 128576
      [] name = "SLIGHTLY FROWNING FACE" -> 128577
      [] name = "SLIGHTLY SMILING FACE" -> 128578
      [] name = "UPSIDE-DOWN FACE" -> 128579
      [] name = "FACE WITH ROLLING EYES" -> 128580
      [] name = "FACE WITH NO GOOD GESTURE" -> 128581
      [] name = "FACE WITH OK GESTURE" -> 128582
      [] name = "PERSON BOWING DEEPLY" -> 128583
      [] name = "SEE-NO-EVIL MONKEY" -> 128584
      [] name = "HEAR-NO-EVIL MONKEY" -> 128585
      [] name = "SPEAK-NO-EVIL MONKEY" -> 128586
      [] name = "HAPPY PERSON RAISING ONE HAND" -> 128587
      [] name = "PERSON RAISING BOTH HANDS IN CELEBRATION" -> 128588
      [] name = "PERSON FROWNING" -> 128589
      [] name = "PERSON WITH POUTING FACE" -> 128590
      [] name = "PERSON WITH FOLDED HANDS" -> 128591
      [] name = "NORTH WEST POINTING LEAF" -> 128592
      [] name = "SOUTH WEST POINTING LEAF" -> 128593
      [] name = "NORTH EAST POINTING LEAF" -> 128594
      [] name = "SOUTH EAST POINTING LEAF" -> 128595
      [] name = "TURNED NORTH WEST POINTING LEAF" -> 128596
      [] name = "TURNED SOUTH WEST POINTING LEAF" -> 128597
      [] name = "TURNED NORTH EAST POINTING LEAF" -> 128598
      [] name = "TURNED SOUTH EAST POINTING LEAF" -> 128599
      [] name = "NORTH WEST POINTING VINE LEAF" -> 128600
      [] name = "SOUTH WEST POINTING VINE LEAF" -> 128601
      [] name = "NORTH EAST POINTING VINE LEAF" -> 128602
      [] name = "SOUTH EAST POINTING VINE LEAF" -> 128603
      [] name = "HEAVY NORTH WEST POINTING VINE LEAF" -> 128604
      [] name = "HEAVY SOUTH WEST POINTING VINE LEAF" -> 128605
      [] name = "HEAVY NORTH EAST POINTING VINE LEAF" -> 128606
      [] name = "HEAVY SOUTH EAST POINTING VINE LEAF" -> 128607
      [] name = "NORTH WEST POINTING BUD" -> 128608
      [] name = "SOUTH WEST POINTING BUD" -> 128609
      [] name = "NORTH EAST POINTING BUD" -> 128610
      [] name = "SOUTH EAST POINTING BUD" -> 128611
      [] name = "HEAVY NORTH WEST POINTING BUD" -> 128612
      [] name = "HEAVY SOUTH WEST POINTING BUD" -> 128613
      [] name = "HEAVY NORTH EAST POINTING BUD" -> 128614
      [] name = "HEAVY SOUTH EAST POINTING BUD" -> 128615
      [] name = "HOLLOW QUILT SQUARE ORNAMENT" -> 128616
      [] name = "HOLLOW QUILT SQUARE ORNAMENT IN BLACK SQUARE" -> 128617
      [] name = "SOLID QUILT SQUARE ORNAMENT" -> 128618
      [] name = "SOLID QUILT SQUARE ORNAMENT IN BLACK SQUARE" -> 128619
      [] name = "LEFTWARDS ROCKET" -> 128620
      [] name = "UPWARDS ROCKET" -> 128621
      [] name = "RIGHTWARDS ROCKET" -> 128622
      [] name = "DOWNWARDS ROCKET" -> 128623
      [] name = "SCRIPT LIGATURE ET ORNAMENT" -> 128624
      [] name = "HEAVY SCRIPT LIGATURE ET ORNAMENT" -> 128625
      [] name = "LIGATURE OPEN ET ORNAMENT" -> 128626
      [] name = "HEAVY LIGATURE OPEN ET ORNAMENT" -> 128627
      [] name = "HEAVY AMPERSAND ORNAMENT" -> 128628
      [] name = "SWASH AMPERSAND ORNAMENT" -> 128629
      [] name = "SANS-SERIF HEAVY DOUBLE TURNED COMMA QUOTATION MARK ORNAMENT" -> 128630
      [] name = "SANS-SERIF HEAVY DOUBLE COMMA QUOTATION MARK ORNAMENT" -> 128631
      [] name = "SANS-SERIF HEAVY LOW DOUBLE COMMA QUOTATION MARK ORNAMENT" -> 128632
      [] name = "HEAVY INTERROBANG ORNAMENT" -> 128633
      [] name = "SANS-SERIF INTERROBANG ORNAMENT" -> 128634
      [] name = "HEAVY SANS-SERIF INTERROBANG ORNAMENT" -> 128635
      [] name = "VERY HEAVY SOLIDUS" -> 128636
      [] name = "VERY HEAVY REVERSE SOLIDUS" -> 128637
      [] name = "CHECKER BOARD" -> 128638
      [] name = "REVERSE CHECKER BOARD" -> 128639
      [] name = "ROCKET" -> 128640
      [] name = "HELICOPTER" -> 128641
      [] name = "STEAM LOCOMOTIVE" -> 128642
      [] name = "RAILWAY CAR" -> 128643
      [] name = "HIGH-SPEED TRAIN" -> 128644
      [] name = "HIGH-SPEED TRAIN WITH BULLET NOSE" -> 128645
      [] name = "TRAIN" -> 128646
      [] name = "METRO" -> 128647
      [] name = "LIGHT RAIL" -> 128648
      [] name = "STATION" -> 128649
      [] name = "TRAM" -> 128650
      [] name = "TRAM CAR" -> 128651
      [] name = "BUS" -> 128652
      [] name = "ONCOMING BUS" -> 128653
      [] name = "TROLLEYBUS" -> 128654
      [] name = "BUS STOP" -> 128655
      [] name = "MINIBUS" -> 128656
      [] name = "AMBULANCE" -> 128657
      [] name = "FIRE ENGINE" -> 128658
      [] name = "POLICE CAR" -> 128659
      [] name = "ONCOMING POLICE CAR" -> 128660
      [] name = "TAXI" -> 128661
      [] name = "ONCOMING TAXI" -> 128662
      [] name = "AUTOMOBILE" -> 128663
      [] name = "ONCOMING AUTOMOBILE" -> 128664
      [] name = "RECREATIONAL VEHICLE" -> 128665
      [] name = "DELIVERY TRUCK" -> 128666
      [] name = "ARTICULATED LORRY" -> 128667
      [] name = "TRACTOR" -> 128668
      [] name = "MONORAIL" -> 128669
      [] name = "MOUNTAIN RAILWAY" -> 128670
      [] name = "SUSPENSION RAILWAY" -> 128671
      [] name = "MOUNTAIN CABLEWAY" -> 128672
      [] name = "AERIAL TRAMWAY" -> 128673
      [] name = "SHIP" -> 128674
      [] name = "ROWBOAT" -> 128675
      [] name = "SPEEDBOAT" -> 128676
      [] name = "HORIZONTAL TRAFFIC LIGHT" -> 128677
      [] name = "VERTICAL TRAFFIC LIGHT" -> 128678
      [] name = "CONSTRUCTION SIGN" -> 128679
      [] name = "POLICE CARS REVOLVING LIGHT" -> 128680
      [] name = "TRIANGULAR FLAG ON POST" -> 128681
      [] name = "DOOR" -> 128682
      [] name = "NO ENTRY SIGN" -> 128683
      [] name = "SMOKING SYMBOL" -> 128684
      [] name = "NO SMOKING SYMBOL" -> 128685
      [] name = "PUT LITTER IN ITS PLACE SYMBOL" -> 128686
      [] name = "DO NOT LITTER SYMBOL" -> 128687
      [] name = "POTABLE WATER SYMBOL" -> 128688
      [] name = "NON-POTABLE WATER SYMBOL" -> 128689
      [] name = "BICYCLE" -> 128690
      [] name = "NO BICYCLES" -> 128691
      [] name = "BICYCLIST" -> 128692
      [] name = "MOUNTAIN BICYCLIST" -> 128693
      [] name = "PEDESTRIAN" -> 128694
      [] name = "NO PEDESTRIANS" -> 128695
      [] name = "CHILDREN CROSSING" -> 128696
      [] name = "MENS SYMBOL" -> 128697
      [] name = "WOMENS SYMBOL" -> 128698
      [] name = "RESTROOM" -> 128699
      [] name = "BABY SYMBOL" -> 128700
      [] name = "TOILET" -> 128701
      [] name = "WATER CLOSET" -> 128702
      [] name = "SHOWER" -> 128703
      [] name = "BATH" -> 128704
      [] name = "BATHTUB" -> 128705
      [] name = "PASSPORT CONTROL" -> 128706
      [] name = "CUSTOMS" -> 128707
      [] name = "BAGGAGE CLAIM" -> 128708
      [] name = "LEFT LUGGAGE" -> 128709
      [] name = "TRIANGLE WITH ROUNDED CORNERS" -> 128710
      [] name = "PROHIBITED SIGN" -> 128711
      [] name = "CIRCLED INFORMATION SOURCE" -> 128712
      [] name = "BOYS SYMBOL" -> 128713
      [] name = "GIRLS SYMBOL" -> 128714
      [] name = "COUCH AND LAMP" -> 128715
      [] name = "SLEEPING ACCOMMODATION" -> 128716
      [] name = "SHOPPING BAGS" -> 128717
      [] name = "BELLHOP BELL" -> 128718
      [] name = "BED" -> 128719
      [] name = "PLACE OF WORSHIP" -> 128720
      [] name = "OCTAGONAL SIGN" -> 128721
      [] name = "SHOPPING TROLLEY" -> 128722
      [] name = "STUPA" -> 128723
      [] name = "PAGODA" -> 128724
      [] name = "HINDU TEMPLE" -> 128725
      [] name = "HUT" -> 128726
      [] name = "ELEVATOR" -> 128727
      [] name = "PLAYGROUND SLIDE" -> 128733
      [] name = "WHEEL" -> 128734
      [] name = "RING BUOY" -> 128735
      [] name = "HAMMER AND WRENCH" -> 128736
      [] name = "SHIELD" -> 128737
      [] name = "OIL DRUM" -> 128738
      [] name = "MOTORWAY" -> 128739
      [] name = "RAILWAY TRACK" -> 128740
      [] name = "MOTOR BOAT" -> 128741
      [] name = "UP-POINTING MILITARY AIRPLANE" -> 128742
      [] name = "UP-POINTING AIRPLANE" -> 128743
      [] name = "UP-POINTING SMALL AIRPLANE" -> 128744
      [] name = "SMALL AIRPLANE" -> 128745
      [] name = "NORTHEAST-POINTING AIRPLANE" -> 128746
      [] name = "AIRPLANE DEPARTURE" -> 128747
      [] name = "AIRPLANE ARRIVING" -> 128748
      [] name = "SATELLITE" -> 128752
      [] name = "ONCOMING FIRE ENGINE" -> 128753
      [] name = "DIESEL LOCOMOTIVE" -> 128754
      [] name = "PASSENGER SHIP" -> 128755
      [] name = "SCOOTER" -> 128756
      [] name = "MOTOR SCOOTER" -> 128757
      [] name = "CANOE" -> 128758
      [] name = "SLED" -> 128759
      [] name = "FLYING SAUCER" -> 128760
      [] name = "SKATEBOARD" -> 128761
      [] name = "AUTO RICKSHAW" -> 128762
      [] name = "PICKUP TRUCK" -> 128763
      [] name = "ROLLER SKATE" -> 128764
      [] name = "ALCHEMICAL SYMBOL FOR QUINTESSENCE" -> 128768
      [] name = "ALCHEMICAL SYMBOL FOR AIR" -> 128769
      [] name = "ALCHEMICAL SYMBOL FOR FIRE" -> 128770
      [] name = "ALCHEMICAL SYMBOL FOR EARTH" -> 128771
      [] name = "ALCHEMICAL SYMBOL FOR WATER" -> 128772
      [] name = "ALCHEMICAL SYMBOL FOR AQUAFORTIS" -> 128773
      [] name = "ALCHEMICAL SYMBOL FOR AQUA REGIA" -> 128774
      [] name = "ALCHEMICAL SYMBOL FOR AQUA REGIA-2" -> 128775
      [] name = "ALCHEMICAL SYMBOL FOR AQUA VITAE" -> 128776
      [] name = "ALCHEMICAL SYMBOL FOR AQUA VITAE-2" -> 128777
      [] name = "ALCHEMICAL SYMBOL FOR VINEGAR" -> 128778
      [] name = "ALCHEMICAL SYMBOL FOR VINEGAR-2" -> 128779
      [] name = "ALCHEMICAL SYMBOL FOR VINEGAR-3" -> 128780
      [] name = "ALCHEMICAL SYMBOL FOR SULFUR" -> 128781
      [] name = "ALCHEMICAL SYMBOL FOR PHILOSOPHERS SULFUR" -> 128782
      [] name = "ALCHEMICAL SYMBOL FOR BLACK SULFUR" -> 128783
      [] name = "ALCHEMICAL SYMBOL FOR MERCURY SUBLIMATE" -> 128784
      [] name = "ALCHEMICAL SYMBOL FOR MERCURY SUBLIMATE-2" -> 128785
      [] name = "ALCHEMICAL SYMBOL FOR MERCURY SUBLIMATE-3" -> 128786
      [] name = "ALCHEMICAL SYMBOL FOR CINNABAR" -> 128787
      [] name = "ALCHEMICAL SYMBOL FOR SALT" -> 128788
      [] name = "ALCHEMICAL SYMBOL FOR NITRE" -> 128789
      [] name = "ALCHEMICAL SYMBOL FOR VITRIOL" -> 128790
      [] name = "ALCHEMICAL SYMBOL FOR VITRIOL-2" -> 128791
      [] name = "ALCHEMICAL SYMBOL FOR ROCK SALT" -> 128792
      [] name = "ALCHEMICAL SYMBOL FOR ROCK SALT-2" -> 128793
      [] name = "ALCHEMICAL SYMBOL FOR GOLD" -> 128794
      [] name = "ALCHEMICAL SYMBOL FOR SILVER" -> 128795
      [] name = "ALCHEMICAL SYMBOL FOR IRON ORE" -> 128796
      [] name = "ALCHEMICAL SYMBOL FOR IRON ORE-2" -> 128797
      [] name = "ALCHEMICAL SYMBOL FOR CROCUS OF IRON" -> 128798
      [] name = "ALCHEMICAL SYMBOL FOR REGULUS OF IRON" -> 128799
      [] name = "ALCHEMICAL SYMBOL FOR COPPER ORE" -> 128800
      [] name = "ALCHEMICAL SYMBOL FOR IRON-COPPER ORE" -> 128801
      [] name = "ALCHEMICAL SYMBOL FOR SUBLIMATE OF COPPER" -> 128802
      [] name = "ALCHEMICAL SYMBOL FOR CROCUS OF COPPER" -> 128803
      [] name = "ALCHEMICAL SYMBOL FOR CROCUS OF COPPER-2" -> 128804
      [] name = "ALCHEMICAL SYMBOL FOR COPPER ANTIMONIATE" -> 128805
      [] name = "ALCHEMICAL SYMBOL FOR SALT OF COPPER ANTIMONIATE" -> 128806
      [] name = "ALCHEMICAL SYMBOL FOR SUBLIMATE OF SALT OF COPPER" -> 128807
      [] name = "ALCHEMICAL SYMBOL FOR VERDIGRIS" -> 128808
      [] name = "ALCHEMICAL SYMBOL FOR TIN ORE" -> 128809
      [] name = "ALCHEMICAL SYMBOL FOR LEAD ORE" -> 128810
      [] name = "ALCHEMICAL SYMBOL FOR ANTIMONY ORE" -> 128811
      [] name = "ALCHEMICAL SYMBOL FOR SUBLIMATE OF ANTIMONY" -> 128812
      [] name = "ALCHEMICAL SYMBOL FOR SALT OF ANTIMONY" -> 128813
      [] name = "ALCHEMICAL SYMBOL FOR SUBLIMATE OF SALT OF ANTIMONY" -> 128814
      [] name = "ALCHEMICAL SYMBOL FOR VINEGAR OF ANTIMONY" -> 128815
      [] name = "ALCHEMICAL SYMBOL FOR REGULUS OF ANTIMONY" -> 128816
      [] name = "ALCHEMICAL SYMBOL FOR REGULUS OF ANTIMONY-2" -> 128817
      [] name = "ALCHEMICAL SYMBOL FOR REGULUS" -> 128818
      [] name = "ALCHEMICAL SYMBOL FOR REGULUS-2" -> 128819
      [] name = "ALCHEMICAL SYMBOL FOR REGULUS-3" -> 128820
      [] name = "ALCHEMICAL SYMBOL FOR REGULUS-4" -> 128821
      [] name = "ALCHEMICAL SYMBOL FOR ALKALI" -> 128822
      [] name = "ALCHEMICAL SYMBOL FOR ALKALI-2" -> 128823
      [] name = "ALCHEMICAL SYMBOL FOR MARCASITE" -> 128824
      [] name = "ALCHEMICAL SYMBOL FOR SAL-AMMONIAC" -> 128825
      [] name = "ALCHEMICAL SYMBOL FOR ARSENIC" -> 128826
      [] name = "ALCHEMICAL SYMBOL FOR REALGAR" -> 128827
      [] name = "ALCHEMICAL SYMBOL FOR REALGAR-2" -> 128828
      [] name = "ALCHEMICAL SYMBOL FOR AURIPIGMENT" -> 128829
      [] name = "ALCHEMICAL SYMBOL FOR BISMUTH ORE" -> 128830
      [] name = "ALCHEMICAL SYMBOL FOR TARTAR" -> 128831
      [] name = "ALCHEMICAL SYMBOL FOR TARTAR-2" -> 128832
      [] name = "ALCHEMICAL SYMBOL FOR QUICK LIME" -> 128833
      [] name = "ALCHEMICAL SYMBOL FOR BORAX" -> 128834
      [] name = "ALCHEMICAL SYMBOL FOR BORAX-2" -> 128835
      [] name = "ALCHEMICAL SYMBOL FOR BORAX-3" -> 128836
      [] name = "ALCHEMICAL SYMBOL FOR ALUM" -> 128837
      [] name = "ALCHEMICAL SYMBOL FOR OIL" -> 128838
      [] name = "ALCHEMICAL SYMBOL FOR SPIRIT" -> 128839
      [] name = "ALCHEMICAL SYMBOL FOR TINCTURE" -> 128840
      [] name = "ALCHEMICAL SYMBOL FOR GUM" -> 128841
      [] name = "ALCHEMICAL SYMBOL FOR WAX" -> 128842
      [] name = "ALCHEMICAL SYMBOL FOR POWDER" -> 128843
      [] name = "ALCHEMICAL SYMBOL FOR CALX" -> 128844
      [] name = "ALCHEMICAL SYMBOL FOR TUTTY" -> 128845
      [] name = "ALCHEMICAL SYMBOL FOR CAPUT MORTUUM" -> 128846
      [] name = "ALCHEMICAL SYMBOL FOR SCEPTER OF JOVE" -> 128847
      [] name = "ALCHEMICAL SYMBOL FOR CADUCEUS" -> 128848
      [] name = "ALCHEMICAL SYMBOL FOR TRIDENT" -> 128849
      [] name = "ALCHEMICAL SYMBOL FOR STARRED TRIDENT" -> 128850
      [] name = "ALCHEMICAL SYMBOL FOR LODESTONE" -> 128851
      [] name = "ALCHEMICAL SYMBOL FOR SOAP" -> 128852
      [] name = "ALCHEMICAL SYMBOL FOR URINE" -> 128853
      [] name = "ALCHEMICAL SYMBOL FOR HORSE DUNG" -> 128854
      [] name = "ALCHEMICAL SYMBOL FOR ASHES" -> 128855
      [] name = "ALCHEMICAL SYMBOL FOR POT ASHES" -> 128856
      [] name = "ALCHEMICAL SYMBOL FOR BRICK" -> 128857
      [] name = "ALCHEMICAL SYMBOL FOR POWDERED BRICK" -> 128858
      [] name = "ALCHEMICAL SYMBOL FOR AMALGAM" -> 128859
      [] name = "ALCHEMICAL SYMBOL FOR STRATUM SUPER STRATUM" -> 128860
      [] name = "ALCHEMICAL SYMBOL FOR STRATUM SUPER STRATUM-2" -> 128861
      [] name = "ALCHEMICAL SYMBOL FOR SUBLIMATION" -> 128862
      [] name = "ALCHEMICAL SYMBOL FOR PRECIPITATE" -> 128863
      [] name = "ALCHEMICAL SYMBOL FOR DISTILL" -> 128864
      [] name = "ALCHEMICAL SYMBOL FOR DISSOLVE" -> 128865
      [] name = "ALCHEMICAL SYMBOL FOR DISSOLVE-2" -> 128866
      [] name = "ALCHEMICAL SYMBOL FOR PURIFY" -> 128867
      [] name = "ALCHEMICAL SYMBOL FOR PUTREFACTION" -> 128868
      [] name = "ALCHEMICAL SYMBOL FOR CRUCIBLE" -> 128869
      [] name = "ALCHEMICAL SYMBOL FOR CRUCIBLE-2" -> 128870
      [] name = "ALCHEMICAL SYMBOL FOR CRUCIBLE-3" -> 128871
      [] name = "ALCHEMICAL SYMBOL FOR CRUCIBLE-4" -> 128872
      [] name = "ALCHEMICAL SYMBOL FOR CRUCIBLE-5" -> 128873
      [] name = "ALCHEMICAL SYMBOL FOR ALEMBIC" -> 128874
      [] name = "ALCHEMICAL SYMBOL FOR BATH OF MARY" -> 128875
      [] name = "ALCHEMICAL SYMBOL FOR BATH OF VAPOURS" -> 128876
      [] name = "ALCHEMICAL SYMBOL FOR RETORT" -> 128877
      [] name = "ALCHEMICAL SYMBOL FOR HOUR" -> 128878
      [] name = "ALCHEMICAL SYMBOL FOR NIGHT" -> 128879
      [] name = "ALCHEMICAL SYMBOL FOR DAY-NIGHT" -> 128880
      [] name = "ALCHEMICAL SYMBOL FOR MONTH" -> 128881
      [] name = "ALCHEMICAL SYMBOL FOR HALF DRAM" -> 128882
      [] name = "ALCHEMICAL SYMBOL FOR HALF OUNCE" -> 128883
      [] name = "BLACK LEFT-POINTING ISOSCELES RIGHT TRIANGLE" -> 128896
      [] name = "BLACK UP-POINTING ISOSCELES RIGHT TRIANGLE" -> 128897
      [] name = "BLACK RIGHT-POINTING ISOSCELES RIGHT TRIANGLE" -> 128898
      [] name = "BLACK DOWN-POINTING ISOSCELES RIGHT TRIANGLE" -> 128899
      [] name = "BLACK SLIGHTLY SMALL CIRCLE" -> 128900
      [] name = "MEDIUM BOLD WHITE CIRCLE" -> 128901
      [] name = "BOLD WHITE CIRCLE" -> 128902
      [] name = "HEAVY WHITE CIRCLE" -> 128903
      [] name = "VERY HEAVY WHITE CIRCLE" -> 128904
      [] name = "EXTREMELY HEAVY WHITE CIRCLE" -> 128905
      [] name = "WHITE CIRCLE CONTAINING BLACK SMALL CIRCLE" -> 128906
      [] name = "ROUND TARGET" -> 128907
      [] name = "BLACK TINY SQUARE" -> 128908
      [] name = "BLACK SLIGHTLY SMALL SQUARE" -> 128909
      [] name = "LIGHT WHITE SQUARE" -> 128910
      [] name = "MEDIUM WHITE SQUARE" -> 128911
      [] name = "BOLD WHITE SQUARE" -> 128912
      [] name = "HEAVY WHITE SQUARE" -> 128913
      [] name = "VERY HEAVY WHITE SQUARE" -> 128914
      [] name = "EXTREMELY HEAVY WHITE SQUARE" -> 128915
      [] name = "WHITE SQUARE CONTAINING BLACK VERY SMALL SQUARE" -> 128916
      [] name = "WHITE SQUARE CONTAINING BLACK MEDIUM SQUARE" -> 128917
      [] name = "SQUARE TARGET" -> 128918
      [] name = "BLACK TINY DIAMOND" -> 128919
      [] name = "BLACK VERY SMALL DIAMOND" -> 128920
      [] name = "BLACK MEDIUM SMALL DIAMOND" -> 128921
      [] name = "WHITE DIAMOND CONTAINING BLACK VERY SMALL DIAMOND" -> 128922
      [] name = "WHITE DIAMOND CONTAINING BLACK MEDIUM DIAMOND" -> 128923
      [] name = "DIAMOND TARGET" -> 128924
      [] name = "BLACK TINY LOZENGE" -> 128925
      [] name = "BLACK VERY SMALL LOZENGE" -> 128926
      [] name = "BLACK MEDIUM SMALL LOZENGE" -> 128927
      [] name = "WHITE LOZENGE CONTAINING BLACK SMALL LOZENGE" -> 128928
      [] name = "THIN GREEK CROSS" -> 128929
      [] name = "LIGHT GREEK CROSS" -> 128930
      [] name = "MEDIUM GREEK CROSS" -> 128931
      [] name = "BOLD GREEK CROSS" -> 128932
      [] name = "VERY BOLD GREEK CROSS" -> 128933
      [] name = "VERY HEAVY GREEK CROSS" -> 128934
      [] name = "EXTREMELY HEAVY GREEK CROSS" -> 128935
      [] name = "THIN SALTIRE" -> 128936
      [] name = "LIGHT SALTIRE" -> 128937
      [] name = "MEDIUM SALTIRE" -> 128938
      [] name = "BOLD SALTIRE" -> 128939
      [] name = "HEAVY SALTIRE" -> 128940
      [] name = "VERY HEAVY SALTIRE" -> 128941
      [] name = "EXTREMELY HEAVY SALTIRE" -> 128942
      [] name = "LIGHT FIVE SPOKED ASTERISK" -> 128943
      [] name = "MEDIUM FIVE SPOKED ASTERISK" -> 128944
      [] name = "BOLD FIVE SPOKED ASTERISK" -> 128945
      [] name = "HEAVY FIVE SPOKED ASTERISK" -> 128946
      [] name = "VERY HEAVY FIVE SPOKED ASTERISK" -> 128947
      [] name = "EXTREMELY HEAVY FIVE SPOKED ASTERISK" -> 128948
      [] name = "LIGHT SIX SPOKED ASTERISK" -> 128949
      [] name = "MEDIUM SIX SPOKED ASTERISK" -> 128950
      [] name = "BOLD SIX SPOKED ASTERISK" -> 128951
      [] name = "HEAVY SIX SPOKED ASTERISK" -> 128952
      [] name = "VERY HEAVY SIX SPOKED ASTERISK" -> 128953
      [] name = "EXTREMELY HEAVY SIX SPOKED ASTERISK" -> 128954
      [] name = "LIGHT EIGHT SPOKED ASTERISK" -> 128955
      [] name = "MEDIUM EIGHT SPOKED ASTERISK" -> 128956
      [] name = "BOLD EIGHT SPOKED ASTERISK" -> 128957
      [] name = "HEAVY EIGHT SPOKED ASTERISK" -> 128958
      [] name = "VERY HEAVY EIGHT SPOKED ASTERISK" -> 128959
      [] name = "LIGHT THREE POINTED BLACK STAR" -> 128960
      [] name = "MEDIUM THREE POINTED BLACK STAR" -> 128961
      [] name = "THREE POINTED BLACK STAR" -> 128962
      [] name = "MEDIUM THREE POINTED PINWHEEL STAR" -> 128963
      [] name = "LIGHT FOUR POINTED BLACK STAR" -> 128964
      [] name = "MEDIUM FOUR POINTED BLACK STAR" -> 128965
      [] name = "FOUR POINTED BLACK STAR" -> 128966
      [] name = "MEDIUM FOUR POINTED PINWHEEL STAR" -> 128967
      [] name = "REVERSE LIGHT FOUR POINTED PINWHEEL STAR" -> 128968
      [] name = "LIGHT FIVE POINTED BLACK STAR" -> 128969
      [] name = "HEAVY FIVE POINTED BLACK STAR" -> 128970
      [] name = "MEDIUM SIX POINTED BLACK STAR" -> 128971
      [] name = "HEAVY SIX POINTED BLACK STAR" -> 128972
      [] name = "SIX POINTED PINWHEEL STAR" -> 128973
      [] name = "MEDIUM EIGHT POINTED BLACK STAR" -> 128974
      [] name = "HEAVY EIGHT POINTED BLACK STAR" -> 128975
      [] name = "VERY HEAVY EIGHT POINTED BLACK STAR" -> 128976
      [] name = "HEAVY EIGHT POINTED PINWHEEL STAR" -> 128977
      [] name = "LIGHT TWELVE POINTED BLACK STAR" -> 128978
      [] name = "HEAVY TWELVE POINTED BLACK STAR" -> 128979
      [] name = "HEAVY TWELVE POINTED PINWHEEL STAR" -> 128980
      [] name = "CIRCLED TRIANGLE" -> 128981
      [] name = "NEGATIVE CIRCLED TRIANGLE" -> 128982
      [] name = "CIRCLED SQUARE" -> 128983
      [] name = "NEGATIVE CIRCLED SQUARE" -> 128984
      [] name = "LARGE ORANGE CIRCLE" -> 128992
      [] name = "LARGE YELLOW CIRCLE" -> 128993
      [] name = "LARGE GREEN CIRCLE" -> 128994
      [] name = "LARGE PURPLE CIRCLE" -> 128995
      [] name = "LARGE BROWN CIRCLE" -> 128996
      [] name = "LARGE RED SQUARE" -> 128997
      [] name = "LARGE BLUE SQUARE" -> 128998
      [] name = "LARGE ORANGE SQUARE" -> 128999
      [] name = "LARGE YELLOW SQUARE" -> 129000
      [] name = "LARGE GREEN SQUARE" -> 129001
      [] name = "LARGE PURPLE SQUARE" -> 129002
      [] name = "LARGE BROWN SQUARE" -> 129003
      [] name = "HEAVY EQUALS SIGN" -> 129008
      [] name = "LEFTWARDS ARROW WITH SMALL TRIANGLE ARROWHEAD" -> 129024
      [] name = "UPWARDS ARROW WITH SMALL TRIANGLE ARROWHEAD" -> 129025
      [] name = "RIGHTWARDS ARROW WITH SMALL TRIANGLE ARROWHEAD" -> 129026
      [] name = "DOWNWARDS ARROW WITH SMALL TRIANGLE ARROWHEAD" -> 129027
      [] name = "LEFTWARDS ARROW WITH MEDIUM TRIANGLE ARROWHEAD" -> 129028
      [] name = "UPWARDS ARROW WITH MEDIUM TRIANGLE ARROWHEAD" -> 129029
      [] name = "RIGHTWARDS ARROW WITH MEDIUM TRIANGLE ARROWHEAD" -> 129030
      [] name = "DOWNWARDS ARROW WITH MEDIUM TRIANGLE ARROWHEAD" -> 129031
      [] name = "LEFTWARDS ARROW WITH LARGE TRIANGLE ARROWHEAD" -> 129032
      [] name = "UPWARDS ARROW WITH LARGE TRIANGLE ARROWHEAD" -> 129033
      [] name = "RIGHTWARDS ARROW WITH LARGE TRIANGLE ARROWHEAD" -> 129034
      [] name = "DOWNWARDS ARROW WITH LARGE TRIANGLE ARROWHEAD" -> 129035
      [] name = "LEFTWARDS ARROW WITH SMALL EQUILATERAL ARROWHEAD" -> 129040
      [] name = "UPWARDS ARROW WITH SMALL EQUILATERAL ARROWHEAD" -> 129041
      [] name = "RIGHTWARDS ARROW WITH SMALL EQUILATERAL ARROWHEAD" -> 129042
      [] name = "DOWNWARDS ARROW WITH SMALL EQUILATERAL ARROWHEAD" -> 129043
      [] name = "LEFTWARDS ARROW WITH EQUILATERAL ARROWHEAD" -> 129044
      [] name = "UPWARDS ARROW WITH EQUILATERAL ARROWHEAD" -> 129045
      [] name = "RIGHTWARDS ARROW WITH EQUILATERAL ARROWHEAD" -> 129046
      [] name = "DOWNWARDS ARROW WITH EQUILATERAL ARROWHEAD" -> 129047
      [] name = "HEAVY LEFTWARDS ARROW WITH EQUILATERAL ARROWHEAD" -> 129048
      [] name = "HEAVY UPWARDS ARROW WITH EQUILATERAL ARROWHEAD" -> 129049
      [] name = "HEAVY RIGHTWARDS ARROW WITH EQUILATERAL ARROWHEAD" -> 129050
      [] name = "HEAVY DOWNWARDS ARROW WITH EQUILATERAL ARROWHEAD" -> 129051
      [] name = "HEAVY LEFTWARDS ARROW WITH LARGE EQUILATERAL ARROWHEAD" -> 129052
      [] name = "HEAVY UPWARDS ARROW WITH LARGE EQUILATERAL ARROWHEAD" -> 129053
      [] name = "HEAVY RIGHTWARDS ARROW WITH LARGE EQUILATERAL ARROWHEAD" -> 129054
      [] name = "HEAVY DOWNWARDS ARROW WITH LARGE EQUILATERAL ARROWHEAD" -> 129055
      [] name = "LEFTWARDS TRIANGLE-HEADED ARROW WITH NARROW SHAFT" -> 129056
      [] name = "UPWARDS TRIANGLE-HEADED ARROW WITH NARROW SHAFT" -> 129057
      [] name = "RIGHTWARDS TRIANGLE-HEADED ARROW WITH NARROW SHAFT" -> 129058
      [] name = "DOWNWARDS TRIANGLE-HEADED ARROW WITH NARROW SHAFT" -> 129059
      [] name = "LEFTWARDS TRIANGLE-HEADED ARROW WITH MEDIUM SHAFT" -> 129060
      [] name = "UPWARDS TRIANGLE-HEADED ARROW WITH MEDIUM SHAFT" -> 129061
      [] name = "RIGHTWARDS TRIANGLE-HEADED ARROW WITH MEDIUM SHAFT" -> 129062
      [] name = "DOWNWARDS TRIANGLE-HEADED ARROW WITH MEDIUM SHAFT" -> 129063
      [] name = "LEFTWARDS TRIANGLE-HEADED ARROW WITH BOLD SHAFT" -> 129064
      [] name = "UPWARDS TRIANGLE-HEADED ARROW WITH BOLD SHAFT" -> 129065
      [] name = "RIGHTWARDS TRIANGLE-HEADED ARROW WITH BOLD SHAFT" -> 129066
      [] name = "DOWNWARDS TRIANGLE-HEADED ARROW WITH BOLD SHAFT" -> 129067
      [] name = "LEFTWARDS TRIANGLE-HEADED ARROW WITH HEAVY SHAFT" -> 129068
      [] name = "UPWARDS TRIANGLE-HEADED ARROW WITH HEAVY SHAFT" -> 129069
      [] name = "RIGHTWARDS TRIANGLE-HEADED ARROW WITH HEAVY SHAFT" -> 129070
      [] name = "DOWNWARDS TRIANGLE-HEADED ARROW WITH HEAVY SHAFT" -> 129071
      [] name = "LEFTWARDS TRIANGLE-HEADED ARROW WITH VERY HEAVY SHAFT" -> 129072
      [] name = "UPWARDS TRIANGLE-HEADED ARROW WITH VERY HEAVY SHAFT" -> 129073
      [] name = "RIGHTWARDS TRIANGLE-HEADED ARROW WITH VERY HEAVY SHAFT" -> 129074
      [] name = "DOWNWARDS TRIANGLE-HEADED ARROW WITH VERY HEAVY SHAFT" -> 129075
      [] name = "LEFTWARDS FINGER-POST ARROW" -> 129076
      [] name = "UPWARDS FINGER-POST ARROW" -> 129077
      [] name = "RIGHTWARDS FINGER-POST ARROW" -> 129078
      [] name = "DOWNWARDS FINGER-POST ARROW" -> 129079
      [] name = "LEFTWARDS SQUARED ARROW" -> 129080
      [] name = "UPWARDS SQUARED ARROW" -> 129081
      [] name = "RIGHTWARDS SQUARED ARROW" -> 129082
      [] name = "DOWNWARDS SQUARED ARROW" -> 129083
      [] name = "LEFTWARDS COMPRESSED ARROW" -> 129084
      [] name = "UPWARDS COMPRESSED ARROW" -> 129085
      [] name = "RIGHTWARDS COMPRESSED ARROW" -> 129086
      [] name = "DOWNWARDS COMPRESSED ARROW" -> 129087
      [] name = "LEFTWARDS HEAVY COMPRESSED ARROW" -> 129088
      [] name = "UPWARDS HEAVY COMPRESSED ARROW" -> 129089
      [] name = "RIGHTWARDS HEAVY COMPRESSED ARROW" -> 129090
      [] name = "DOWNWARDS HEAVY COMPRESSED ARROW" -> 129091
      [] name = "LEFTWARDS HEAVY ARROW" -> 129092
      [] name = "UPWARDS HEAVY ARROW" -> 129093
      [] name = "RIGHTWARDS HEAVY ARROW" -> 129094
      [] name = "DOWNWARDS HEAVY ARROW" -> 129095
      [] name = "LEFTWARDS SANS-SERIF ARROW" -> 129104
      [] name = "UPWARDS SANS-SERIF ARROW" -> 129105
      [] name = "RIGHTWARDS SANS-SERIF ARROW" -> 129106
      [] name = "DOWNWARDS SANS-SERIF ARROW" -> 129107
      [] name = "NORTH WEST SANS-SERIF ARROW" -> 129108
      [] name = "NORTH EAST SANS-SERIF ARROW" -> 129109
      [] name = "SOUTH EAST SANS-SERIF ARROW" -> 129110
      [] name = "SOUTH WEST SANS-SERIF ARROW" -> 129111
      [] name = "LEFT RIGHT SANS-SERIF ARROW" -> 129112
      [] name = "UP DOWN SANS-SERIF ARROW" -> 129113
      [] name = "WIDE-HEADED LEFTWARDS LIGHT BARB ARROW" -> 129120
      [] name = "WIDE-HEADED UPWARDS LIGHT BARB ARROW" -> 129121
      [] name = "WIDE-HEADED RIGHTWARDS LIGHT BARB ARROW" -> 129122
      [] name = "WIDE-HEADED DOWNWARDS LIGHT BARB ARROW" -> 129123
      [] name = "WIDE-HEADED NORTH WEST LIGHT BARB ARROW" -> 129124
      [] name = "WIDE-HEADED NORTH EAST LIGHT BARB ARROW" -> 129125
      [] name = "WIDE-HEADED SOUTH EAST LIGHT BARB ARROW" -> 129126
      [] name = "WIDE-HEADED SOUTH WEST LIGHT BARB ARROW" -> 129127
      [] name = "WIDE-HEADED LEFTWARDS BARB ARROW" -> 129128
      [] name = "WIDE-HEADED UPWARDS BARB ARROW" -> 129129
      [] name = "WIDE-HEADED RIGHTWARDS BARB ARROW" -> 129130
      [] name = "WIDE-HEADED DOWNWARDS BARB ARROW" -> 129131
      [] name = "WIDE-HEADED NORTH WEST BARB ARROW" -> 129132
      [] name = "WIDE-HEADED NORTH EAST BARB ARROW" -> 129133
      [] name = "WIDE-HEADED SOUTH EAST BARB ARROW" -> 129134
      [] name = "WIDE-HEADED SOUTH WEST BARB ARROW" -> 129135
      [] name = "WIDE-HEADED LEFTWARDS MEDIUM BARB ARROW" -> 129136
      [] name = "WIDE-HEADED UPWARDS MEDIUM BARB ARROW" -> 129137
      [] name = "WIDE-HEADED RIGHTWARDS MEDIUM BARB ARROW" -> 129138
      [] name = "WIDE-HEADED DOWNWARDS MEDIUM BARB ARROW" -> 129139
      [] name = "WIDE-HEADED NORTH WEST MEDIUM BARB ARROW" -> 129140
      [] name = "WIDE-HEADED NORTH EAST MEDIUM BARB ARROW" -> 129141
      [] name = "WIDE-HEADED SOUTH EAST MEDIUM BARB ARROW" -> 129142
      [] name = "WIDE-HEADED SOUTH WEST MEDIUM BARB ARROW" -> 129143
      [] name = "WIDE-HEADED LEFTWARDS HEAVY BARB ARROW" -> 129144
      [] name = "WIDE-HEADED UPWARDS HEAVY BARB ARROW" -> 129145
      [] name = "WIDE-HEADED RIGHTWARDS HEAVY BARB ARROW" -> 129146
      [] name = "WIDE-HEADED DOWNWARDS HEAVY BARB ARROW" -> 129147
      [] name = "WIDE-HEADED NORTH WEST HEAVY BARB ARROW" -> 129148
      [] name = "WIDE-HEADED NORTH EAST HEAVY BARB ARROW" -> 129149
      [] name = "WIDE-HEADED SOUTH EAST HEAVY BARB ARROW" -> 129150
      [] name = "WIDE-HEADED SOUTH WEST HEAVY BARB ARROW" -> 129151
      [] name = "WIDE-HEADED LEFTWARDS VERY HEAVY BARB ARROW" -> 129152
      [] name = "WIDE-HEADED UPWARDS VERY HEAVY BARB ARROW" -> 129153
      [] name = "WIDE-HEADED RIGHTWARDS VERY HEAVY BARB ARROW" -> 129154
      [] name = "WIDE-HEADED DOWNWARDS VERY HEAVY BARB ARROW" -> 129155
      [] name = "WIDE-HEADED NORTH WEST VERY HEAVY BARB ARROW" -> 129156
      [] name = "WIDE-HEADED NORTH EAST VERY HEAVY BARB ARROW" -> 129157
      [] name = "WIDE-HEADED SOUTH EAST VERY HEAVY BARB ARROW" -> 129158
      [] name = "WIDE-HEADED SOUTH WEST VERY HEAVY BARB ARROW" -> 129159
      [] name = "LEFTWARDS TRIANGLE ARROWHEAD" -> 129168
      [] name = "UPWARDS TRIANGLE ARROWHEAD" -> 129169
      [] name = "RIGHTWARDS TRIANGLE ARROWHEAD" -> 129170
      [] name = "DOWNWARDS TRIANGLE ARROWHEAD" -> 129171
      [] name = "LEFTWARDS WHITE ARROW WITHIN TRIANGLE ARROWHEAD" -> 129172
      [] name = "UPWARDS WHITE ARROW WITHIN TRIANGLE ARROWHEAD" -> 129173
      [] name = "RIGHTWARDS WHITE ARROW WITHIN TRIANGLE ARROWHEAD" -> 129174
      [] name = "DOWNWARDS WHITE ARROW WITHIN TRIANGLE ARROWHEAD" -> 129175
      [] name = "LEFTWARDS ARROW WITH NOTCHED TAIL" -> 129176
      [] name = "UPWARDS ARROW WITH NOTCHED TAIL" -> 129177
      [] name = "RIGHTWARDS ARROW WITH NOTCHED TAIL" -> 129178
      [] name = "DOWNWARDS ARROW WITH NOTCHED TAIL" -> 129179
      [] name = "HEAVY ARROW SHAFT WIDTH ONE" -> 129180
      [] name = "HEAVY ARROW SHAFT WIDTH TWO THIRDS" -> 129181
      [] name = "HEAVY ARROW SHAFT WIDTH ONE HALF" -> 129182
      [] name = "HEAVY ARROW SHAFT WIDTH ONE THIRD" -> 129183
      [] name = "LEFTWARDS BOTTOM-SHADED WHITE ARROW" -> 129184
      [] name = "RIGHTWARDS BOTTOM SHADED WHITE ARROW" -> 129185
      [] name = "LEFTWARDS TOP SHADED WHITE ARROW" -> 129186
      [] name = "RIGHTWARDS TOP SHADED WHITE ARROW" -> 129187
      [] name = "LEFTWARDS LEFT-SHADED WHITE ARROW" -> 129188
      [] name = "RIGHTWARDS RIGHT-SHADED WHITE ARROW" -> 129189
      [] name = "LEFTWARDS RIGHT-SHADED WHITE ARROW" -> 129190
      [] name = "RIGHTWARDS LEFT-SHADED WHITE ARROW" -> 129191
      [] name = "LEFTWARDS BACK-TILTED SHADOWED WHITE ARROW" -> 129192
      [] name = "RIGHTWARDS BACK-TILTED SHADOWED WHITE ARROW" -> 129193
      [] name = "LEFTWARDS FRONT-TILTED SHADOWED WHITE ARROW" -> 129194
      [] name = "RIGHTWARDS FRONT-TILTED SHADOWED WHITE ARROW" -> 129195
      [] name = "WHITE ARROW SHAFT WIDTH ONE" -> 129196
      [] name = "WHITE ARROW SHAFT WIDTH TWO THIRDS" -> 129197
      [] name = "ARROW POINTING UPWARDS THEN NORTH WEST" -> 129200
      [] name = "ARROW POINTING RIGHTWARDS THEN CURVING SOUTH WEST" -> 129201
      [] name = "CIRCLED CROSS FORMEE WITH FOUR DOTS" -> 129280
      [] name = "CIRCLED CROSS FORMEE WITH TWO DOTS" -> 129281
      [] name = "CIRCLED CROSS FORMEE" -> 129282
      [] name = "LEFT HALF CIRCLE WITH FOUR DOTS" -> 129283
      [] name = "LEFT HALF CIRCLE WITH THREE DOTS" -> 129284
      [] name = "LEFT HALF CIRCLE WITH TWO DOTS" -> 129285
      [] name = "LEFT HALF CIRCLE WITH DOT" -> 129286
      [] name = "LEFT HALF CIRCLE" -> 129287
      [] name = "DOWNWARD FACING HOOK" -> 129288
      [] name = "DOWNWARD FACING NOTCHED HOOK" -> 129289
      [] name = "DOWNWARD FACING HOOK WITH DOT" -> 129290
      [] name = "DOWNWARD FACING NOTCHED HOOK WITH DOT" -> 129291
      [] name = "PINCHED FINGERS" -> 129292
      [] name = "WHITE HEART" -> 129293
      [] name = "BROWN HEART" -> 129294
      [] name = "PINCHING HAND" -> 129295
      [] name = "ZIPPER-MOUTH FACE" -> 129296
      [] name = "MONEY-MOUTH FACE" -> 129297
      [] name = "FACE WITH THERMOMETER" -> 129298
      [] name = "NERD FACE" -> 129299
      [] name = "THINKING FACE" -> 129300
      [] name = "FACE WITH HEAD-BANDAGE" -> 129301
      [] name = "ROBOT FACE" -> 129302
      [] name = "HUGGING FACE" -> 129303
      [] name = "SIGN OF THE HORNS" -> 129304
      [] name = "CALL ME HAND" -> 129305
      [] name = "RAISED BACK OF HAND" -> 129306
      [] name = "LEFT-FACING FIST" -> 129307
      [] name = "RIGHT-FACING FIST" -> 129308
      [] name = "HANDSHAKE" -> 129309
      [] name = "HAND WITH INDEX AND MIDDLE FINGERS CROSSED" -> 129310
      [] name = "I LOVE YOU HAND SIGN" -> 129311
      [] name = "FACE WITH COWBOY HAT" -> 129312
      [] name = "CLOWN FACE" -> 129313
      [] name = "NAUSEATED FACE" -> 129314
      [] name = "ROLLING ON THE FLOOR LAUGHING" -> 129315
      [] name = "DROOLING FACE" -> 129316
      [] name = "LYING FACE" -> 129317
      [] name = "FACE PALM" -> 129318
      [] name = "SNEEZING FACE" -> 129319
      [] name = "FACE WITH ONE EYEBROW RAISED" -> 129320
      [] name = "GRINNING FACE WITH STAR EYES" -> 129321
      [] name = "GRINNING FACE WITH ONE LARGE AND ONE SMALL EYE" -> 129322
      [] name = "FACE WITH FINGER COVERING CLOSED LIPS" -> 129323
      [] name = "SERIOUS FACE WITH SYMBOLS COVERING MOUTH" -> 129324
      [] name = "SMILING FACE WITH SMILING EYES AND HAND COVERING MOUTH" -> 129325
      [] name = "FACE WITH OPEN MOUTH VOMITING" -> 129326
      [] name = "SHOCKED FACE WITH EXPLODING HEAD" -> 129327
      [] name = "PREGNANT WOMAN" -> 129328
      [] name = "BREAST-FEEDING" -> 129329
      [] name = "PALMS UP TOGETHER" -> 129330
      [] name = "SELFIE" -> 129331
      [] name = "PRINCE" -> 129332
      [] name = "MAN IN TUXEDO" -> 129333
      [] name = "MOTHER CHRISTMAS" -> 129334
      [] name = "SHRUG" -> 129335
      [] name = "PERSON DOING CARTWHEEL" -> 129336
      [] name = "JUGGLING" -> 129337
      [] name = "FENCER" -> 129338
      [] name = "MODERN PENTATHLON" -> 129339
      [] name = "WRESTLERS" -> 129340
      [] name = "WATER POLO" -> 129341
      [] name = "HANDBALL" -> 129342
      [] name = "DIVING MASK" -> 129343
      [] name = "WILTED FLOWER" -> 129344
      [] name = "DRUM WITH DRUMSTICKS" -> 129345
      [] name = "CLINKING GLASSES" -> 129346
      [] name = "TUMBLER GLASS" -> 129347
      [] name = "SPOON" -> 129348
      [] name = "GOAL NET" -> 129349
      [] name = "RIFLE" -> 129350
      [] name = "FIRST PLACE MEDAL" -> 129351
      [] name = "SECOND PLACE MEDAL" -> 129352
      [] name = "THIRD PLACE MEDAL" -> 129353
      [] name = "BOXING GLOVE" -> 129354
      [] name = "MARTIAL ARTS UNIFORM" -> 129355
      [] name = "CURLING STONE" -> 129356
      [] name = "LACROSSE STICK AND BALL" -> 129357
      [] name = "SOFTBALL" -> 129358
      [] name = "FLYING DISC" -> 129359
      [] name = "CROISSANT" -> 129360
      [] name = "AVOCADO" -> 129361
      [] name = "CUCUMBER" -> 129362
      [] name = "BACON" -> 129363
      [] name = "POTATO" -> 129364
      [] name = "CARROT" -> 129365
      [] name = "BAGUETTE BREAD" -> 129366
      [] name = "GREEN SALAD" -> 129367
      [] name = "SHALLOW PAN OF FOOD" -> 129368
      [] name = "STUFFED FLATBREAD" -> 129369
      [] name = "EGG" -> 129370
      [] name = "GLASS OF MILK" -> 129371
      [] name = "PEANUTS" -> 129372
      [] name = "KIWIFRUIT" -> 129373
      [] name = "PANCAKES" -> 129374
      [] name = "DUMPLING" -> 129375
      [] name = "FORTUNE COOKIE" -> 129376
      [] name = "TAKEOUT BOX" -> 129377
      [] name = "CHOPSTICKS" -> 129378
      [] name = "BOWL WITH SPOON" -> 129379
      [] name = "CUP WITH STRAW" -> 129380
      [] name = "COCONUT" -> 129381
      [] name = "BROCCOLI" -> 129382
      [] name = "PIE" -> 129383
      [] name = "PRETZEL" -> 129384
      [] name = "CUT OF MEAT" -> 129385
      [] name = "SANDWICH" -> 129386
      [] name = "CANNED FOOD" -> 129387
      [] name = "LEAFY GREEN" -> 129388
      [] name = "MANGO" -> 129389
      [] name = "MOON CAKE" -> 129390
      [] name = "BAGEL" -> 129391
      [] name = "SMILING FACE WITH SMILING EYES AND THREE HEARTS" -> 129392
      [] name = "YAWNING FACE" -> 129393
      [] name = "SMILING FACE WITH TEAR" -> 129394
      [] name = "FACE WITH PARTY HORN AND PARTY HAT" -> 129395
      [] name = "FACE WITH UNEVEN EYES AND WAVY MOUTH" -> 129396
      [] name = "OVERHEATED FACE" -> 129397
      [] name = "FREEZING FACE" -> 129398
      [] name = "NINJA" -> 129399
      [] name = "DISGUISED FACE" -> 129400
      [] name = "FACE HOLDING BACK TEARS" -> 129401
      [] name = "FACE WITH PLEADING EYES" -> 129402
      [] name = "SARI" -> 129403
      [] name = "LAB COAT" -> 129404
      [] name = "GOGGLES" -> 129405
      [] name = "HIKING BOOT" -> 129406
      [] name = "FLAT SHOE" -> 129407
      [] name = "CRAB" -> 129408
      [] name = "LION FACE" -> 129409
      [] name = "SCORPION" -> 129410
      [] name = "TURKEY" -> 129411
      [] name = "UNICORN FACE" -> 129412
      [] name = "EAGLE" -> 129413
      [] name = "DUCK" -> 129414
      [] name = "BAT" -> 129415
      [] name = "SHARK" -> 129416
      [] name = "OWL" -> 129417
      [] name = "FOX FACE" -> 129418
      [] name = "BUTTERFLY" -> 129419
      [] name = "DEER" -> 129420
      [] name = "GORILLA" -> 129421
      [] name = "LIZARD" -> 129422
      [] name = "RHINOCEROS" -> 129423
      [] name = "SHRIMP" -> 129424
      [] name = "SQUID" -> 129425
      [] name = "GIRAFFE FACE" -> 129426
      [] name = "ZEBRA FACE" -> 129427
      [] name = "HEDGEHOG" -> 129428
      [] name = "SAUROPOD" -> 129429
      [] name = "T-REX" -> 129430
      [] name = "CRICKET" -> 129431
      [] name = "KANGAROO" -> 129432
      [] name = "LLAMA" -> 129433
      [] name = "PEACOCK" -> 129434
      [] name = "HIPPOPOTAMUS" -> 129435
      [] name = "PARROT" -> 129436
      [] name = "RACCOON" -> 129437
      [] name = "LOBSTER" -> 129438
      [] name = "MOSQUITO" -> 129439
      [] name = "MICROBE" -> 129440
      [] name = "BADGER" -> 129441
      [] name = "SWAN" -> 129442
      [] name = "MAMMOTH" -> 129443
      [] name = "DODO" -> 129444
      [] name = "SLOTH" -> 129445
      [] name = "OTTER" -> 129446
      [] name = "ORANGUTAN" -> 129447
      [] name = "SKUNK" -> 129448
      [] name = "FLAMINGO" -> 129449
      [] name = "OYSTER" -> 129450
      [] name = "BEAVER" -> 129451
      [] name = "BISON" -> 129452
      [] name = "SEAL" -> 129453
      [] name = "GUIDE DOG" -> 129454
      [] name = "PROBING CANE" -> 129455
      [] name = "EMOJI COMPONENT RED HAIR" -> 129456
      [] name = "EMOJI COMPONENT CURLY HAIR" -> 129457
      [] name = "EMOJI COMPONENT BALD" -> 129458
      [] name = "EMOJI COMPONENT WHITE HAIR" -> 129459
      [] name = "BONE" -> 129460
      [] name = "LEG" -> 129461
      [] name = "FOOT" -> 129462
      [] name = "TOOTH" -> 129463
      [] name = "SUPERHERO" -> 129464
      [] name = "SUPERVILLAIN" -> 129465
      [] name = "SAFETY VEST" -> 129466
      [] name = "EAR WITH HEARING AID" -> 129467
      [] name = "MOTORIZED WHEELCHAIR" -> 129468
      [] name = "MANUAL WHEELCHAIR" -> 129469
      [] name = "MECHANICAL ARM" -> 129470
      [] name = "MECHANICAL LEG" -> 129471
      [] name = "CHEESE WEDGE" -> 129472
      [] name = "CUPCAKE" -> 129473
      [] name = "SALT SHAKER" -> 129474
      [] name = "BEVERAGE BOX" -> 129475
      [] name = "GARLIC" -> 129476
      [] name = "ONION" -> 129477
      [] name = "FALAFEL" -> 129478
      [] name = "WAFFLE" -> 129479
      [] name = "BUTTER" -> 129480
      [] name = "MATE DRINK" -> 129481
      [] name = "ICE CUBE" -> 129482
      [] name = "BUBBLE TEA" -> 129483
      [] name = "TROLL" -> 129484
      [] name = "STANDING PERSON" -> 129485
      [] name = "KNEELING PERSON" -> 129486
      [] name = "DEAF PERSON" -> 129487
      [] name = "FACE WITH MONOCLE" -> 129488
      [] name = "ADULT" -> 129489
      [] name = "CHILD" -> 129490
      [] name = "OLDER ADULT" -> 129491
      [] name = "BEARDED PERSON" -> 129492
      [] name = "PERSON WITH HEADSCARF" -> 129493
      [] name = "PERSON IN STEAMY ROOM" -> 129494
      [] name = "PERSON CLIMBING" -> 129495
      [] name = "PERSON IN LOTUS POSITION" -> 129496
      [] name = "MAGE" -> 129497
      [] name = "FAIRY" -> 129498
      [] name = "VAMPIRE" -> 129499
      [] name = "MERPERSON" -> 129500
      [] name = "ELF" -> 129501
      [] name = "GENIE" -> 129502
      [] name = "ZOMBIE" -> 129503
      [] name = "BRAIN" -> 129504
      [] name = "ORANGE HEART" -> 129505
      [] name = "BILLED CAP" -> 129506
      [] name = "SCARF" -> 129507
      [] name = "GLOVES" -> 129508
      [] name = "COAT" -> 129509
      [] name = "SOCKS" -> 129510
      [] name = "RED GIFT ENVELOPE" -> 129511
      [] name = "FIRECRACKER" -> 129512
      [] name = "JIGSAW PUZZLE PIECE" -> 129513
      [] name = "TEST TUBE" -> 129514
      [] name = "PETRI DISH" -> 129515
      [] name = "DNA DOUBLE HELIX" -> 129516
      [] name = "COMPASS" -> 129517
      [] name = "ABACUS" -> 129518
      [] name = "FIRE EXTINGUISHER" -> 129519
      [] name = "TOOLBOX" -> 129520
      [] name = "BRICK" -> 129521
      [] name = "MAGNET" -> 129522
      [] name = "LUGGAGE" -> 129523
      [] name = "LOTION BOTTLE" -> 129524
      [] name = "SPOOL OF THREAD" -> 129525
      [] name = "BALL OF YARN" -> 129526
      [] name = "SAFETY PIN" -> 129527
      [] name = "TEDDY BEAR" -> 129528
      [] name = "BROOM" -> 129529
      [] name = "BASKET" -> 129530
      [] name = "ROLL OF PAPER" -> 129531
      [] name = "BAR OF SOAP" -> 129532
      [] name = "SPONGE" -> 129533
      [] name = "RECEIPT" -> 129534
      [] name = "NAZAR AMULET" -> 129535
      [] name = "NEUTRAL CHESS KING" -> 129536
      [] name = "NEUTRAL CHESS QUEEN" -> 129537
      [] name = "NEUTRAL CHESS ROOK" -> 129538
      [] name = "NEUTRAL CHESS BISHOP" -> 129539
      [] name = "NEUTRAL CHESS KNIGHT" -> 129540
      [] name = "NEUTRAL CHESS PAWN" -> 129541
      [] name = "WHITE CHESS KNIGHT ROTATED FORTY-FIVE DEGREES" -> 129542
      [] name = "BLACK CHESS KNIGHT ROTATED FORTY-FIVE DEGREES" -> 129543
      [] name = "NEUTRAL CHESS KNIGHT ROTATED FORTY-FIVE DEGREES" -> 129544
      [] name = "WHITE CHESS KING ROTATED NINETY DEGREES" -> 129545
      [] name = "WHITE CHESS QUEEN ROTATED NINETY DEGREES" -> 129546
      [] name = "WHITE CHESS ROOK ROTATED NINETY DEGREES" -> 129547
      [] name = "WHITE CHESS BISHOP ROTATED NINETY DEGREES" -> 129548
      [] name = "WHITE CHESS KNIGHT ROTATED NINETY DEGREES" -> 129549
      [] name = "WHITE CHESS PAWN ROTATED NINETY DEGREES" -> 129550
      [] name = "BLACK CHESS KING ROTATED NINETY DEGREES" -> 129551
      [] name = "BLACK CHESS QUEEN ROTATED NINETY DEGREES" -> 129552
      [] name = "BLACK CHESS ROOK ROTATED NINETY DEGREES" -> 129553
      [] name = "BLACK CHESS BISHOP ROTATED NINETY DEGREES" -> 129554
      [] name = "BLACK CHESS KNIGHT ROTATED NINETY DEGREES" -> 129555
      [] name = "BLACK CHESS PAWN ROTATED NINETY DEGREES" -> 129556
      [] name = "NEUTRAL CHESS KING ROTATED NINETY DEGREES" -> 129557
      [] name = "NEUTRAL CHESS QUEEN ROTATED NINETY DEGREES" -> 129558
      [] name = "NEUTRAL CHESS ROOK ROTATED NINETY DEGREES" -> 129559
      [] name = "NEUTRAL CHESS BISHOP ROTATED NINETY DEGREES" -> 129560
      [] name = "NEUTRAL CHESS KNIGHT ROTATED NINETY DEGREES" -> 129561
      [] name = "NEUTRAL CHESS PAWN ROTATED NINETY DEGREES" -> 129562
      [] name = "WHITE CHESS KNIGHT ROTATED ONE HUNDRED THIRTY-FIVE DEGREES" -> 129563
      [] name = "BLACK CHESS KNIGHT ROTATED ONE HUNDRED THIRTY-FIVE DEGREES" -> 129564
      [] name = "NEUTRAL CHESS KNIGHT ROTATED ONE HUNDRED THIRTY-FIVE DEGREES" -> 129565
      [] name = "WHITE CHESS TURNED KING" -> 129566
      [] name = "WHITE CHESS TURNED QUEEN" -> 129567
      [] name = "WHITE CHESS TURNED ROOK" -> 129568
      [] name = "WHITE CHESS TURNED BISHOP" -> 129569
      [] name = "WHITE CHESS TURNED KNIGHT" -> 129570
      [] name = "WHITE CHESS TURNED PAWN" -> 129571
      [] name = "BLACK CHESS TURNED KING" -> 129572
      [] name = "BLACK CHESS TURNED QUEEN" -> 129573
      [] name = "BLACK CHESS TURNED ROOK" -> 129574
      [] name = "BLACK CHESS TURNED BISHOP" -> 129575
      [] name = "BLACK CHESS TURNED KNIGHT" -> 129576
      [] name = "BLACK CHESS TURNED PAWN" -> 129577
      [] name = "NEUTRAL CHESS TURNED KING" -> 129578
      [] name = "NEUTRAL CHESS TURNED QUEEN" -> 129579
      [] name = "NEUTRAL CHESS TURNED ROOK" -> 129580
      [] name = "NEUTRAL CHESS TURNED BISHOP" -> 129581
      [] name = "NEUTRAL CHESS TURNED KNIGHT" -> 129582
      [] name = "NEUTRAL CHESS TURNED PAWN" -> 129583
      [] name = "WHITE CHESS KNIGHT ROTATED TWO HUNDRED TWENTY-FIVE DEGREES" -> 129584
      [] name = "BLACK CHESS KNIGHT ROTATED TWO HUNDRED TWENTY-FIVE DEGREES" -> 129585
      [] name = "NEUTRAL CHESS KNIGHT ROTATED TWO HUNDRED TWENTY-FIVE DEGREES" -> 129586
      [] name = "WHITE CHESS KING ROTATED TWO HUNDRED SEVENTY DEGREES" -> 129587
      [] name = "WHITE CHESS QUEEN ROTATED TWO HUNDRED SEVENTY DEGREES" -> 129588
      [] name = "WHITE CHESS ROOK ROTATED TWO HUNDRED SEVENTY DEGREES" -> 129589
      [] name = "WHITE CHESS BISHOP ROTATED TWO HUNDRED SEVENTY DEGREES" -> 129590
      [] name = "WHITE CHESS KNIGHT ROTATED TWO HUNDRED SEVENTY DEGREES" -> 129591
      [] name = "WHITE CHESS PAWN ROTATED TWO HUNDRED SEVENTY DEGREES" -> 129592
      [] name = "BLACK CHESS KING ROTATED TWO HUNDRED SEVENTY DEGREES" -> 129593
      [] name = "BLACK CHESS QUEEN ROTATED TWO HUNDRED SEVENTY DEGREES" -> 129594
      [] name = "BLACK CHESS ROOK ROTATED TWO HUNDRED SEVENTY DEGREES" -> 129595
      [] name = "BLACK CHESS BISHOP ROTATED TWO HUNDRED SEVENTY DEGREES" -> 129596
      [] name = "BLACK CHESS KNIGHT ROTATED TWO HUNDRED SEVENTY DEGREES" -> 129597
      [] name = "BLACK CHESS PAWN ROTATED TWO HUNDRED SEVENTY DEGREES" -> 129598
      [] name = "NEUTRAL CHESS KING ROTATED TWO HUNDRED SEVENTY DEGREES" -> 129599
      [] name = "NEUTRAL CHESS QUEEN ROTATED TWO HUNDRED SEVENTY DEGREES" -> 129600
      [] name = "NEUTRAL CHESS ROOK ROTATED TWO HUNDRED SEVENTY DEGREES" -> 129601
      [] name = "NEUTRAL CHESS BISHOP ROTATED TWO HUNDRED SEVENTY DEGREES" -> 129602
      [] name = "NEUTRAL CHESS KNIGHT ROTATED TWO HUNDRED SEVENTY DEGREES" -> 129603
      [] name = "NEUTRAL CHESS PAWN ROTATED TWO HUNDRED SEVENTY DEGREES" -> 129604
      [] name = "WHITE CHESS KNIGHT ROTATED THREE HUNDRED FIFTEEN DEGREES" -> 129605
      [] name = "BLACK CHESS KNIGHT ROTATED THREE HUNDRED FIFTEEN DEGREES" -> 129606
      [] name = "NEUTRAL CHESS KNIGHT ROTATED THREE HUNDRED FIFTEEN DEGREES" -> 129607
      [] name = "WHITE CHESS EQUIHOPPER" -> 129608
      [] name = "BLACK CHESS EQUIHOPPER" -> 129609
      [] name = "NEUTRAL CHESS EQUIHOPPER" -> 129610
      [] name = "WHITE CHESS EQUIHOPPER ROTATED NINETY DEGREES" -> 129611
      [] name = "BLACK CHESS EQUIHOPPER ROTATED NINETY DEGREES" -> 129612
      [] name = "NEUTRAL CHESS EQUIHOPPER ROTATED NINETY DEGREES" -> 129613
      [] name = "WHITE CHESS KNIGHT-QUEEN" -> 129614
      [] name = "WHITE CHESS KNIGHT-ROOK" -> 129615
      [] name = "WHITE CHESS KNIGHT-BISHOP" -> 129616
      [] name = "BLACK CHESS KNIGHT-QUEEN" -> 129617
      [] name = "BLACK CHESS KNIGHT-ROOK" -> 129618
      [] name = "BLACK CHESS KNIGHT-BISHOP" -> 129619
      [] name = "XIANGQI RED GENERAL" -> 129632
      [] name = "XIANGQI RED MANDARIN" -> 129633
      [] name = "XIANGQI RED ELEPHANT" -> 129634
      [] name = "XIANGQI RED HORSE" -> 129635
      [] name = "XIANGQI RED CHARIOT" -> 129636
      [] name = "XIANGQI RED CANNON" -> 129637
      [] name = "XIANGQI RED SOLDIER" -> 129638
      [] name = "XIANGQI BLACK GENERAL" -> 129639
      [] name = "XIANGQI BLACK MANDARIN" -> 129640
      [] name = "XIANGQI BLACK ELEPHANT" -> 129641
      [] name = "XIANGQI BLACK HORSE" -> 129642
      [] name = "XIANGQI BLACK CHARIOT" -> 129643
      [] name = "XIANGQI BLACK CANNON" -> 129644
      [] name = "XIANGQI BLACK SOLDIER" -> 129645
      [] name = "BALLET SHOES" -> 129648
      [] name = "ONE-PIECE SWIMSUIT" -> 129649
      [] name = "BRIEFS" -> 129650
      [] name = "SHORTS" -> 129651
      [] name = "THONG SANDAL" -> 129652
      [] name = "DROP OF BLOOD" -> 129656
      [] name = "ADHESIVE BANDAGE" -> 129657
      [] name = "STETHOSCOPE" -> 129658
      [] name = "X-RAY" -> 129659
      [] name = "CRUTCH" -> 129660
      [] name = "YO-YO" -> 129664
      [] name = "KITE" -> 129665
      [] name = "PARACHUTE" -> 129666
      [] name = "BOOMERANG" -> 129667
      [] name = "MAGIC WAND" -> 129668
      [] name = "PINATA" -> 129669
      [] name = "NESTING DOLLS" -> 129670
      [] name = "RINGED PLANET" -> 129680
      [] name = "CHAIR" -> 129681
      [] name = "RAZOR" -> 129682
      [] name = "AXE" -> 129683
      [] name = "DIYA LAMP" -> 129684
      [] name = "BANJO" -> 129685
      [] name = "MILITARY HELMET" -> 129686
      [] name = "ACCORDION" -> 129687
      [] name = "LONG DRUM" -> 129688
      [] name = "COIN" -> 129689
      [] name = "CARPENTRY SAW" -> 129690
      [] name = "SCREWDRIVER" -> 129691
      [] name = "LADDER" -> 129692
      [] name = "HOOK" -> 129693
      [] name = "MIRROR" -> 129694
      [] name = "WINDOW" -> 129695
      [] name = "PLUNGER" -> 129696
      [] name = "SEWING NEEDLE" -> 129697
      [] name = "KNOT" -> 129698
      [] name = "BUCKET" -> 129699
      [] name = "MOUSE TRAP" -> 129700
      [] name = "TOOTHBRUSH" -> 129701
      [] name = "HEADSTONE" -> 129702
      [] name = "PLACARD" -> 129703
      [] name = "ROCK" -> 129704
      [] name = "MIRROR BALL" -> 129705
      [] name = "IDENTIFICATION CARD" -> 129706
      [] name = "LOW BATTERY" -> 129707
      [] name = "HAMSA" -> 129708
      [] name = "FLY" -> 129712
      [] name = "WORM" -> 129713
      [] name = "BEETLE" -> 129714
      [] name = "COCKROACH" -> 129715
      [] name = "POTTED PLANT" -> 129716
      [] name = "WOOD" -> 129717
      [] name = "FEATHER" -> 129718
      [] name = "LOTUS" -> 129719
      [] name = "CORAL" -> 129720
      [] name = "EMPTY NEST" -> 129721
      [] name = "NEST WITH EGGS" -> 129722
      [] name = "ANATOMICAL HEART" -> 129728
      [] name = "LUNGS" -> 129729
      [] name = "PEOPLE HUGGING" -> 129730
      [] name = "PREGNANT MAN" -> 129731
      [] name = "PREGNANT PERSON" -> 129732
      [] name = "PERSON WITH CROWN" -> 129733
      [] name = "BLUEBERRIES" -> 129744
      [] name = "BELL PEPPER" -> 129745
      [] name = "OLIVE" -> 129746
      [] name = "FLATBREAD" -> 129747
      [] name = "TAMALE" -> 129748
      [] name = "FONDUE" -> 129749
      [] name = "TEAPOT" -> 129750
      [] name = "POURING LIQUID" -> 129751
      [] name = "BEANS" -> 129752
      [] name = "JAR" -> 129753
      [] name = "MELTING FACE" -> 129760
      [] name = "SALUTING FACE" -> 129761
      [] name = "FACE WITH OPEN EYES AND HAND OVER MOUTH" -> 129762
      [] name = "FACE WITH PEEKING EYE" -> 129763
      [] name = "FACE WITH DIAGONAL MOUTH" -> 129764
      [] name = "DOTTED LINE FACE" -> 129765
      [] name = "BITING LIP" -> 129766
      [] name = "BUBBLES" -> 129767
      [] name = "HAND WITH INDEX FINGER AND THUMB CROSSED" -> 129776
      [] name = "RIGHTWARDS HAND" -> 129777
      [] name = "LEFTWARDS HAND" -> 129778
      [] name = "PALM DOWN HAND" -> 129779
      [] name = "PALM UP HAND" -> 129780
      [] name = "INDEX POINTING AT THE VIEWER" -> 129781
      [] name = "HEART HANDS" -> 129782
      [] name = "BLOCK SEXTANT-1" -> 129792
      [] name = "BLOCK SEXTANT-2" -> 129793
      [] name = "BLOCK SEXTANT-12" -> 129794
      [] name = "BLOCK SEXTANT-3" -> 129795
      [] name = "BLOCK SEXTANT-13" -> 129796
      [] name = "BLOCK SEXTANT-23" -> 129797
      [] name = "BLOCK SEXTANT-123" -> 129798
      [] name = "BLOCK SEXTANT-4" -> 129799
      [] name = "BLOCK SEXTANT-14" -> 129800
      [] name = "BLOCK SEXTANT-24" -> 129801
      [] name = "BLOCK SEXTANT-124" -> 129802
      [] name = "BLOCK SEXTANT-34" -> 129803
      [] name = "BLOCK SEXTANT-134" -> 129804
      [] name = "BLOCK SEXTANT-234" -> 129805
      [] name = "BLOCK SEXTANT-1234" -> 129806
      [] name = "BLOCK SEXTANT-5" -> 129807
      [] name = "BLOCK SEXTANT-15" -> 129808
      [] name = "BLOCK SEXTANT-25" -> 129809
      [] name = "BLOCK SEXTANT-125" -> 129810
      [] name = "BLOCK SEXTANT-35" -> 129811
      [] name = "BLOCK SEXTANT-235" -> 129812
      [] name = "BLOCK SEXTANT-1235" -> 129813
      [] name = "BLOCK SEXTANT-45" -> 129814
      [] name = "BLOCK SEXTANT-145" -> 129815
      [] name = "BLOCK SEXTANT-245" -> 129816
      [] name = "BLOCK SEXTANT-1245" -> 129817
      [] name = "BLOCK SEXTANT-345" -> 129818
      [] name = "BLOCK SEXTANT-1345" -> 129819
      [] name = "BLOCK SEXTANT-2345" -> 129820
      [] name = "BLOCK SEXTANT-12345" -> 129821
      [] name = "BLOCK SEXTANT-6" -> 129822
      [] name = "BLOCK SEXTANT-16" -> 129823
      [] name = "BLOCK SEXTANT-26" -> 129824
      [] name = "BLOCK SEXTANT-126" -> 129825
      [] name = "BLOCK SEXTANT-36" -> 129826
      [] name = "BLOCK SEXTANT-136" -> 129827
      [] name = "BLOCK SEXTANT-236" -> 129828
      [] name = "BLOCK SEXTANT-1236" -> 129829
      [] name = "BLOCK SEXTANT-46" -> 129830
      [] name = "BLOCK SEXTANT-146" -> 129831
      [] name = "BLOCK SEXTANT-1246" -> 129832
      [] name = "BLOCK SEXTANT-346" -> 129833
      [] name = "BLOCK SEXTANT-1346" -> 129834
      [] name = "BLOCK SEXTANT-2346" -> 129835
      [] name = "BLOCK SEXTANT-12346" -> 129836
      [] name = "BLOCK SEXTANT-56" -> 129837
      [] name = "BLOCK SEXTANT-156" -> 129838
      [] name = "BLOCK SEXTANT-256" -> 129839
      [] name = "BLOCK SEXTANT-1256" -> 129840
      [] name = "BLOCK SEXTANT-356" -> 129841
      [] name = "BLOCK SEXTANT-1356" -> 129842
      [] name = "BLOCK SEXTANT-2356" -> 129843
      [] name = "BLOCK SEXTANT-12356" -> 129844
      [] name = "BLOCK SEXTANT-456" -> 129845
      [] name = "BLOCK SEXTANT-1456" -> 129846
      [] name = "BLOCK SEXTANT-2456" -> 129847
      [] name = "BLOCK SEXTANT-12456" -> 129848
      [] name = "BLOCK SEXTANT-3456" -> 129849
      [] name = "BLOCK SEXTANT-13456" -> 129850
      [] name = "BLOCK SEXTANT-23456" -> 129851
      [] name = "LOWER LEFT BLOCK DIAGONAL LOWER MIDDLE LEFT TO LOWER CENTRE" -> 129852
      [] name = "LOWER LEFT BLOCK DIAGONAL LOWER MIDDLE LEFT TO LOWER RIGHT" -> 129853
      [] name = "LOWER LEFT BLOCK DIAGONAL UPPER MIDDLE LEFT TO LOWER CENTRE" -> 129854
      [] name = "LOWER LEFT BLOCK DIAGONAL UPPER MIDDLE LEFT TO LOWER RIGHT" -> 129855
      [] name = "LOWER LEFT BLOCK DIAGONAL UPPER LEFT TO LOWER CENTRE" -> 129856
      [] name = "LOWER RIGHT BLOCK DIAGONAL UPPER MIDDLE LEFT TO UPPER CENTRE" -> 129857
      [] name = "LOWER RIGHT BLOCK DIAGONAL UPPER MIDDLE LEFT TO UPPER RIGHT" -> 129858
      [] name = "LOWER RIGHT BLOCK DIAGONAL LOWER MIDDLE LEFT TO UPPER CENTRE" -> 129859
      [] name = "LOWER RIGHT BLOCK DIAGONAL LOWER MIDDLE LEFT TO UPPER RIGHT" -> 129860
      [] name = "LOWER RIGHT BLOCK DIAGONAL LOWER LEFT TO UPPER CENTRE" -> 129861
      [] name = "LOWER RIGHT BLOCK DIAGONAL LOWER MIDDLE LEFT TO UPPER MIDDLE RIGHT" -> 129862
      [] name = "LOWER RIGHT BLOCK DIAGONAL LOWER CENTRE TO LOWER MIDDLE RIGHT" -> 129863
      [] name = "LOWER RIGHT BLOCK DIAGONAL LOWER LEFT TO LOWER MIDDLE RIGHT" -> 129864
      [] name = "LOWER RIGHT BLOCK DIAGONAL LOWER CENTRE TO UPPER MIDDLE RIGHT" -> 129865
      [] name = "LOWER RIGHT BLOCK DIAGONAL LOWER LEFT TO UPPER MIDDLE RIGHT" -> 129866
      [] name = "LOWER RIGHT BLOCK DIAGONAL LOWER CENTRE TO UPPER RIGHT" -> 129867
      [] name = "LOWER LEFT BLOCK DIAGONAL UPPER CENTRE TO UPPER MIDDLE RIGHT" -> 129868
      [] name = "LOWER LEFT BLOCK DIAGONAL UPPER LEFT TO UPPER MIDDLE RIGHT" -> 129869
      [] name = "LOWER LEFT BLOCK DIAGONAL UPPER CENTRE TO LOWER MIDDLE RIGHT" -> 129870
      [] name = "LOWER LEFT BLOCK DIAGONAL UPPER LEFT TO LOWER MIDDLE RIGHT" -> 129871
      [] name = "LOWER LEFT BLOCK DIAGONAL UPPER CENTRE TO LOWER RIGHT" -> 129872
      [] name = "LOWER LEFT BLOCK DIAGONAL UPPER MIDDLE LEFT TO LOWER MIDDLE RIGHT" -> 129873
      [] name = "UPPER RIGHT BLOCK DIAGONAL LOWER MIDDLE LEFT TO LOWER CENTRE" -> 129874
      [] name = "UPPER RIGHT BLOCK DIAGONAL LOWER MIDDLE LEFT TO LOWER RIGHT" -> 129875
      [] name = "UPPER RIGHT BLOCK DIAGONAL UPPER MIDDLE LEFT TO LOWER CENTRE" -> 129876
      [] name = "UPPER RIGHT BLOCK DIAGONAL UPPER MIDDLE LEFT TO LOWER RIGHT" -> 129877
      [] name = "UPPER RIGHT BLOCK DIAGONAL UPPER LEFT TO LOWER CENTRE" -> 129878
      [] name = "UPPER LEFT BLOCK DIAGONAL UPPER MIDDLE LEFT TO UPPER CENTRE" -> 129879
      [] name = "UPPER LEFT BLOCK DIAGONAL UPPER MIDDLE LEFT TO UPPER RIGHT" -> 129880
      [] name = "UPPER LEFT BLOCK DIAGONAL LOWER MIDDLE LEFT TO UPPER CENTRE" -> 129881
      [] name = "UPPER LEFT BLOCK DIAGONAL LOWER MIDDLE LEFT TO UPPER RIGHT" -> 129882
      [] name = "UPPER LEFT BLOCK DIAGONAL LOWER LEFT TO UPPER CENTRE" -> 129883
      [] name = "UPPER LEFT BLOCK DIAGONAL LOWER MIDDLE LEFT TO UPPER MIDDLE RIGHT" -> 129884
      [] name = "UPPER LEFT BLOCK DIAGONAL LOWER CENTRE TO LOWER MIDDLE RIGHT" -> 129885
      [] name = "UPPER LEFT BLOCK DIAGONAL LOWER LEFT TO LOWER MIDDLE RIGHT" -> 129886
      [] name = "UPPER LEFT BLOCK DIAGONAL LOWER CENTRE TO UPPER MIDDLE RIGHT" -> 129887
      [] name = "UPPER LEFT BLOCK DIAGONAL LOWER LEFT TO UPPER MIDDLE RIGHT" -> 129888
      [] name = "UPPER LEFT BLOCK DIAGONAL LOWER CENTRE TO UPPER RIGHT" -> 129889
      [] name = "UPPER RIGHT BLOCK DIAGONAL UPPER CENTRE TO UPPER MIDDLE RIGHT" -> 129890
      [] name = "UPPER RIGHT BLOCK DIAGONAL UPPER LEFT TO UPPER MIDDLE RIGHT" -> 129891
      [] name = "UPPER RIGHT BLOCK DIAGONAL UPPER CENTRE TO LOWER MIDDLE RIGHT" -> 129892
      [] name = "UPPER RIGHT BLOCK DIAGONAL UPPER LEFT TO LOWER MIDDLE RIGHT" -> 129893
      [] name = "UPPER RIGHT BLOCK DIAGONAL UPPER CENTRE TO LOWER RIGHT" -> 129894
      [] name = "UPPER RIGHT BLOCK DIAGONAL UPPER MIDDLE LEFT TO LOWER MIDDLE RIGHT" -> 129895
      [] name = "UPPER AND RIGHT AND LOWER TRIANGULAR THREE QUARTERS BLOCK" -> 129896
      [] name = "LEFT AND LOWER AND RIGHT TRIANGULAR THREE QUARTERS BLOCK" -> 129897
      [] name = "UPPER AND LEFT AND LOWER TRIANGULAR THREE QUARTERS BLOCK" -> 129898
      [] name = "LEFT AND UPPER AND RIGHT TRIANGULAR THREE QUARTERS BLOCK" -> 129899
      [] name = "LEFT TRIANGULAR ONE QUARTER BLOCK" -> 129900
      [] name = "UPPER TRIANGULAR ONE QUARTER BLOCK" -> 129901
      [] name = "RIGHT TRIANGULAR ONE QUARTER BLOCK" -> 129902
      [] name = "LOWER TRIANGULAR ONE QUARTER BLOCK" -> 129903
      [] name = "VERTICAL ONE EIGHTH BLOCK-2" -> 129904
      [] name = "VERTICAL ONE EIGHTH BLOCK-3" -> 129905
      [] name = "VERTICAL ONE EIGHTH BLOCK-4" -> 129906
      [] name = "VERTICAL ONE EIGHTH BLOCK-5" -> 129907
      [] name = "VERTICAL ONE EIGHTH BLOCK-6" -> 129908
      [] name = "VERTICAL ONE EIGHTH BLOCK-7" -> 129909
      [] name = "HORIZONTAL ONE EIGHTH BLOCK-2" -> 129910
      [] name = "HORIZONTAL ONE EIGHTH BLOCK-3" -> 129911
      [] name = "HORIZONTAL ONE EIGHTH BLOCK-4" -> 129912
      [] name = "HORIZONTAL ONE EIGHTH BLOCK-5" -> 129913
      [] name = "HORIZONTAL ONE EIGHTH BLOCK-6" -> 129914
      [] name = "HORIZONTAL ONE EIGHTH BLOCK-7" -> 129915
      [] name = "LEFT AND LOWER ONE EIGHTH BLOCK" -> 129916
      [] name = "LEFT AND UPPER ONE EIGHTH BLOCK" -> 129917
      [] name = "RIGHT AND UPPER ONE EIGHTH BLOCK" -> 129918
      [] name = "RIGHT AND LOWER ONE EIGHTH BLOCK" -> 129919
      [] name = "UPPER AND LOWER ONE EIGHTH BLOCK" -> 129920
      [] name = "HORIZONTAL ONE EIGHTH BLOCK-1358" -> 129921
      [] name = "UPPER ONE QUARTER BLOCK" -> 129922
      [] name = "UPPER THREE EIGHTHS BLOCK" -> 129923
      [] name = "UPPER FIVE EIGHTHS BLOCK" -> 129924
      [] name = "UPPER THREE QUARTERS BLOCK" -> 129925
      [] name = "UPPER SEVEN EIGHTHS BLOCK" -> 129926
      [] name = "RIGHT ONE QUARTER BLOCK" -> 129927
      [] name = "RIGHT THREE EIGHTHS BLOCK" -> 129928
      [] name = "RIGHT FIVE EIGHTHS BLOCK" -> 129929
      [] name = "RIGHT THREE QUARTERS BLOCK" -> 129930
      [] name = "RIGHT SEVEN EIGHTHS BLOCK" -> 129931
      [] name = "LEFT HALF MEDIUM SHADE" -> 129932
      [] name = "RIGHT HALF MEDIUM SHADE" -> 129933
      [] name = "UPPER HALF MEDIUM SHADE" -> 129934
      [] name = "LOWER HALF MEDIUM SHADE" -> 129935
      [] name = "INVERSE MEDIUM SHADE" -> 129936
      [] name = "UPPER HALF BLOCK AND LOWER HALF INVERSE MEDIUM SHADE" -> 129937
      [] name = "UPPER HALF INVERSE MEDIUM SHADE AND LOWER HALF BLOCK" -> 129938
      [] name = "LEFT HALF INVERSE MEDIUM SHADE AND RIGHT HALF BLOCK" -> 129940
      [] name = "CHECKER BOARD FILL" -> 129941
      [] name = "INVERSE CHECKER BOARD FILL" -> 129942
      [] name = "HEAVY HORIZONTAL FILL" -> 129943
      [] name = "UPPER LEFT TO LOWER RIGHT FILL" -> 129944
      [] name = "UPPER RIGHT TO LOWER LEFT FILL" -> 129945
      [] name = "UPPER AND LOWER TRIANGULAR HALF BLOCK" -> 129946
      [] name = "LEFT AND RIGHT TRIANGULAR HALF BLOCK" -> 129947
      [] name = "UPPER LEFT TRIANGULAR MEDIUM SHADE" -> 129948
      [] name = "UPPER RIGHT TRIANGULAR MEDIUM SHADE" -> 129949
      [] name = "LOWER RIGHT TRIANGULAR MEDIUM SHADE" -> 129950
      [] name = "LOWER LEFT TRIANGULAR MEDIUM SHADE" -> 129951
      [] name = "BOX DRAWINGS LIGHT DIAGONAL UPPER CENTRE TO MIDDLE LEFT" -> 129952
      [] name = "BOX DRAWINGS LIGHT DIAGONAL UPPER CENTRE TO MIDDLE RIGHT" -> 129953
      [] name = "BOX DRAWINGS LIGHT DIAGONAL MIDDLE LEFT TO LOWER CENTRE" -> 129954
      [] name = "BOX DRAWINGS LIGHT DIAGONAL MIDDLE RIGHT TO LOWER CENTRE" -> 129955
      [] name = "BOX DRAWINGS LIGHT DIAGONAL UPPER CENTRE TO MIDDLE LEFT TO LOWER CENTRE" -> 129956
      [] name = "BOX DRAWINGS LIGHT DIAGONAL UPPER CENTRE TO MIDDLE RIGHT TO LOWER CENTRE" -> 129957
      [] name = "BOX DRAWINGS LIGHT DIAGONAL MIDDLE LEFT TO LOWER CENTRE TO MIDDLE RIGHT" -> 129958
      [] name = "BOX DRAWINGS LIGHT DIAGONAL MIDDLE LEFT TO UPPER CENTRE TO MIDDLE RIGHT" -> 129959
      [] name = "BOX DRAWINGS LIGHT DIAGONAL UPPER CENTRE TO MIDDLE LEFT AND MIDDLE RIGHT TO LOWER CENTRE" -> 129960
      [] name = "BOX DRAWINGS LIGHT DIAGONAL UPPER CENTRE TO MIDDLE RIGHT AND MIDDLE LEFT TO LOWER CENTRE" -> 129961
      [] name = "BOX DRAWINGS LIGHT DIAGONAL UPPER CENTRE TO MIDDLE RIGHT TO LOWER CENTRE TO MIDDLE LEFT" -> 129962
      [] name = "BOX DRAWINGS LIGHT DIAGONAL UPPER CENTRE TO MIDDLE LEFT TO LOWER CENTRE TO MIDDLE RIGHT" -> 129963
      [] name = "BOX DRAWINGS LIGHT DIAGONAL MIDDLE LEFT TO UPPER CENTRE TO MIDDLE RIGHT TO LOWER CENTRE" -> 129964
      [] name = "BOX DRAWINGS LIGHT DIAGONAL MIDDLE RIGHT TO UPPER CENTRE TO MIDDLE LEFT TO LOWER CENTRE" -> 129965
      [] name = "BOX DRAWINGS LIGHT DIAGONAL DIAMOND" -> 129966
      [] name = "BOX DRAWINGS LIGHT HORIZONTAL WITH VERTICAL STROKE" -> 129967
      [] name = "ARROWHEAD-SHAPED POINTER" -> 129968
      [] name = "INVERSE CHECK MARK" -> 129969
      [] name = "LEFT HALF RUNNING MAN" -> 129970
      [] name = "RIGHT HALF RUNNING MAN" -> 129971
      [] name = "INVERSE DOWNWARDS ARROW WITH TIP LEFTWARDS" -> 129972
      [] name = "LEFTWARDS ARROW AND UPPER AND LOWER ONE EIGHTH BLOCK" -> 129973
      [] name = "RIGHTWARDS ARROW AND UPPER AND LOWER ONE EIGHTH BLOCK" -> 129974
      [] name = "DOWNWARDS ARROW AND RIGHT ONE EIGHTH BLOCK" -> 129975
      [] name = "UPWARDS ARROW AND RIGHT ONE EIGHTH BLOCK" -> 129976
      [] name = "LEFT HALF FOLDER" -> 129977
      [] name = "RIGHT HALF FOLDER" -> 129978
      [] name = "VOIDED GREEK CROSS" -> 129979
      [] name = "RIGHT OPEN SQUARED DOT" -> 129980
      [] name = "NEGATIVE DIAGONAL CROSS" -> 129981
      [] name = "NEGATIVE DIAGONAL MIDDLE RIGHT TO LOWER CENTRE" -> 129982
      [] name = "NEGATIVE DIAGONAL DIAMOND" -> 129983
      [] name = "WHITE HEAVY SALTIRE WITH ROUNDED CORNERS" -> 129984
      [] name = "LEFT THIRD WHITE RIGHT POINTING INDEX" -> 129985
      [] name = "MIDDLE THIRD WHITE RIGHT POINTING INDEX" -> 129986
      [] name = "RIGHT THIRD WHITE RIGHT POINTING INDEX" -> 129987
      [] name = "NEGATIVE SQUARED QUESTION MARK" -> 129988
      [] name = "STICK FIGURE" -> 129989
      [] name = "STICK FIGURE WITH ARMS RAISED" -> 129990
      [] name = "STICK FIGURE LEANING LEFT" -> 129991
      [] name = "STICK FIGURE LEANING RIGHT" -> 129992
      [] name = "STICK FIGURE WITH DRESS" -> 129993
      [] name = "WHITE UP-POINTING CHEVRON" -> 129994
      [] name = "SEGMENTED DIGIT ZERO" -> 130032
      [] name = "SEGMENTED DIGIT ONE" -> 130033
      [] name = "SEGMENTED DIGIT TWO" -> 130034
      [] name = "SEGMENTED DIGIT THREE" -> 130035
      [] name = "SEGMENTED DIGIT FOUR" -> 130036
      [] name = "SEGMENTED DIGIT FIVE" -> 130037
      [] name = "SEGMENTED DIGIT SIX" -> 130038
      [] name = "SEGMENTED DIGIT SEVEN" -> 130039
      [] name = "SEGMENTED DIGIT EIGHT" -> 130040
      [] name = "SEGMENTED DIGIT NINE" -> 130041
      [] name = "CJK COMPATIBILITY IDEOGRAPH-2F800" -> 194560
      [] name = "CJK COMPATIBILITY IDEOGRAPH-2F801" -> 194561
      [] name = "CJK COMPATIBILITY IDEOGRAPH-2F802" -> 194562
      [] name = "CJK COMPATIBILITY IDEOGRAPH-2F803" -> 194563
      [] name = "CJK COMPATIBILITY IDEOGRAPH-2F804" -> 194564
      [] name = "CJK COMPATIBILITY IDEOGRAPH-2F805" -> 194565
      [] name = "CJK COMPATIBILITY IDEOGRAPH-2F806" -> 194566
      [] name = "CJK COMPATIBILITY IDEOGRAPH-2F807" -> 194567
      [] name = "CJK COMPATIBILITY IDEOGRAPH-2F808" -> 194568
      [] name = "CJK COMPATIBILITY IDEOGRAPH-2F809" -> 194569
      [] name = "CJK COMPATIBILITY IDEOGRAPH-2F80A" -> 194570
      [] name = "CJK COMPATIBILITY IDEOGRAPH-2F80B" -> 194571
      [] name = "CJK COMPATIBILITY IDEOGRAPH-2F80C" -> 194572
      [] name = "CJK COMPATIBILITY IDEOGRAPH-2F80D" -> 194573
      [] name = "CJK COMPATIBILITY IDEOGRAPH-2F80E" -> 194574
      [] name = "CJK COMPATIBILITY IDEOGRAPH-2F80F" -> 194575
      [] name = "CJK COMPATIBILITY IDEOGRAPH-2F810" -> 194576
      [] name = "CJK COMPATIBILITY IDEOGRAPH-2F811" -> 194577
      [] name = "CJK COMPATIBILITY IDEOGRAPH-2F812" -> 194578
      [] name = "CJK COMPATIBILITY IDEOGRAPH-2F813" -> 194579
      [] name = "CJK COMPATIBILITY IDEOGRAPH-2F814" -> 194580
      [] name = "CJK COMPATIBILITY IDEOGRAPH-2F815" -> 194581
      [] name = "CJK COMPATIBILITY IDEOGRAPH-2F816" -> 194582
      [] name = "CJK COMPATIBILITY IDEOGRAPH-2F817" -> 194583
      [] name = "CJK COMPATIBILITY IDEOGRAPH-2F818" -> 194584
      [] name = "CJK COMPATIBILITY IDEOGRAPH-2F819" -> 194585
      [] name = "CJK COMPATIBILITY IDEOGRAPH-2F81A" -> 194586
      [] name = "CJK COMPATIBILITY IDEOGRAPH-2F81B" -> 194587
      [] name = "CJK COMPATIBILITY IDEOGRAPH-2F81C" -> 194588
      [] name = "CJK COMPATIBILITY IDEOGRAPH-2F81D" -> 194589
      [] name = "CJK COMPATIBILITY IDEOGRAPH-2F81E" -> 194590
      [] name = "CJK COMPATIBILITY IDEOGRAPH-2F81F" -> 194591
      [] name = "CJK COMPATIBILITY IDEOGRAPH-2F820" -> 194592
      [] name = "CJK COMPATIBILITY IDEOGRAPH-2F821" -> 194593
      [] name = "CJK COMPATIBILITY IDEOGRAPH-2F822" -> 194594
      [] name = "CJK COMPATIBILITY IDEOGRAPH-2F823" -> 194595
      [] name = "CJK COMPATIBILITY IDEOGRAPH-2F824" -> 194596
      [] name = "CJK COMPATIBILITY IDEOGRAPH-2F825" -> 194597
      [] name = "CJK COMPATIBILITY IDEOGRAPH-2F826" -> 194598
      [] name = "CJK COMPATIBILITY IDEOGRAPH-2F827" -> 194599
      [] name = "CJK COMPATIBILITY IDEOGRAPH-2F828" -> 194600
      [] name = "CJK COMPATIBILITY IDEOGRAPH-2F829" -> 194601
      [] name = "CJK COMPATIBILITY IDEOGRAPH-2F82A" -> 194602
      [] name = "CJK COMPATIBILITY IDEOGRAPH-2F82B" -> 194603
      [] name = "CJK COMPATIBILITY IDEOGRAPH-2F82C" -> 194604
      [] name = "CJK COMPATIBILITY IDEOGRAPH-2F82D" -> 194605
      [] name = "CJK COMPATIBILITY IDEOGRAPH-2F82E" -> 194606
      [] name = "CJK COMPATIBILITY IDEOGRAPH-2F82F" -> 194607
      [] name = "CJK COMPATIBILITY IDEOGRAPH-2F830" -> 194608
      [] name = "CJK COMPATIBILITY IDEOGRAPH-2F831" -> 194609
      [] name = "CJK COMPATIBILITY IDEOGRAPH-2F832" -> 194610
      [] name = "CJK COMPATIBILITY IDEOGRAPH-2F833" -> 194611
      [] name = "CJK COMPATIBILITY IDEOGRAPH-2F834" -> 194612
      [] name = "CJK COMPATIBILITY IDEOGRAPH-2F835" -> 194613
      [] name = "CJK COMPATIBILITY IDEOGRAPH-2F836" -> 194614
      [] name = "CJK COMPATIBILITY IDEOGRAPH-2F837" -> 194615
      [] name = "CJK COMPATIBILITY IDEOGRAPH-2F838" -> 194616
      [] name = "CJK COMPATIBILITY IDEOGRAPH-2F839" -> 194617
      [] name = "CJK COMPATIBILITY IDEOGRAPH-2F83A" -> 194618
      [] name = "CJK COMPATIBILITY IDEOGRAPH-2F83B" -> 194619
      [] name = "CJK COMPATIBILITY IDEOGRAPH-2F83C" -> 194620
      [] name = "CJK COMPATIBILITY IDEOGRAPH-2F83D" -> 194621
      [] name = "CJK COMPATIBILITY IDEOGRAPH-2F83E" -> 194622
      [] name = "CJK COMPATIBILITY IDEOGRAPH-2F83F" -> 194623
      [] name = "CJK COMPATIBILITY IDEOGRAPH-2F840" -> 194624
      [] name = "CJK COMPATIBILITY IDEOGRAPH-2F841" -> 194625
      [] name = "CJK COMPATIBILITY IDEOGRAPH-2F842" -> 194626
      [] name = "CJK COMPATIBILITY IDEOGRAPH-2F843" -> 194627
      [] name = "CJK COMPATIBILITY IDEOGRAPH-2F844" -> 194628
      [] name = "CJK COMPATIBILITY IDEOGRAPH-2F845" -> 194629
      [] name = "CJK COMPATIBILITY IDEOGRAPH-2F846" -> 194630
      [] name = "CJK COMPATIBILITY IDEOGRAPH-2F847" -> 194631
      [] name = "CJK COMPATIBILITY IDEOGRAPH-2F848" -> 194632
      [] name = "CJK COMPATIBILITY IDEOGRAPH-2F849" -> 194633
      [] name = "CJK COMPATIBILITY IDEOGRAPH-2F84A" -> 194634
      [] name = "CJK COMPATIBILITY IDEOGRAPH-2F84B" -> 194635
      [] name = "CJK COMPATIBILITY IDEOGRAPH-2F84C" -> 194636
      [] name = "CJK COMPATIBILITY IDEOGRAPH-2F84D" -> 194637
      [] name = "CJK COMPATIBILITY IDEOGRAPH-2F84E" -> 194638
      [] name = "CJK COMPATIBILITY IDEOGRAPH-2F84F" -> 194639
      [] name = "CJK COMPATIBILITY IDEOGRAPH-2F850" -> 194640
      [] name = "CJK COMPATIBILITY IDEOGRAPH-2F851" -> 194641
      [] name = "CJK COMPATIBILITY IDEOGRAPH-2F852" -> 194642
      [] name = "CJK COMPATIBILITY IDEOGRAPH-2F853" -> 194643
      [] name = "CJK COMPATIBILITY IDEOGRAPH-2F854" -> 194644
      [] name = "CJK COMPATIBILITY IDEOGRAPH-2F855" -> 194645
      [] name = "CJK COMPATIBILITY IDEOGRAPH-2F856" -> 194646
      [] name = "CJK COMPATIBILITY IDEOGRAPH-2F857" -> 194647
      [] name = "CJK COMPATIBILITY IDEOGRAPH-2F858" -> 194648
      [] name = "CJK COMPATIBILITY IDEOGRAPH-2F859" -> 194649
      [] name = "CJK COMPATIBILITY IDEOGRAPH-2F85A" -> 194650
      [] name = "CJK COMPATIBILITY IDEOGRAPH-2F85B" -> 194651
      [] name = "CJK COMPATIBILITY IDEOGRAPH-2F85C" -> 194652
      [] name = "CJK COMPATIBILITY IDEOGRAPH-2F85D" -> 194653
      [] name = "CJK COMPATIBILITY IDEOGRAPH-2F85E" -> 194654
      [] name = "CJK COMPATIBILITY IDEOGRAPH-2F85F" -> 194655
      [] name = "CJK COMPATIBILITY IDEOGRAPH-2F860" -> 194656
      [] name = "CJK COMPATIBILITY IDEOGRAPH-2F861" -> 194657
      [] name = "CJK COMPATIBILITY IDEOGRAPH-2F862" -> 194658
      [] name = "CJK COMPATIBILITY IDEOGRAPH-2F863" -> 194659
      [] name = "CJK COMPATIBILITY IDEOGRAPH-2F864" -> 194660
      [] name = "CJK COMPATIBILITY IDEOGRAPH-2F865" -> 194661
      [] name = "CJK COMPATIBILITY IDEOGRAPH-2F866" -> 194662
      [] name = "CJK COMPATIBILITY IDEOGRAPH-2F867" -> 194663
      [] name = "CJK COMPATIBILITY IDEOGRAPH-2F868" -> 194664
      [] name = "CJK COMPATIBILITY IDEOGRAPH-2F869" -> 194665
      [] name = "CJK COMPATIBILITY IDEOGRAPH-2F86A" -> 194666
      [] name = "CJK COMPATIBILITY IDEOGRAPH-2F86B" -> 194667
      [] name = "CJK COMPATIBILITY IDEOGRAPH-2F86C" -> 194668
      [] name = "CJK COMPATIBILITY IDEOGRAPH-2F86D" -> 194669
      [] name = "CJK COMPATIBILITY IDEOGRAPH-2F86E" -> 194670
      [] name = "CJK COMPATIBILITY IDEOGRAPH-2F86F" -> 194671
      [] name = "CJK COMPATIBILITY IDEOGRAPH-2F870" -> 194672
      [] name = "CJK COMPATIBILITY IDEOGRAPH-2F871" -> 194673
      [] name = "CJK COMPATIBILITY IDEOGRAPH-2F872" -> 194674
      [] name = "CJK COMPATIBILITY IDEOGRAPH-2F873" -> 194675
      [] name = "CJK COMPATIBILITY IDEOGRAPH-2F874" -> 194676
      [] name = "CJK COMPATIBILITY IDEOGRAPH-2F875" -> 194677
      [] name = "CJK COMPATIBILITY IDEOGRAPH-2F876" -> 194678
      [] name = "CJK COMPATIBILITY IDEOGRAPH-2F877" -> 194679
      [] name = "CJK COMPATIBILITY IDEOGRAPH-2F878" -> 194680
      [] name = "CJK COMPATIBILITY IDEOGRAPH-2F879" -> 194681
      [] name = "CJK COMPATIBILITY IDEOGRAPH-2F87A" -> 194682
      [] name = "CJK COMPATIBILITY IDEOGRAPH-2F87B" -> 194683
      [] name = "CJK COMPATIBILITY IDEOGRAPH-2F87C" -> 194684
      [] name = "CJK COMPATIBILITY IDEOGRAPH-2F87D" -> 194685
      [] name = "CJK COMPATIBILITY IDEOGRAPH-2F87E" -> 194686
      [] name = "CJK COMPATIBILITY IDEOGRAPH-2F87F" -> 194687
      [] name = "CJK COMPATIBILITY IDEOGRAPH-2F880" -> 194688
      [] name = "CJK COMPATIBILITY IDEOGRAPH-2F881" -> 194689
      [] name = "CJK COMPATIBILITY IDEOGRAPH-2F882" -> 194690
      [] name = "CJK COMPATIBILITY IDEOGRAPH-2F883" -> 194691
      [] name = "CJK COMPATIBILITY IDEOGRAPH-2F884" -> 194692
      [] name = "CJK COMPATIBILITY IDEOGRAPH-2F885" -> 194693
      [] name = "CJK COMPATIBILITY IDEOGRAPH-2F886" -> 194694
      [] name = "CJK COMPATIBILITY IDEOGRAPH-2F887" -> 194695
      [] name = "CJK COMPATIBILITY IDEOGRAPH-2F888" -> 194696
      [] name = "CJK COMPATIBILITY IDEOGRAPH-2F889" -> 194697
      [] name = "CJK COMPATIBILITY IDEOGRAPH-2F88A" -> 194698
      [] name = "CJK COMPATIBILITY IDEOGRAPH-2F88B" -> 194699
      [] name = "CJK COMPATIBILITY IDEOGRAPH-2F88C" -> 194700
      [] name = "CJK COMPATIBILITY IDEOGRAPH-2F88D" -> 194701
      [] name = "CJK COMPATIBILITY IDEOGRAPH-2F88E" -> 194702
      [] name = "CJK COMPATIBILITY IDEOGRAPH-2F88F" -> 194703
      [] name = "CJK COMPATIBILITY IDEOGRAPH-2F890" -> 194704
      [] name = "CJK COMPATIBILITY IDEOGRAPH-2F891" -> 194705
      [] name = "CJK COMPATIBILITY IDEOGRAPH-2F892" -> 194706
      [] name = "CJK COMPATIBILITY IDEOGRAPH-2F893" -> 194707
      [] name = "CJK COMPATIBILITY IDEOGRAPH-2F894" -> 194708
      [] name = "CJK COMPATIBILITY IDEOGRAPH-2F895" -> 194709
      [] name = "CJK COMPATIBILITY IDEOGRAPH-2F896" -> 194710
      [] name = "CJK COMPATIBILITY IDEOGRAPH-2F897" -> 194711
      [] name = "CJK COMPATIBILITY IDEOGRAPH-2F898" -> 194712
      [] name = "CJK COMPATIBILITY IDEOGRAPH-2F899" -> 194713
      [] name = "CJK COMPATIBILITY IDEOGRAPH-2F89A" -> 194714
      [] name = "CJK COMPATIBILITY IDEOGRAPH-2F89B" -> 194715
      [] name = "CJK COMPATIBILITY IDEOGRAPH-2F89C" -> 194716
      [] name = "CJK COMPATIBILITY IDEOGRAPH-2F89D" -> 194717
      [] name = "CJK COMPATIBILITY IDEOGRAPH-2F89E" -> 194718
      [] name = "CJK COMPATIBILITY IDEOGRAPH-2F89F" -> 194719
      [] name = "CJK COMPATIBILITY IDEOGRAPH-2F8A0" -> 194720
      [] name = "CJK COMPATIBILITY IDEOGRAPH-2F8A1" -> 194721
      [] name = "CJK COMPATIBILITY IDEOGRAPH-2F8A2" -> 194722
      [] name = "CJK COMPATIBILITY IDEOGRAPH-2F8A3" -> 194723
      [] name = "CJK COMPATIBILITY IDEOGRAPH-2F8A4" -> 194724
      [] name = "CJK COMPATIBILITY IDEOGRAPH-2F8A5" -> 194725
      [] name = "CJK COMPATIBILITY IDEOGRAPH-2F8A6" -> 194726
      [] name = "CJK COMPATIBILITY IDEOGRAPH-2F8A7" -> 194727
      [] name = "CJK COMPATIBILITY IDEOGRAPH-2F8A8" -> 194728
      [] name = "CJK COMPATIBILITY IDEOGRAPH-2F8A9" -> 194729
      [] name = "CJK COMPATIBILITY IDEOGRAPH-2F8AA" -> 194730
      [] name = "CJK COMPATIBILITY IDEOGRAPH-2F8AB" -> 194731
      [] name = "CJK COMPATIBILITY IDEOGRAPH-2F8AC" -> 194732
      [] name = "CJK COMPATIBILITY IDEOGRAPH-2F8AD" -> 194733
      [] name = "CJK COMPATIBILITY IDEOGRAPH-2F8AE" -> 194734
      [] name = "CJK COMPATIBILITY IDEOGRAPH-2F8AF" -> 194735
      [] name = "CJK COMPATIBILITY IDEOGRAPH-2F8B0" -> 194736
      [] name = "CJK COMPATIBILITY IDEOGRAPH-2F8B1" -> 194737
      [] name = "CJK COMPATIBILITY IDEOGRAPH-2F8B2" -> 194738
      [] name = "CJK COMPATIBILITY IDEOGRAPH-2F8B3" -> 194739
      [] name = "CJK COMPATIBILITY IDEOGRAPH-2F8B4" -> 194740
      [] name = "CJK COMPATIBILITY IDEOGRAPH-2F8B5" -> 194741
      [] name = "CJK COMPATIBILITY IDEOGRAPH-2F8B6" -> 194742
      [] name = "CJK COMPATIBILITY IDEOGRAPH-2F8B7" -> 194743
      [] name = "CJK COMPATIBILITY IDEOGRAPH-2F8B8" -> 194744
      [] name = "CJK COMPATIBILITY IDEOGRAPH-2F8B9" -> 194745
      [] name = "CJK COMPATIBILITY IDEOGRAPH-2F8BA" -> 194746
      [] name = "CJK COMPATIBILITY IDEOGRAPH-2F8BB" -> 194747
      [] name = "CJK COMPATIBILITY IDEOGRAPH-2F8BC" -> 194748
      [] name = "CJK COMPATIBILITY IDEOGRAPH-2F8BD" -> 194749
      [] name = "CJK COMPATIBILITY IDEOGRAPH-2F8BE" -> 194750
      [] name = "CJK COMPATIBILITY IDEOGRAPH-2F8BF" -> 194751
      [] name = "CJK COMPATIBILITY IDEOGRAPH-2F8C0" -> 194752
      [] name = "CJK COMPATIBILITY IDEOGRAPH-2F8C1" -> 194753
      [] name = "CJK COMPATIBILITY IDEOGRAPH-2F8C2" -> 194754
      [] name = "CJK COMPATIBILITY IDEOGRAPH-2F8C3" -> 194755
      [] name = "CJK COMPATIBILITY IDEOGRAPH-2F8C4" -> 194756
      [] name = "CJK COMPATIBILITY IDEOGRAPH-2F8C5" -> 194757
      [] name = "CJK COMPATIBILITY IDEOGRAPH-2F8C6" -> 194758
      [] name = "CJK COMPATIBILITY IDEOGRAPH-2F8C7" -> 194759
      [] name = "CJK COMPATIBILITY IDEOGRAPH-2F8C8" -> 194760
      [] name = "CJK COMPATIBILITY IDEOGRAPH-2F8C9" -> 194761
      [] name = "CJK COMPATIBILITY IDEOGRAPH-2F8CA" -> 194762
      [] name = "CJK COMPATIBILITY IDEOGRAPH-2F8CB" -> 194763
      [] name = "CJK COMPATIBILITY IDEOGRAPH-2F8CC" -> 194764
      [] name = "CJK COMPATIBILITY IDEOGRAPH-2F8CD" -> 194765
      [] name = "CJK COMPATIBILITY IDEOGRAPH-2F8CE" -> 194766
      [] name = "CJK COMPATIBILITY IDEOGRAPH-2F8CF" -> 194767
      [] name = "CJK COMPATIBILITY IDEOGRAPH-2F8D0" -> 194768
      [] name = "CJK COMPATIBILITY IDEOGRAPH-2F8D1" -> 194769
      [] name = "CJK COMPATIBILITY IDEOGRAPH-2F8D2" -> 194770
      [] name = "CJK COMPATIBILITY IDEOGRAPH-2F8D3" -> 194771
      [] name = "CJK COMPATIBILITY IDEOGRAPH-2F8D4" -> 194772
      [] name = "CJK COMPATIBILITY IDEOGRAPH-2F8D5" -> 194773
      [] name = "CJK COMPATIBILITY IDEOGRAPH-2F8D6" -> 194774
      [] name = "CJK COMPATIBILITY IDEOGRAPH-2F8D7" -> 194775
      [] name = "CJK COMPATIBILITY IDEOGRAPH-2F8D8" -> 194776
      [] name = "CJK COMPATIBILITY IDEOGRAPH-2F8D9" -> 194777
      [] name = "CJK COMPATIBILITY IDEOGRAPH-2F8DA" -> 194778
      [] name = "CJK COMPATIBILITY IDEOGRAPH-2F8DB" -> 194779
      [] name = "CJK COMPATIBILITY IDEOGRAPH-2F8DC" -> 194780
      [] name = "CJK COMPATIBILITY IDEOGRAPH-2F8DD" -> 194781
      [] name = "CJK COMPATIBILITY IDEOGRAPH-2F8DE" -> 194782
      [] name = "CJK COMPATIBILITY IDEOGRAPH-2F8DF" -> 194783
      [] name = "CJK COMPATIBILITY IDEOGRAPH-2F8E0" -> 194784
      [] name = "CJK COMPATIBILITY IDEOGRAPH-2F8E1" -> 194785
      [] name = "CJK COMPATIBILITY IDEOGRAPH-2F8E2" -> 194786
      [] name = "CJK COMPATIBILITY IDEOGRAPH-2F8E3" -> 194787
      [] name = "CJK COMPATIBILITY IDEOGRAPH-2F8E4" -> 194788
      [] name = "CJK COMPATIBILITY IDEOGRAPH-2F8E5" -> 194789
      [] name = "CJK COMPATIBILITY IDEOGRAPH-2F8E6" -> 194790
      [] name = "CJK COMPATIBILITY IDEOGRAPH-2F8E7" -> 194791
      [] name = "CJK COMPATIBILITY IDEOGRAPH-2F8E8" -> 194792
      [] name = "CJK COMPATIBILITY IDEOGRAPH-2F8E9" -> 194793
      [] name = "CJK COMPATIBILITY IDEOGRAPH-2F8EA" -> 194794
      [] name = "CJK COMPATIBILITY IDEOGRAPH-2F8EB" -> 194795
      [] name = "CJK COMPATIBILITY IDEOGRAPH-2F8EC" -> 194796
      [] name = "CJK COMPATIBILITY IDEOGRAPH-2F8ED" -> 194797
      [] name = "CJK COMPATIBILITY IDEOGRAPH-2F8EE" -> 194798
      [] name = "CJK COMPATIBILITY IDEOGRAPH-2F8EF" -> 194799
      [] name = "CJK COMPATIBILITY IDEOGRAPH-2F8F0" -> 194800
      [] name = "CJK COMPATIBILITY IDEOGRAPH-2F8F1" -> 194801
      [] name = "CJK COMPATIBILITY IDEOGRAPH-2F8F2" -> 194802
      [] name = "CJK COMPATIBILITY IDEOGRAPH-2F8F3" -> 194803
      [] name = "CJK COMPATIBILITY IDEOGRAPH-2F8F4" -> 194804
      [] name = "CJK COMPATIBILITY IDEOGRAPH-2F8F5" -> 194805
      [] name = "CJK COMPATIBILITY IDEOGRAPH-2F8F6" -> 194806
      [] name = "CJK COMPATIBILITY IDEOGRAPH-2F8F7" -> 194807
      [] name = "CJK COMPATIBILITY IDEOGRAPH-2F8F8" -> 194808
      [] name = "CJK COMPATIBILITY IDEOGRAPH-2F8F9" -> 194809
      [] name = "CJK COMPATIBILITY IDEOGRAPH-2F8FA" -> 194810
      [] name = "CJK COMPATIBILITY IDEOGRAPH-2F8FB" -> 194811
      [] name = "CJK COMPATIBILITY IDEOGRAPH-2F8FC" -> 194812
      [] name = "CJK COMPATIBILITY IDEOGRAPH-2F8FD" -> 194813
      [] name = "CJK COMPATIBILITY IDEOGRAPH-2F8FE" -> 194814
      [] name = "CJK COMPATIBILITY IDEOGRAPH-2F8FF" -> 194815
      [] name = "CJK COMPATIBILITY IDEOGRAPH-2F900" -> 194816
      [] name = "CJK COMPATIBILITY IDEOGRAPH-2F901" -> 194817
      [] name = "CJK COMPATIBILITY IDEOGRAPH-2F902" -> 194818
      [] name = "CJK COMPATIBILITY IDEOGRAPH-2F903" -> 194819
      [] name = "CJK COMPATIBILITY IDEOGRAPH-2F904" -> 194820
      [] name = "CJK COMPATIBILITY IDEOGRAPH-2F905" -> 194821
      [] name = "CJK COMPATIBILITY IDEOGRAPH-2F906" -> 194822
      [] name = "CJK COMPATIBILITY IDEOGRAPH-2F907" -> 194823
      [] name = "CJK COMPATIBILITY IDEOGRAPH-2F908" -> 194824
      [] name = "CJK COMPATIBILITY IDEOGRAPH-2F909" -> 194825
      [] name = "CJK COMPATIBILITY IDEOGRAPH-2F90A" -> 194826
      [] name = "CJK COMPATIBILITY IDEOGRAPH-2F90B" -> 194827
      [] name = "CJK COMPATIBILITY IDEOGRAPH-2F90C" -> 194828
      [] name = "CJK COMPATIBILITY IDEOGRAPH-2F90D" -> 194829
      [] name = "CJK COMPATIBILITY IDEOGRAPH-2F90E" -> 194830
      [] name = "CJK COMPATIBILITY IDEOGRAPH-2F90F" -> 194831
      [] name = "CJK COMPATIBILITY IDEOGRAPH-2F910" -> 194832
      [] name = "CJK COMPATIBILITY IDEOGRAPH-2F911" -> 194833
      [] name = "CJK COMPATIBILITY IDEOGRAPH-2F912" -> 194834
      [] name = "CJK COMPATIBILITY IDEOGRAPH-2F913" -> 194835
      [] name = "CJK COMPATIBILITY IDEOGRAPH-2F914" -> 194836
      [] name = "CJK COMPATIBILITY IDEOGRAPH-2F915" -> 194837
      [] name = "CJK COMPATIBILITY IDEOGRAPH-2F916" -> 194838
      [] name = "CJK COMPATIBILITY IDEOGRAPH-2F917" -> 194839
      [] name = "CJK COMPATIBILITY IDEOGRAPH-2F918" -> 194840
      [] name = "CJK COMPATIBILITY IDEOGRAPH-2F919" -> 194841
      [] name = "CJK COMPATIBILITY IDEOGRAPH-2F91A" -> 194842
      [] name = "CJK COMPATIBILITY IDEOGRAPH-2F91B" -> 194843
      [] name = "CJK COMPATIBILITY IDEOGRAPH-2F91C" -> 194844
      [] name = "CJK COMPATIBILITY IDEOGRAPH-2F91D" -> 194845
      [] name = "CJK COMPATIBILITY IDEOGRAPH-2F91E" -> 194846
      [] name = "CJK COMPATIBILITY IDEOGRAPH-2F91F" -> 194847
      [] name = "CJK COMPATIBILITY IDEOGRAPH-2F920" -> 194848
      [] name = "CJK COMPATIBILITY IDEOGRAPH-2F921" -> 194849
      [] name = "CJK COMPATIBILITY IDEOGRAPH-2F922" -> 194850
      [] name = "CJK COMPATIBILITY IDEOGRAPH-2F923" -> 194851
      [] name = "CJK COMPATIBILITY IDEOGRAPH-2F924" -> 194852
      [] name = "CJK COMPATIBILITY IDEOGRAPH-2F925" -> 194853
      [] name = "CJK COMPATIBILITY IDEOGRAPH-2F926" -> 194854
      [] name = "CJK COMPATIBILITY IDEOGRAPH-2F927" -> 194855
      [] name = "CJK COMPATIBILITY IDEOGRAPH-2F928" -> 194856
      [] name = "CJK COMPATIBILITY IDEOGRAPH-2F929" -> 194857
      [] name = "CJK COMPATIBILITY IDEOGRAPH-2F92A" -> 194858
      [] name = "CJK COMPATIBILITY IDEOGRAPH-2F92B" -> 194859
      [] name = "CJK COMPATIBILITY IDEOGRAPH-2F92C" -> 194860
      [] name = "CJK COMPATIBILITY IDEOGRAPH-2F92D" -> 194861
      [] name = "CJK COMPATIBILITY IDEOGRAPH-2F92E" -> 194862
      [] name = "CJK COMPATIBILITY IDEOGRAPH-2F92F" -> 194863
      [] name = "CJK COMPATIBILITY IDEOGRAPH-2F930" -> 194864
      [] name = "CJK COMPATIBILITY IDEOGRAPH-2F931" -> 194865
      [] name = "CJK COMPATIBILITY IDEOGRAPH-2F932" -> 194866
      [] name = "CJK COMPATIBILITY IDEOGRAPH-2F933" -> 194867
      [] name = "CJK COMPATIBILITY IDEOGRAPH-2F934" -> 194868
      [] name = "CJK COMPATIBILITY IDEOGRAPH-2F935" -> 194869
      [] name = "CJK COMPATIBILITY IDEOGRAPH-2F936" -> 194870
      [] name = "CJK COMPATIBILITY IDEOGRAPH-2F937" -> 194871
      [] name = "CJK COMPATIBILITY IDEOGRAPH-2F938" -> 194872
      [] name = "CJK COMPATIBILITY IDEOGRAPH-2F939" -> 194873
      [] name = "CJK COMPATIBILITY IDEOGRAPH-2F93A" -> 194874
      [] name = "CJK COMPATIBILITY IDEOGRAPH-2F93B" -> 194875
      [] name = "CJK COMPATIBILITY IDEOGRAPH-2F93C" -> 194876
      [] name = "CJK COMPATIBILITY IDEOGRAPH-2F93D" -> 194877
      [] name = "CJK COMPATIBILITY IDEOGRAPH-2F93E" -> 194878
      [] name = "CJK COMPATIBILITY IDEOGRAPH-2F93F" -> 194879
      [] name = "CJK COMPATIBILITY IDEOGRAPH-2F940" -> 194880
      [] name = "CJK COMPATIBILITY IDEOGRAPH-2F941" -> 194881
      [] name = "CJK COMPATIBILITY IDEOGRAPH-2F942" -> 194882
      [] name = "CJK COMPATIBILITY IDEOGRAPH-2F943" -> 194883
      [] name = "CJK COMPATIBILITY IDEOGRAPH-2F944" -> 194884
      [] name = "CJK COMPATIBILITY IDEOGRAPH-2F945" -> 194885
      [] name = "CJK COMPATIBILITY IDEOGRAPH-2F946" -> 194886
      [] name = "CJK COMPATIBILITY IDEOGRAPH-2F947" -> 194887
      [] name = "CJK COMPATIBILITY IDEOGRAPH-2F948" -> 194888
      [] name = "CJK COMPATIBILITY IDEOGRAPH-2F949" -> 194889
      [] name = "CJK COMPATIBILITY IDEOGRAPH-2F94A" -> 194890
      [] name = "CJK COMPATIBILITY IDEOGRAPH-2F94B" -> 194891
      [] name = "CJK COMPATIBILITY IDEOGRAPH-2F94C" -> 194892
      [] name = "CJK COMPATIBILITY IDEOGRAPH-2F94D" -> 194893
      [] name = "CJK COMPATIBILITY IDEOGRAPH-2F94E" -> 194894
      [] name = "CJK COMPATIBILITY IDEOGRAPH-2F94F" -> 194895
      [] name = "CJK COMPATIBILITY IDEOGRAPH-2F950" -> 194896
      [] name = "CJK COMPATIBILITY IDEOGRAPH-2F951" -> 194897
      [] name = "CJK COMPATIBILITY IDEOGRAPH-2F952" -> 194898
      [] name = "CJK COMPATIBILITY IDEOGRAPH-2F953" -> 194899
      [] name = "CJK COMPATIBILITY IDEOGRAPH-2F954" -> 194900
      [] name = "CJK COMPATIBILITY IDEOGRAPH-2F955" -> 194901
      [] name = "CJK COMPATIBILITY IDEOGRAPH-2F956" -> 194902
      [] name = "CJK COMPATIBILITY IDEOGRAPH-2F957" -> 194903
      [] name = "CJK COMPATIBILITY IDEOGRAPH-2F958" -> 194904
      [] name = "CJK COMPATIBILITY IDEOGRAPH-2F959" -> 194905
      [] name = "CJK COMPATIBILITY IDEOGRAPH-2F95A" -> 194906
      [] name = "CJK COMPATIBILITY IDEOGRAPH-2F95B" -> 194907
      [] name = "CJK COMPATIBILITY IDEOGRAPH-2F95C" -> 194908
      [] name = "CJK COMPATIBILITY IDEOGRAPH-2F95D" -> 194909
      [] name = "CJK COMPATIBILITY IDEOGRAPH-2F95E" -> 194910
      [] name = "CJK COMPATIBILITY IDEOGRAPH-2F95F" -> 194911
      [] name = "CJK COMPATIBILITY IDEOGRAPH-2F960" -> 194912
      [] name = "CJK COMPATIBILITY IDEOGRAPH-2F961" -> 194913
      [] name = "CJK COMPATIBILITY IDEOGRAPH-2F962" -> 194914
      [] name = "CJK COMPATIBILITY IDEOGRAPH-2F963" -> 194915
      [] name = "CJK COMPATIBILITY IDEOGRAPH-2F964" -> 194916
      [] name = "CJK COMPATIBILITY IDEOGRAPH-2F965" -> 194917
      [] name = "CJK COMPATIBILITY IDEOGRAPH-2F966" -> 194918
      [] name = "CJK COMPATIBILITY IDEOGRAPH-2F967" -> 194919
      [] name = "CJK COMPATIBILITY IDEOGRAPH-2F968" -> 194920
      [] name = "CJK COMPATIBILITY IDEOGRAPH-2F969" -> 194921
      [] name = "CJK COMPATIBILITY IDEOGRAPH-2F96A" -> 194922
      [] name = "CJK COMPATIBILITY IDEOGRAPH-2F96B" -> 194923
      [] name = "CJK COMPATIBILITY IDEOGRAPH-2F96C" -> 194924
      [] name = "CJK COMPATIBILITY IDEOGRAPH-2F96D" -> 194925
      [] name = "CJK COMPATIBILITY IDEOGRAPH-2F96E" -> 194926
      [] name = "CJK COMPATIBILITY IDEOGRAPH-2F96F" -> 194927
      [] name = "CJK COMPATIBILITY IDEOGRAPH-2F970" -> 194928
      [] name = "CJK COMPATIBILITY IDEOGRAPH-2F971" -> 194929
      [] name = "CJK COMPATIBILITY IDEOGRAPH-2F972" -> 194930
      [] name = "CJK COMPATIBILITY IDEOGRAPH-2F973" -> 194931
      [] name = "CJK COMPATIBILITY IDEOGRAPH-2F974" -> 194932
      [] name = "CJK COMPATIBILITY IDEOGRAPH-2F975" -> 194933
      [] name = "CJK COMPATIBILITY IDEOGRAPH-2F976" -> 194934
      [] name = "CJK COMPATIBILITY IDEOGRAPH-2F977" -> 194935
      [] name = "CJK COMPATIBILITY IDEOGRAPH-2F978" -> 194936
      [] name = "CJK COMPATIBILITY IDEOGRAPH-2F979" -> 194937
      [] name = "CJK COMPATIBILITY IDEOGRAPH-2F97A" -> 194938
      [] name = "CJK COMPATIBILITY IDEOGRAPH-2F97B" -> 194939
      [] name = "CJK COMPATIBILITY IDEOGRAPH-2F97C" -> 194940
      [] name = "CJK COMPATIBILITY IDEOGRAPH-2F97D" -> 194941
      [] name = "CJK COMPATIBILITY IDEOGRAPH-2F97E" -> 194942
      [] name = "CJK COMPATIBILITY IDEOGRAPH-2F97F" -> 194943
      [] name = "CJK COMPATIBILITY IDEOGRAPH-2F980" -> 194944
      [] name = "CJK COMPATIBILITY IDEOGRAPH-2F981" -> 194945
      [] name = "CJK COMPATIBILITY IDEOGRAPH-2F982" -> 194946
      [] name = "CJK COMPATIBILITY IDEOGRAPH-2F983" -> 194947
      [] name = "CJK COMPATIBILITY IDEOGRAPH-2F984" -> 194948
      [] name = "CJK COMPATIBILITY IDEOGRAPH-2F985" -> 194949
      [] name = "CJK COMPATIBILITY IDEOGRAPH-2F986" -> 194950
      [] name = "CJK COMPATIBILITY IDEOGRAPH-2F987" -> 194951
      [] name = "CJK COMPATIBILITY IDEOGRAPH-2F988" -> 194952
      [] name = "CJK COMPATIBILITY IDEOGRAPH-2F989" -> 194953
      [] name = "CJK COMPATIBILITY IDEOGRAPH-2F98A" -> 194954
      [] name = "CJK COMPATIBILITY IDEOGRAPH-2F98B" -> 194955
      [] name = "CJK COMPATIBILITY IDEOGRAPH-2F98C" -> 194956
      [] name = "CJK COMPATIBILITY IDEOGRAPH-2F98D" -> 194957
      [] name = "CJK COMPATIBILITY IDEOGRAPH-2F98E" -> 194958
      [] name = "CJK COMPATIBILITY IDEOGRAPH-2F98F" -> 194959
      [] name = "CJK COMPATIBILITY IDEOGRAPH-2F990" -> 194960
      [] name = "CJK COMPATIBILITY IDEOGRAPH-2F991" -> 194961
      [] name = "CJK COMPATIBILITY IDEOGRAPH-2F992" -> 194962
      [] name = "CJK COMPATIBILITY IDEOGRAPH-2F993" -> 194963
      [] name = "CJK COMPATIBILITY IDEOGRAPH-2F994" -> 194964
      [] name = "CJK COMPATIBILITY IDEOGRAPH-2F995" -> 194965
      [] name = "CJK COMPATIBILITY IDEOGRAPH-2F996" -> 194966
      [] name = "CJK COMPATIBILITY IDEOGRAPH-2F997" -> 194967
      [] name = "CJK COMPATIBILITY IDEOGRAPH-2F998" -> 194968
      [] name = "CJK COMPATIBILITY IDEOGRAPH-2F999" -> 194969
      [] name = "CJK COMPATIBILITY IDEOGRAPH-2F99A" -> 194970
      [] name = "CJK COMPATIBILITY IDEOGRAPH-2F99B" -> 194971
      [] name = "CJK COMPATIBILITY IDEOGRAPH-2F99C" -> 194972
      [] name = "CJK COMPATIBILITY IDEOGRAPH-2F99D" -> 194973
      [] name = "CJK COMPATIBILITY IDEOGRAPH-2F99E" -> 194974
      [] name = "CJK COMPATIBILITY IDEOGRAPH-2F99F" -> 194975
      [] name = "CJK COMPATIBILITY IDEOGRAPH-2F9A0" -> 194976
      [] name = "CJK COMPATIBILITY IDEOGRAPH-2F9A1" -> 194977
      [] name = "CJK COMPATIBILITY IDEOGRAPH-2F9A2" -> 194978
      [] name = "CJK COMPATIBILITY IDEOGRAPH-2F9A3" -> 194979
      [] name = "CJK COMPATIBILITY IDEOGRAPH-2F9A4" -> 194980
      [] name = "CJK COMPATIBILITY IDEOGRAPH-2F9A5" -> 194981
      [] name = "CJK COMPATIBILITY IDEOGRAPH-2F9A6" -> 194982
      [] name = "CJK COMPATIBILITY IDEOGRAPH-2F9A7" -> 194983
      [] name = "CJK COMPATIBILITY IDEOGRAPH-2F9A8" -> 194984
      [] name = "CJK COMPATIBILITY IDEOGRAPH-2F9A9" -> 194985
      [] name = "CJK COMPATIBILITY IDEOGRAPH-2F9AA" -> 194986
      [] name = "CJK COMPATIBILITY IDEOGRAPH-2F9AB" -> 194987
      [] name = "CJK COMPATIBILITY IDEOGRAPH-2F9AC" -> 194988
      [] name = "CJK COMPATIBILITY IDEOGRAPH-2F9AD" -> 194989
      [] name = "CJK COMPATIBILITY IDEOGRAPH-2F9AE" -> 194990
      [] name = "CJK COMPATIBILITY IDEOGRAPH-2F9AF" -> 194991
      [] name = "CJK COMPATIBILITY IDEOGRAPH-2F9B0" -> 194992
      [] name = "CJK COMPATIBILITY IDEOGRAPH-2F9B1" -> 194993
      [] name = "CJK COMPATIBILITY IDEOGRAPH-2F9B2" -> 194994
      [] name = "CJK COMPATIBILITY IDEOGRAPH-2F9B3" -> 194995
      [] name = "CJK COMPATIBILITY IDEOGRAPH-2F9B4" -> 194996
      [] name = "CJK COMPATIBILITY IDEOGRAPH-2F9B5" -> 194997
      [] name = "CJK COMPATIBILITY IDEOGRAPH-2F9B6" -> 194998
      [] name = "CJK COMPATIBILITY IDEOGRAPH-2F9B7" -> 194999
      [] name = "CJK COMPATIBILITY IDEOGRAPH-2F9B8" -> 195000
      [] name = "CJK COMPATIBILITY IDEOGRAPH-2F9B9" -> 195001
      [] name = "CJK COMPATIBILITY IDEOGRAPH-2F9BA" -> 195002
      [] name = "CJK COMPATIBILITY IDEOGRAPH-2F9BB" -> 195003
      [] name = "CJK COMPATIBILITY IDEOGRAPH-2F9BC" -> 195004
      [] name = "CJK COMPATIBILITY IDEOGRAPH-2F9BD" -> 195005
      [] name = "CJK COMPATIBILITY IDEOGRAPH-2F9BE" -> 195006
      [] name = "CJK COMPATIBILITY IDEOGRAPH-2F9BF" -> 195007
      [] name = "CJK COMPATIBILITY IDEOGRAPH-2F9C0" -> 195008
      [] name = "CJK COMPATIBILITY IDEOGRAPH-2F9C1" -> 195009
      [] name = "CJK COMPATIBILITY IDEOGRAPH-2F9C2" -> 195010
      [] name = "CJK COMPATIBILITY IDEOGRAPH-2F9C3" -> 195011
      [] name = "CJK COMPATIBILITY IDEOGRAPH-2F9C4" -> 195012
      [] name = "CJK COMPATIBILITY IDEOGRAPH-2F9C5" -> 195013
      [] name = "CJK COMPATIBILITY IDEOGRAPH-2F9C6" -> 195014
      [] name = "CJK COMPATIBILITY IDEOGRAPH-2F9C7" -> 195015
      [] name = "CJK COMPATIBILITY IDEOGRAPH-2F9C8" -> 195016
      [] name = "CJK COMPATIBILITY IDEOGRAPH-2F9C9" -> 195017
      [] name = "CJK COMPATIBILITY IDEOGRAPH-2F9CA" -> 195018
      [] name = "CJK COMPATIBILITY IDEOGRAPH-2F9CB" -> 195019
      [] name = "CJK COMPATIBILITY IDEOGRAPH-2F9CC" -> 195020
      [] name = "CJK COMPATIBILITY IDEOGRAPH-2F9CD" -> 195021
      [] name = "CJK COMPATIBILITY IDEOGRAPH-2F9CE" -> 195022
      [] name = "CJK COMPATIBILITY IDEOGRAPH-2F9CF" -> 195023
      [] name = "CJK COMPATIBILITY IDEOGRAPH-2F9D0" -> 195024
      [] name = "CJK COMPATIBILITY IDEOGRAPH-2F9D1" -> 195025
      [] name = "CJK COMPATIBILITY IDEOGRAPH-2F9D2" -> 195026
      [] name = "CJK COMPATIBILITY IDEOGRAPH-2F9D3" -> 195027
      [] name = "CJK COMPATIBILITY IDEOGRAPH-2F9D4" -> 195028
      [] name = "CJK COMPATIBILITY IDEOGRAPH-2F9D5" -> 195029
      [] name = "CJK COMPATIBILITY IDEOGRAPH-2F9D6" -> 195030
      [] name = "CJK COMPATIBILITY IDEOGRAPH-2F9D7" -> 195031
      [] name = "CJK COMPATIBILITY IDEOGRAPH-2F9D8" -> 195032
      [] name = "CJK COMPATIBILITY IDEOGRAPH-2F9D9" -> 195033
      [] name = "CJK COMPATIBILITY IDEOGRAPH-2F9DA" -> 195034
      [] name = "CJK COMPATIBILITY IDEOGRAPH-2F9DB" -> 195035
      [] name = "CJK COMPATIBILITY IDEOGRAPH-2F9DC" -> 195036
      [] name = "CJK COMPATIBILITY IDEOGRAPH-2F9DD" -> 195037
      [] name = "CJK COMPATIBILITY IDEOGRAPH-2F9DE" -> 195038
      [] name = "CJK COMPATIBILITY IDEOGRAPH-2F9DF" -> 195039
      [] name = "CJK COMPATIBILITY IDEOGRAPH-2F9E0" -> 195040
      [] name = "CJK COMPATIBILITY IDEOGRAPH-2F9E1" -> 195041
      [] name = "CJK COMPATIBILITY IDEOGRAPH-2F9E2" -> 195042
      [] name = "CJK COMPATIBILITY IDEOGRAPH-2F9E3" -> 195043
      [] name = "CJK COMPATIBILITY IDEOGRAPH-2F9E4" -> 195044
      [] name = "CJK COMPATIBILITY IDEOGRAPH-2F9E5" -> 195045
      [] name = "CJK COMPATIBILITY IDEOGRAPH-2F9E6" -> 195046
      [] name = "CJK COMPATIBILITY IDEOGRAPH-2F9E7" -> 195047
      [] name = "CJK COMPATIBILITY IDEOGRAPH-2F9E8" -> 195048
      [] name = "CJK COMPATIBILITY IDEOGRAPH-2F9E9" -> 195049
      [] name = "CJK COMPATIBILITY IDEOGRAPH-2F9EA" -> 195050
      [] name = "CJK COMPATIBILITY IDEOGRAPH-2F9EB" -> 195051
      [] name = "CJK COMPATIBILITY IDEOGRAPH-2F9EC" -> 195052
      [] name = "CJK COMPATIBILITY IDEOGRAPH-2F9ED" -> 195053
      [] name = "CJK COMPATIBILITY IDEOGRAPH-2F9EE" -> 195054
      [] name = "CJK COMPATIBILITY IDEOGRAPH-2F9EF" -> 195055
      [] name = "CJK COMPATIBILITY IDEOGRAPH-2F9F0" -> 195056
      [] name = "CJK COMPATIBILITY IDEOGRAPH-2F9F1" -> 195057
      [] name = "CJK COMPATIBILITY IDEOGRAPH-2F9F2" -> 195058
      [] name = "CJK COMPATIBILITY IDEOGRAPH-2F9F3" -> 195059
      [] name = "CJK COMPATIBILITY IDEOGRAPH-2F9F4" -> 195060
      [] name = "CJK COMPATIBILITY IDEOGRAPH-2F9F5" -> 195061
      [] name = "CJK COMPATIBILITY IDEOGRAPH-2F9F6" -> 195062
      [] name = "CJK COMPATIBILITY IDEOGRAPH-2F9F7" -> 195063
      [] name = "CJK COMPATIBILITY IDEOGRAPH-2F9F8" -> 195064
      [] name = "CJK COMPATIBILITY IDEOGRAPH-2F9F9" -> 195065
      [] name = "CJK COMPATIBILITY IDEOGRAPH-2F9FA" -> 195066
      [] name = "CJK COMPATIBILITY IDEOGRAPH-2F9FB" -> 195067
      [] name = "CJK COMPATIBILITY IDEOGRAPH-2F9FC" -> 195068
      [] name = "CJK COMPATIBILITY IDEOGRAPH-2F9FD" -> 195069
      [] name = "CJK COMPATIBILITY IDEOGRAPH-2F9FE" -> 195070
      [] name = "CJK COMPATIBILITY IDEOGRAPH-2F9FF" -> 195071
      [] name = "CJK COMPATIBILITY IDEOGRAPH-2FA00" -> 195072
      [] name = "CJK COMPATIBILITY IDEOGRAPH-2FA01" -> 195073
      [] name = "CJK COMPATIBILITY IDEOGRAPH-2FA02" -> 195074
      [] name = "CJK COMPATIBILITY IDEOGRAPH-2FA03" -> 195075
      [] name = "CJK COMPATIBILITY IDEOGRAPH-2FA04" -> 195076
      [] name = "CJK COMPATIBILITY IDEOGRAPH-2FA05" -> 195077
      [] name = "CJK COMPATIBILITY IDEOGRAPH-2FA06" -> 195078
      [] name = "CJK COMPATIBILITY IDEOGRAPH-2FA07" -> 195079
      [] name = "CJK COMPATIBILITY IDEOGRAPH-2FA08" -> 195080
      [] name = "CJK COMPATIBILITY IDEOGRAPH-2FA09" -> 195081
      [] name = "CJK COMPATIBILITY IDEOGRAPH-2FA0A" -> 195082
      [] name = "CJK COMPATIBILITY IDEOGRAPH-2FA0B" -> 195083
      [] name = "CJK COMPATIBILITY IDEOGRAPH-2FA0C" -> 195084
      [] name = "CJK COMPATIBILITY IDEOGRAPH-2FA0D" -> 195085
      [] name = "CJK COMPATIBILITY IDEOGRAPH-2FA0E" -> 195086
      [] name = "CJK COMPATIBILITY IDEOGRAPH-2FA0F" -> 195087
      [] name = "CJK COMPATIBILITY IDEOGRAPH-2FA10" -> 195088
      [] name = "CJK COMPATIBILITY IDEOGRAPH-2FA11" -> 195089
      [] name = "CJK COMPATIBILITY IDEOGRAPH-2FA12" -> 195090
      [] name = "CJK COMPATIBILITY IDEOGRAPH-2FA13" -> 195091
      [] name = "CJK COMPATIBILITY IDEOGRAPH-2FA14" -> 195092
      [] name = "CJK COMPATIBILITY IDEOGRAPH-2FA15" -> 195093
      [] name = "CJK COMPATIBILITY IDEOGRAPH-2FA16" -> 195094
      [] name = "CJK COMPATIBILITY IDEOGRAPH-2FA17" -> 195095
      [] name = "CJK COMPATIBILITY IDEOGRAPH-2FA18" -> 195096
      [] name = "CJK COMPATIBILITY IDEOGRAPH-2FA19" -> 195097
      [] name = "CJK COMPATIBILITY IDEOGRAPH-2FA1A" -> 195098
      [] name = "CJK COMPATIBILITY IDEOGRAPH-2FA1B" -> 195099
      [] name = "CJK COMPATIBILITY IDEOGRAPH-2FA1C" -> 195100
      [] name = "CJK COMPATIBILITY IDEOGRAPH-2FA1D" -> 195101
      [] name = "LANGUAGE TAG" -> 917505
      [] name = "TAG SPACE" -> 917536
      [] name = "TAG EXCLAMATION MARK" -> 917537
      [] name = "TAG QUOTATION MARK" -> 917538
      [] name = "TAG NUMBER SIGN" -> 917539
      [] name = "TAG DOLLAR SIGN" -> 917540
      [] name = "TAG PERCENT SIGN" -> 917541
      [] name = "TAG AMPERSAND" -> 917542
      [] name = "TAG APOSTROPHE" -> 917543
      [] name = "TAG LEFT PARENTHESIS" -> 917544
      [] name = "TAG RIGHT PARENTHESIS" -> 917545
      [] name = "TAG ASTERISK" -> 917546
      [] name = "TAG PLUS SIGN" -> 917547
      [] name = "TAG COMMA" -> 917548
      [] name = "TAG HYPHEN-MINUS" -> 917549
      [] name = "TAG FULL STOP" -> 917550
      [] name = "TAG SOLIDUS" -> 917551
      [] name = "TAG DIGIT ZERO" -> 917552
      [] name = "TAG DIGIT ONE" -> 917553
      [] name = "TAG DIGIT TWO" -> 917554
      [] name = "TAG DIGIT THREE" -> 917555
      [] name = "TAG DIGIT FOUR" -> 917556
      [] name = "TAG DIGIT FIVE" -> 917557
      [] name = "TAG DIGIT SIX" -> 917558
      [] name = "TAG DIGIT SEVEN" -> 917559
      [] name = "TAG DIGIT EIGHT" -> 917560
      [] name = "TAG DIGIT NINE" -> 917561
      [] name = "TAG COLON" -> 917562
      [] name = "TAG SEMICOLON" -> 917563
      [] name = "TAG LESS-THAN SIGN" -> 917564
      [] name = "TAG EQUALS SIGN" -> 917565
      [] name = "TAG GREATER-THAN SIGN" -> 917566
      [] name = "TAG QUESTION MARK" -> 917567
      [] name = "TAG COMMERCIAL AT" -> 917568
      [] name = "TAG LATIN CAPITAL LETTER A" -> 917569
      [] name = "TAG LATIN CAPITAL LETTER B" -> 917570
      [] name = "TAG LATIN CAPITAL LETTER C" -> 917571
      [] name = "TAG LATIN CAPITAL LETTER D" -> 917572
      [] name = "TAG LATIN CAPITAL LETTER E" -> 917573
      [] name = "TAG LATIN CAPITAL LETTER F" -> 917574
      [] name = "TAG LATIN CAPITAL LETTER G" -> 917575
      [] name = "TAG LATIN CAPITAL LETTER H" -> 917576
      [] name = "TAG LATIN CAPITAL LETTER I" -> 917577
      [] name = "TAG LATIN CAPITAL LETTER J" -> 917578
      [] name = "TAG LATIN CAPITAL LETTER K" -> 917579
      [] name = "TAG LATIN CAPITAL LETTER L" -> 917580
      [] name = "TAG LATIN CAPITAL LETTER M" -> 917581
      [] name = "TAG LATIN CAPITAL LETTER N" -> 917582
      [] name = "TAG LATIN CAPITAL LETTER O" -> 917583
      [] name = "TAG LATIN CAPITAL LETTER P" -> 917584
      [] name = "TAG LATIN CAPITAL LETTER Q" -> 917585
      [] name = "TAG LATIN CAPITAL LETTER R" -> 917586
      [] name = "TAG LATIN CAPITAL LETTER S" -> 917587
      [] name = "TAG LATIN CAPITAL LETTER T" -> 917588
      [] name = "TAG LATIN CAPITAL LETTER U" -> 917589
      [] name = "TAG LATIN CAPITAL LETTER V" -> 917590
      [] name = "TAG LATIN CAPITAL LETTER W" -> 917591
      [] name = "TAG LATIN CAPITAL LETTER X" -> 917592
      [] name = "TAG LATIN CAPITAL LETTER Y" -> 917593
      [] name = "TAG LATIN CAPITAL LETTER Z" -> 917594
      [] name = "TAG LEFT SQUARE BRACKET" -> 917595
      [] name = "TAG REVERSE SOLIDUS" -> 917596
      [] name = "TAG RIGHT SQUARE BRACKET" -> 917597
      [] name = "TAG CIRCUMFLEX ACCENT" -> 917598
      [] name = "TAG LOW LINE" -> 917599
      [] name = "TAG GRAVE ACCENT" -> 917600
      [] name = "TAG LATIN SMALL LETTER A" -> 917601
      [] name = "TAG LATIN SMALL LETTER B" -> 917602
      [] name = "TAG LATIN SMALL LETTER C" -> 917603
      [] name = "TAG LATIN SMALL LETTER D" -> 917604
      [] name = "TAG LATIN SMALL LETTER E" -> 917605
      [] name = "TAG LATIN SMALL LETTER F" -> 917606
      [] name = "TAG LATIN SMALL LETTER G" -> 917607
      [] name = "TAG LATIN SMALL LETTER H" -> 917608
      [] name = "TAG LATIN SMALL LETTER I" -> 917609
      [] name = "TAG LATIN SMALL LETTER J" -> 917610
      [] name = "TAG LATIN SMALL LETTER K" -> 917611
      [] name = "TAG LATIN SMALL LETTER L" -> 917612
      [] name = "TAG LATIN SMALL LETTER M" -> 917613
      [] name = "TAG LATIN SMALL LETTER N" -> 917614
      [] name = "TAG LATIN SMALL LETTER O" -> 917615
      [] name = "TAG LATIN SMALL LETTER P" -> 917616
      [] name = "TAG LATIN SMALL LETTER Q" -> 917617
      [] name = "TAG LATIN SMALL LETTER R" -> 917618
      [] name = "TAG LATIN SMALL LETTER S" -> 917619
      [] name = "TAG LATIN SMALL LETTER T" -> 917620
      [] name = "TAG LATIN SMALL LETTER U" -> 917621
      [] name = "TAG LATIN SMALL LETTER V" -> 917622
      [] name = "TAG LATIN SMALL LETTER W" -> 917623
      [] name = "TAG LATIN SMALL LETTER X" -> 917624
      [] name = "TAG LATIN SMALL LETTER Y" -> 917625
      [] name = "TAG LATIN SMALL LETTER Z" -> 917626
      [] name = "TAG LEFT CURLY BRACKET" -> 917627
      [] name = "TAG VERTICAL LINE" -> 917628
      [] name = "TAG RIGHT CURLY BRACKET" -> 917629
      [] name = "TAG TILDE" -> 917630
      [] name = "CANCEL TAG" -> 917631
      [] name = "VARIATION SELECTOR-17" -> 917760
      [] name = "VS17" -> 917760
      [] name = "VARIATION SELECTOR-18" -> 917761
      [] name = "VS18" -> 917761
      [] name = "VARIATION SELECTOR-19" -> 917762
      [] name = "VS19" -> 917762
      [] name = "VARIATION SELECTOR-20" -> 917763
      [] name = "VS20" -> 917763
      [] name = "VARIATION SELECTOR-21" -> 917764
      [] name = "VS21" -> 917764
      [] name = "VARIATION SELECTOR-22" -> 917765
      [] name = "VS22" -> 917765
      [] name = "VARIATION SELECTOR-23" -> 917766
      [] name = "VS23" -> 917766
      [] name = "VARIATION SELECTOR-24" -> 917767
      [] name = "VS24" -> 917767
      [] name = "VARIATION SELECTOR-25" -> 917768
      [] name = "VS25" -> 917768
      [] name = "VARIATION SELECTOR-26" -> 917769
      [] name = "VS26" -> 917769
      [] name = "VARIATION SELECTOR-27" -> 917770
      [] name = "VS27" -> 917770
      [] name = "VARIATION SELECTOR-28" -> 917771
      [] name = "VS28" -> 917771
      [] name = "VARIATION SELECTOR-29" -> 917772
      [] name = "VS29" -> 917772
      [] name = "VARIATION SELECTOR-30" -> 917773
      [] name = "VS30" -> 917773
      [] name = "VARIATION SELECTOR-31" -> 917774
      [] name = "VS31" -> 917774
      [] name = "VARIATION SELECTOR-32" -> 917775
      [] name = "VS32" -> 917775
      [] name = "VARIATION SELECTOR-33" -> 917776
      [] name = "VS33" -> 917776
      [] name = "VARIATION SELECTOR-34" -> 917777
      [] name = "VS34" -> 917777
      [] name = "VARIATION SELECTOR-35" -> 917778
      [] name = "VS35" -> 917778
      [] name = "VARIATION SELECTOR-36" -> 917779
      [] name = "VS36" -> 917779
      [] name = "VARIATION SELECTOR-37" -> 917780
      [] name = "VS37" -> 917780
      [] name = "VARIATION SELECTOR-38" -> 917781
      [] name = "VS38" -> 917781
      [] name = "VARIATION SELECTOR-39" -> 917782
      [] name = "VS39" -> 917782
      [] name = "VARIATION SELECTOR-40" -> 917783
      [] name = "VS40" -> 917783
      [] name = "VARIATION SELECTOR-41" -> 917784
      [] name = "VS41" -> 917784
      [] name = "VARIATION SELECTOR-42" -> 917785
      [] name = "VS42" -> 917785
      [] name = "VARIATION SELECTOR-43" -> 917786
      [] name = "VS43" -> 917786
      [] name = "VARIATION SELECTOR-44" -> 917787
      [] name = "VS44" -> 917787
      [] name = "VARIATION SELECTOR-45" -> 917788
      [] name = "VS45" -> 917788
      [] name = "VARIATION SELECTOR-46" -> 917789
      [] name = "VS46" -> 917789
      [] name = "VARIATION SELECTOR-47" -> 917790
      [] name = "VS47" -> 917790
      [] name = "VARIATION SELECTOR-48" -> 917791
      [] name = "VS48" -> 917791
      [] name = "VARIATION SELECTOR-49" -> 917792
      [] name = "VS49" -> 917792
      [] name = "VARIATION SELECTOR-50" -> 917793
      [] name = "VS50" -> 917793
      [] name = "VARIATION SELECTOR-51" -> 917794
      [] name = "VS51" -> 917794
      [] name = "VARIATION SELECTOR-52" -> 917795
      [] name = "VS52" -> 917795
      [] name = "VARIATION SELECTOR-53" -> 917796
      [] name = "VS53" -> 917796
      [] name = "VARIATION SELECTOR-54" -> 917797
      [] name = "VS54" -> 917797
      [] name = "VARIATION SELECTOR-55" -> 917798
      [] name = "VS55" -> 917798
      [] name = "VARIATION SELECTOR-56" -> 917799
      [] name = "VS56" -> 917799
      [] name = "VARIATION SELECTOR-57" -> 917800
      [] name = "VS57" -> 917800
      [] name = "VARIATION SELECTOR-58" -> 917801
      [] name = "VS58" -> 917801
      [] name = "VARIATION SELECTOR-59" -> 917802
      [] name = "VS59" -> 917802
      [] name = "VARIATION SELECTOR-60" -> 917803
      [] name = "VS60" -> 917803
      [] name = "VARIATION SELECTOR-61" -> 917804
      [] name = "VS61" -> 917804
      [] name = "VARIATION SELECTOR-62" -> 917805
      [] name = "VS62" -> 917805
      [] name = "VARIATION SELECTOR-63" -> 917806
      [] name = "VS63" -> 917806
      [] name = "VARIATION SELECTOR-64" -> 917807
      [] name = "VS64" -> 917807
      [] name = "VARIATION SELECTOR-65" -> 917808
      [] name = "VS65" -> 917808
      [] name = "VARIATION SELECTOR-66" -> 917809
      [] name = "VS66" -> 917809
      [] name = "VARIATION SELECTOR-67" -> 917810
      [] name = "VS67" -> 917810
      [] name = "VARIATION SELECTOR-68" -> 917811
      [] name = "VS68" -> 917811
      [] name = "VARIATION SELECTOR-69" -> 917812
      [] name = "VS69" -> 917812
      [] name = "VARIATION SELECTOR-70" -> 917813
      [] name = "VS70" -> 917813
      [] name = "VARIATION SELECTOR-71" -> 917814
      [] name = "VS71" -> 917814
      [] name = "VARIATION SELECTOR-72" -> 917815
      [] name = "VS72" -> 917815
      [] name = "VARIATION SELECTOR-73" -> 917816
      [] name = "VS73" -> 917816
      [] name = "VARIATION SELECTOR-74" -> 917817
      [] name = "VS74" -> 917817
      [] name = "VARIATION SELECTOR-75" -> 917818
      [] name = "VS75" -> 917818
      [] name = "VARIATION SELECTOR-76" -> 917819
      [] name = "VS76" -> 917819
      [] name = "VARIATION SELECTOR-77" -> 917820
      [] name = "VS77" -> 917820
      [] name = "VARIATION SELECTOR-78" -> 917821
      [] name = "VS78" -> 917821
      [] name = "VARIATION SELECTOR-79" -> 917822
      [] name = "VS79" -> 917822
      [] name = "VARIATION SELECTOR-80" -> 917823
      [] name = "VS80" -> 917823
      [] name = "VARIATION SELECTOR-81" -> 917824
      [] name = "VS81" -> 917824
      [] name = "VARIATION SELECTOR-82" -> 917825
      [] name = "VS82" -> 917825
      [] name = "VARIATION SELECTOR-83" -> 917826
      [] name = "VS83" -> 917826
      [] name = "VARIATION SELECTOR-84" -> 917827
      [] name = "VS84" -> 917827
      [] name = "VARIATION SELECTOR-85" -> 917828
      [] name = "VS85" -> 917828
      [] name = "VARIATION SELECTOR-86" -> 917829
      [] name = "VS86" -> 917829
      [] name = "VARIATION SELECTOR-87" -> 917830
      [] name = "VS87" -> 917830
      [] name = "VARIATION SELECTOR-88" -> 917831
      [] name = "VS88" -> 917831
      [] name = "VARIATION SELECTOR-89" -> 917832
      [] name = "VS89" -> 917832
      [] name = "VARIATION SELECTOR-90" -> 917833
      [] name = "VS90" -> 917833
      [] name = "VARIATION SELECTOR-91" -> 917834
      [] name = "VS91" -> 917834
      [] name = "VARIATION SELECTOR-92" -> 917835
      [] name = "VS92" -> 917835
      [] name = "VARIATION SELECTOR-93" -> 917836
      [] name = "VS93" -> 917836
      [] name = "VARIATION SELECTOR-94" -> 917837
      [] name = "VS94" -> 917837
      [] name = "VARIATION SELECTOR-95" -> 917838
      [] name = "VS95" -> 917838
      [] name = "VARIATION SELECTOR-96" -> 917839
      [] name = "VS96" -> 917839
      [] name = "VARIATION SELECTOR-97" -> 917840
      [] name = "VS97" -> 917840
      [] name = "VARIATION SELECTOR-98" -> 917841
      [] name = "VS98" -> 917841
      [] name = "VARIATION SELECTOR-99" -> 917842
      [] name = "VS99" -> 917842
      [] name = "VARIATION SELECTOR-100" -> 917843
      [] name = "VS100" -> 917843
      [] name = "VARIATION SELECTOR-101" -> 917844
      [] name = "VS101" -> 917844
      [] name = "VARIATION SELECTOR-102" -> 917845
      [] name = "VS102" -> 917845
      [] name = "VARIATION SELECTOR-103" -> 917846
      [] name = "VS103" -> 917846
      [] name = "VARIATION SELECTOR-104" -> 917847
      [] name = "VS104" -> 917847
      [] name = "VARIATION SELECTOR-105" -> 917848
      [] name = "VS105" -> 917848
      [] name = "VARIATION SELECTOR-106" -> 917849
      [] name = "VS106" -> 917849
      [] name = "VARIATION SELECTOR-107" -> 917850
      [] name = "VS107" -> 917850
      [] name = "VARIATION SELECTOR-108" -> 917851
      [] name = "VS108" -> 917851
      [] name = "VARIATION SELECTOR-109" -> 917852
      [] name = "VS109" -> 917852
      [] name = "VARIATION SELECTOR-110" -> 917853
      [] name = "VS110" -> 917853
      [] name = "VARIATION SELECTOR-111" -> 917854
      [] name = "VS111" -> 917854
      [] name = "VARIATION SELECTOR-112" -> 917855
      [] name = "VS112" -> 917855
      [] name = "VARIATION SELECTOR-113" -> 917856
      [] name = "VS113" -> 917856
      [] name = "VARIATION SELECTOR-114" -> 917857
      [] name = "VS114" -> 917857
      [] name = "VARIATION SELECTOR-115" -> 917858
      [] name = "VS115" -> 917858
      [] name = "VARIATION SELECTOR-116" -> 917859
      [] name = "VS116" -> 917859
      [] name = "VARIATION SELECTOR-117" -> 917860
      [] name = "VS117" -> 917860
      [] name = "VARIATION SELECTOR-118" -> 917861
      [] name = "VS118" -> 917861
      [] name = "VARIATION SELECTOR-119" -> 917862
      [] name = "VS119" -> 917862
      [] name = "VARIATION SELECTOR-120" -> 917863
      [] name = "VS120" -> 917863
      [] name = "VARIATION SELECTOR-121" -> 917864
      [] name = "VS121" -> 917864
      [] name = "VARIATION SELECTOR-122" -> 917865
      [] name = "VS122" -> 917865
      [] name = "VARIATION SELECTOR-123" -> 917866
      [] name = "VS123" -> 917866
      [] name = "VARIATION SELECTOR-124" -> 917867
      [] name = "VS124" -> 917867
      [] name = "VARIATION SELECTOR-125" -> 917868
      [] name = "VS125" -> 917868
      [] name = "VARIATION SELECTOR-126" -> 917869
      [] name = "VS126" -> 917869
      [] name = "VARIATION SELECTOR-127" -> 917870
      [] name = "VS127" -> 917870
      [] name = "VARIATION SELECTOR-128" -> 917871
      [] name = "VS128" -> 917871
      [] name = "VARIATION SELECTOR-129" -> 917872
      [] name = "VS129" -> 917872
      [] name = "VARIATION SELECTOR-130" -> 917873
      [] name = "VS130" -> 917873
      [] name = "VARIATION SELECTOR-131" -> 917874
      [] name = "VS131" -> 917874
      [] name = "VARIATION SELECTOR-132" -> 917875
      [] name = "VS132" -> 917875
      [] name = "VARIATION SELECTOR-133" -> 917876
      [] name = "VS133" -> 917876
      [] name = "VARIATION SELECTOR-134" -> 917877
      [] name = "VS134" -> 917877
      [] name = "VARIATION SELECTOR-135" -> 917878
      [] name = "VS135" -> 917878
      [] name = "VARIATION SELECTOR-136" -> 917879
      [] name = "VS136" -> 917879
      [] name = "VARIATION SELECTOR-137" -> 917880
      [] name = "VS137" -> 917880
      [] name = "VARIATION SELECTOR-138" -> 917881
      [] name = "VS138" -> 917881
      [] name = "VARIATION SELECTOR-139" -> 917882
      [] name = "VS139" -> 917882
      [] name = "VARIATION SELECTOR-140" -> 917883
      [] name = "VS140" -> 917883
      [] name = "VARIATION SELECTOR-141" -> 917884
      [] name = "VS141" -> 917884
      [] name = "VARIATION SELECTOR-142" -> 917885
      [] name = "VS142" -> 917885
      [] name = "VARIATION SELECTOR-143" -> 917886
      [] name = "VS143" -> 917886
      [] name = "VARIATION SELECTOR-144" -> 917887
      [] name = "VS144" -> 917887
      [] name = "VARIATION SELECTOR-145" -> 917888
      [] name = "VS145" -> 917888
      [] name = "VARIATION SELECTOR-146" -> 917889
      [] name = "VS146" -> 917889
      [] name = "VARIATION SELECTOR-147" -> 917890
      [] name = "VS147" -> 917890
      [] name = "VARIATION SELECTOR-148" -> 917891
      [] name = "VS148" -> 917891
      [] name = "VARIATION SELECTOR-149" -> 917892
      [] name = "VS149" -> 917892
      [] name = "VARIATION SELECTOR-150" -> 917893
      [] name = "VS150" -> 917893
      [] name = "VARIATION SELECTOR-151" -> 917894
      [] name = "VS151" -> 917894
      [] name = "VARIATION SELECTOR-152" -> 917895
      [] name = "VS152" -> 917895
      [] name = "VARIATION SELECTOR-153" -> 917896
      [] name = "VS153" -> 917896
      [] name = "VARIATION SELECTOR-154" -> 917897
      [] name = "VS154" -> 917897
      [] name = "VARIATION SELECTOR-155" -> 917898
      [] name = "VS155" -> 917898
      [] name = "VARIATION SELECTOR-156" -> 917899
      [] name = "VS156" -> 917899
      [] name = "VARIATION SELECTOR-157" -> 917900
      [] name = "VS157" -> 917900
      [] name = "VARIATION SELECTOR-158" -> 917901
      [] name = "VS158" -> 917901
      [] name = "VARIATION SELECTOR-159" -> 917902
      [] name = "VS159" -> 917902
      [] name = "VARIATION SELECTOR-160" -> 917903
      [] name = "VS160" -> 917903
      [] name = "VARIATION SELECTOR-161" -> 917904
      [] name = "VS161" -> 917904
      [] name = "VARIATION SELECTOR-162" -> 917905
      [] name = "VS162" -> 917905
      [] name = "VARIATION SELECTOR-163" -> 917906
      [] name = "VS163" -> 917906
      [] name = "VARIATION SELECTOR-164" -> 917907
      [] name = "VS164" -> 917907
      [] name = "VARIATION SELECTOR-165" -> 917908
      [] name = "VS165" -> 917908
      [] name = "VARIATION SELECTOR-166" -> 917909
      [] name = "VS166" -> 917909
      [] name = "VARIATION SELECTOR-167" -> 917910
      [] name = "VS167" -> 917910
      [] name = "VARIATION SELECTOR-168" -> 917911
      [] name = "VS168" -> 917911
      [] name = "VARIATION SELECTOR-169" -> 917912
      [] name = "VS169" -> 917912
      [] name = "VARIATION SELECTOR-170" -> 917913
      [] name = "VS170" -> 917913
      [] name = "VARIATION SELECTOR-171" -> 917914
      [] name = "VS171" -> 917914
      [] name = "VARIATION SELECTOR-172" -> 917915
      [] name = "VS172" -> 917915
      [] name = "VARIATION SELECTOR-173" -> 917916
      [] name = "VS173" -> 917916
      [] name = "VARIATION SELECTOR-174" -> 917917
      [] name = "VS174" -> 917917
      [] name = "VARIATION SELECTOR-175" -> 917918
      [] name = "VS175" -> 917918
      [] name = "VARIATION SELECTOR-176" -> 917919
      [] name = "VS176" -> 917919
      [] name = "VARIATION SELECTOR-177" -> 917920
      [] name = "VS177" -> 917920
      [] name = "VARIATION SELECTOR-178" -> 917921
      [] name = "VS178" -> 917921
      [] name = "VARIATION SELECTOR-179" -> 917922
      [] name = "VS179" -> 917922
      [] name = "VARIATION SELECTOR-180" -> 917923
      [] name = "VS180" -> 917923
      [] name = "VARIATION SELECTOR-181" -> 917924
      [] name = "VS181" -> 917924
      [] name = "VARIATION SELECTOR-182" -> 917925
      [] name = "VS182" -> 917925
      [] name = "VARIATION SELECTOR-183" -> 917926
      [] name = "VS183" -> 917926
      [] name = "VARIATION SELECTOR-184" -> 917927
      [] name = "VS184" -> 917927
      [] name = "VARIATION SELECTOR-185" -> 917928
      [] name = "VS185" -> 917928
      [] name = "VARIATION SELECTOR-186" -> 917929
      [] name = "VS186" -> 917929
      [] name = "VARIATION SELECTOR-187" -> 917930
      [] name = "VS187" -> 917930
      [] name = "VARIATION SELECTOR-188" -> 917931
      [] name = "VS188" -> 917931
      [] name = "VARIATION SELECTOR-189" -> 917932
      [] name = "VS189" -> 917932
      [] name = "VARIATION SELECTOR-190" -> 917933
      [] name = "VS190" -> 917933
      [] name = "VARIATION SELECTOR-191" -> 917934
      [] name = "VS191" -> 917934
      [] name = "VARIATION SELECTOR-192" -> 917935
      [] name = "VS192" -> 917935
      [] name = "VARIATION SELECTOR-193" -> 917936
      [] name = "VS193" -> 917936
      [] name = "VARIATION SELECTOR-194" -> 917937
      [] name = "VS194" -> 917937
      [] name = "VARIATION SELECTOR-195" -> 917938
      [] name = "VS195" -> 917938
      [] name = "VARIATION SELECTOR-196" -> 917939
      [] name = "VS196" -> 917939
      [] name = "VARIATION SELECTOR-197" -> 917940
      [] name = "VS197" -> 917940
      [] name = "VARIATION SELECTOR-198" -> 917941
      [] name = "VS198" -> 917941
      [] name = "VARIATION SELECTOR-199" -> 917942
      [] name = "VS199" -> 917942
      [] name = "VARIATION SELECTOR-200" -> 917943
      [] name = "VS200" -> 917943
      [] name = "VARIATION SELECTOR-201" -> 917944
      [] name = "VS201" -> 917944
      [] name = "VARIATION SELECTOR-202" -> 917945
      [] name = "VS202" -> 917945
      [] name = "VARIATION SELECTOR-203" -> 917946
      [] name = "VS203" -> 917946
      [] name = "VARIATION SELECTOR-204" -> 917947
      [] name = "VS204" -> 917947
      [] name = "VARIATION SELECTOR-205" -> 917948
      [] name = "VS205" -> 917948
      [] name = "VARIATION SELECTOR-206" -> 917949
      [] name = "VS206" -> 917949
      [] name = "VARIATION SELECTOR-207" -> 917950
      [] name = "VS207" -> 917950
      [] name = "VARIATION SELECTOR-208" -> 917951
      [] name = "VS208" -> 917951
      [] name = "VARIATION SELECTOR-209" -> 917952
      [] name = "VS209" -> 917952
      [] name = "VARIATION SELECTOR-210" -> 917953
      [] name = "VS210" -> 917953
      [] name = "VARIATION SELECTOR-211" -> 917954
      [] name = "VS211" -> 917954
      [] name = "VARIATION SELECTOR-212" -> 917955
      [] name = "VS212" -> 917955
      [] name = "VARIATION SELECTOR-213" -> 917956
      [] name = "VS213" -> 917956
      [] name = "VARIATION SELECTOR-214" -> 917957
      [] name = "VS214" -> 917957
      [] name = "VARIATION SELECTOR-215" -> 917958
      [] name = "VS215" -> 917958
      [] name = "VARIATION SELECTOR-216" -> 917959
      [] name = "VS216" -> 917959
      [] name = "VARIATION SELECTOR-217" -> 917960
      [] name = "VS217" -> 917960
      [] name = "VARIATION SELECTOR-218" -> 917961
      [] name = "VS218" -> 917961
      [] name = "VARIATION SELECTOR-219" -> 917962
      [] name = "VS219" -> 917962
      [] name = "VARIATION SELECTOR-220" -> 917963
      [] name = "VS220" -> 917963
      [] name = "VARIATION SELECTOR-221" -> 917964
      [] name = "VS221" -> 917964
      [] name = "VARIATION SELECTOR-222" -> 917965
      [] name = "VS222" -> 917965
      [] name = "VARIATION SELECTOR-223" -> 917966
      [] name = "VS223" -> 917966
      [] name = "VARIATION SELECTOR-224" -> 917967
      [] name = "VS224" -> 917967
      [] name = "VARIATION SELECTOR-225" -> 917968
      [] name = "VS225" -> 917968
      [] name = "VARIATION SELECTOR-226" -> 917969
      [] name = "VS226" -> 917969
      [] name = "VARIATION SELECTOR-227" -> 917970
      [] name = "VS227" -> 917970
      [] name = "VARIATION SELECTOR-228" -> 917971
      [] name = "VS228" -> 917971
      [] name = "VARIATION SELECTOR-229" -> 917972
      [] name = "VS229" -> 917972
      [] name = "VARIATION SELECTOR-230" -> 917973
      [] name = "VS230" -> 917973
      [] name = "VARIATION SELECTOR-231" -> 917974
      [] name = "VS231" -> 917974
      [] name = "VARIATION SELECTOR-232" -> 917975
      [] name = "VS232" -> 917975
      [] name = "VARIATION SELECTOR-233" -> 917976
      [] name = "VS233" -> 917976
      [] name = "VARIATION SELECTOR-234" -> 917977
      [] name = "VS234" -> 917977
      [] name = "VARIATION SELECTOR-235" -> 917978
      [] name = "VS235" -> 917978
      [] name = "VARIATION SELECTOR-236" -> 917979
      [] name = "VS236" -> 917979
      [] name = "VARIATION SELECTOR-237" -> 917980
      [] name = "VS237" -> 917980
      [] name = "VARIATION SELECTOR-238" -> 917981
      [] name = "VS238" -> 917981
      [] name = "VARIATION SELECTOR-239" -> 917982
      [] name = "VS239" -> 917982
      [] name = "VARIATION SELECTOR-240" -> 917983
      [] name = "VS240" -> 917983
      [] name = "VARIATION SELECTOR-241" -> 917984
      [] name = "VS241" -> 917984
      [] name = "VARIATION SELECTOR-242" -> 917985
      [] name = "VS242" -> 917985
      [] name = "VARIATION SELECTOR-243" -> 917986
      [] name = "VS243" -> 917986
      [] name = "VARIATION SELECTOR-244" -> 917987
      [] name = "VS244" -> 917987
      [] name = "VARIATION SELECTOR-245" -> 917988
      [] name = "VS245" -> 917988
      [] name = "VARIATION SELECTOR-246" -> 917989
      [] name = "VS246" -> 917989
      [] name = "VARIATION SELECTOR-247" -> 917990
      [] name = "VS247" -> 917990
      [] name = "VARIATION SELECTOR-248" -> 917991
      [] name = "VS248" -> 917991
      [] name = "VARIATION SELECTOR-249" -> 917992
      [] name = "VS249" -> 917992
      [] name = "VARIATION SELECTOR-250" -> 917993
      [] name = "VS250" -> 917993
      [] name = "VARIATION SELECTOR-251" -> 917994
      [] name = "VS251" -> 917994
      [] name = "VARIATION SELECTOR-252" -> 917995
      [] name = "VS252" -> 917995
      [] name = "VARIATION SELECTOR-253" -> 917996
      [] name = "VS253" -> 917996
      [] name = "VARIATION SELECTOR-254" -> 917997
      [] name = "VS254" -> 917997
      [] name = "VARIATION SELECTOR-255" -> 917998
      [] name = "VS255" -> 917998
      [] name = "VARIATION SELECTOR-256" -> 917999
      [] name = "VS256" -> 917999
      [] OTHER -> -1

\* the sounds of a Hangul syllable: hangul_syllables of unicodedata, by
\* column (leading consonant, vowel, trailing consonant)
Jamo ==
    [L |->
    << <<"G">>, <<"G", "G">>, <<"N">>, <<"D">>, <<"D", "D">>, <<"R">>, <<"M">>,
       <<"B">>, <<"B", "B">>, <<"S">>, <<"S", "S">>, <<>>, <<"J">>, <<"J", "J">>,
       <<"C">>, <<"K">>, <<"T">>, <<"P">>, <<"H">> >>,
     V |->
    << <<"A">>, <<"A", "E">>, <<"Y", "A">>, <<"Y", "A", "E">>, <<"E", "O">>,
       <<"E">>, <<"Y", "E", "O">>, <<"Y", "E">>, <<"O">>, <<"W", "A">>,
       <<"W", "A", "E">>, <<"O", "E">>, <<"Y", "O">>, <<"U">>, <<"W", "E", "O">>,
       <<"W", "E">>, <<"W", "I">>, <<"Y", "U">>, <<"E", "U">>, <<"Y", "I">>,
       <<"I">> >>,
     T |->
    << <<>>, <<"G">>, <<"G", "G">>, <<"G", "S">>, <<"N">>, <<"N", "J">>,
       <<"N", "H">>, <<"D">>, <<"L">>, <<"L", "G">>, <<"L", "M">>, <<"L", "B">>,
       <<"L", "S">>, <<"L", "T">>, <<"L", "P">>, <<"L", "H">>, <<"M">>, <<"B">>,
       <<"B", "S">>, <<"S">>, <<"S", "S">>, <<"N", "G">>, <<"J">>, <<"C">>,
       <<"K">>, <<"T">>, <<"P">>, <<"H">> >> ]

\* the code point of the Hangul syllable made of the sounds s, -1 when s is
\* not a leading consonant, a vowel and a trailing consonant.  find_syllable
\* is the place in a column of the longest sound that a text starts with, 0
\* when it starts with none.
HangulSyllable(s) ==
    LET FindSyllable(t, column) ==
            IF \A k \in 1..Len(column) : ~StartsWith(t, column[k]) THEN 0
            ELSE CHOOSE k \in 1..Len(column) :
                    /\ StartsWith(t, column[k])
                    /\ \A j \in 1..Len(column) :
                          StartsWith(t, column[j]) => Len(column[j]) <= Len(column[k])
        Trailing(l, v, rest) ==
            IF Len(Jamo.T[FindSyllable(rest, Jamo.T)]) # Len(rest) THEN -1
            ELSE 44032 + ((l - 1) * 21 + (v - 1)) * 28 + (FindSyllable(rest, Jamo.T) - 1)
        Vowel(l, v, rest) ==
            IF v = 0 THEN -1 ELSE Trailing(l, v, SubSeq(rest, Len(Jamo.V[v]) + 1, Len(rest)))
        Leading(l, rest) == Vowel(l, FindSyllable(rest, Jamo.V), rest)
        From(l) == Leading(l, SubSeq(s, Len(Jamo.L[l]) + 1, Len(s)))
    IN  From(FindSyllable(s, Jamo.L))

\* unicodedata.lookup(name), for a name of one character: its code point, -1
\* when no character has the name.  The names of Hangul syllables and CJK
\* unified ideographs are taken apart, and only as they are written; any
\* other name is looked up whatever the case of its letters (Py_TOUPPER).
\* The number of a CJK unified ideograph is four or five hexadecimal digits,
\* the letters in upper case, in the ranges of is_unified_ideograph.
Lookup(name) ==
    LET RECURSIVE Text(_)
        \* the text of a sequence of characters
        Text(s) ==
            IF s = <<>> THEN ""
            ELSE IF Len(s) = 1 THEN s[1]
            ELSE Text(SubSeq(s, 1, Len(s) \div 2))
                    \o Text(SubSeq(s, Len(s) \div 2 + 1, Len(s)))
        Upper(ch) ==
            IF ch \in {Ascii[n] : n \in 66..91} THEN Ascii[Ord(ch) - 63] ELSE ch
        IsUnifiedIdeograph(code) ==
            \/ 13312 <= code /\ code <= 19903
            \/ 19968 <= code /\ code <= 40959
            \/ 131072 <= code /\ code <= 173791
            \/ 173824 <= code /\ code <= 177976
            \/ 177984 <= code /\ code <= 178205
            \/ 178208 <= code /\ code <= 183969
            \/ 183984 <= code /\ code <= 191456
            \/ 196608 <= code /\ code <= 201546
        UnifiedIdeograph(s) ==
            IF /\ Len(s) \in {4, 5}
               /\ \A k \in 1..Len(s) : s[k] \in Digits \cup {"A", "B", "C", "D", "E", "F"}
               /\ IsUnifiedIdeograph(BaseValue(s, 16))
            THEN BaseValue(s, 16)
            ELSE -1
    IN  IF StartsWith(name, <<"H", "A", "N", "G", "U", "L", " ", "S", "Y", "L", "L", "A",
                              "B", "L", "E", " ">>)
        THEN HangulSyllable(SubSeq(name, 17, Len(name)))
        ELSE IF StartsWith(name, <<"C", "J", "K", " ", "U", "N", "I", "F", "I", "E", "D",
                                   " ", "I", "D", "E", "O", "G", "R", "A", "P", "H", "-">>)
        THEN UnifiedIdeograph(SubSeq(name, 23, Len(name)))
        ELSE UnicodeNames(Text([k \in 1..Len(name) |-> Upper(name[k])]))

\* \N{name} at p[i] = "\": the character of that name
NamedEscape(p, i) ==
    LET end == Until(p, i + 3, "}")
        Named(code) ==
            IF code = -1 THEN ReError ELSE [st |-> "ok", i |-> end + 1, code |-> code]
    IN  IF CharAt(p, i + 2) # "{" THEN ReError
        ELSE IF end <= i + 3 THEN ReError
        ELSE Named(Lookup(SubSeq(p, i + 3, end - 1)))

\* whether group gid is a closed group: state.checkgroup
CheckGroup(ps, gid) == gid <= ps.ng /\ ps.widths[gid] # <<>>

\* whether group gid can be referred to here: checkgroup in _escape and
\* state.checklookbehindgroup
CanRefer(ps, gid) == ps.lb # 0 => (CheckGroup(ps, gid) /\ gid < ps.lb)

\* _escape: the escape at p[i] = "\", outside a character set
Escape(p, i, ps, fl) ==
    LET c == CharAt(p, i + 1)
        Ok(node, j) == [st |-> "ok", node |-> node, i |-> j]
        hex == HexEscape(p, i, IF c = "x" THEN 2 ELSE IF c = "u" THEN 4 ELSE 8)
        named == NamedEscape(p, i)
        oct0 == WhileEnd(p, i + 2, 2, OctDigits)
        two == CharAt(p, i + 2) \in Digits
        three == /\ two
                 /\ c \in OctDigits
                 /\ CharAt(p, i + 2) \in OctDigits
                 /\ CharAt(p, i + 3) \in OctDigits
        group == DecimalValue(SubSeq(p, i + 1, IF two THEN i + 2 ELSE i + 1))
    IN  IF c = "" THEN ReError
        ELSE IF c = "A" THEN Ok([op |-> "at", at |-> "beginning_string"], i + 2)
        ELSE IF c = "Z" THEN Ok([op |-> "at", at |-> "end_string"], i + 2)
        ELSE IF c = "b" THEN Ok([op |-> "at", at |-> "boundary"], i + 2)
        ELSE IF c = "B" THEN Ok([op |-> "at", at |-> "non_boundary"], i + 2)
        ELSE IF c \in {"d", "D", "s", "S", "w", "W"} 
        THEN Ok([op |-> "in", neg |-> FALSE, set |-> <<[k |-> "category", cat |-> c]>>,
                 ic |-> Ic(fl)], i + 2)
        ELSE IF c \in {"a", "f", "n", "r", "t", "v", "\\"}
        THEN Ok(Literal(EscapeCode(c), fl), i + 2)
        ELSE IF c \in {"x", "u", "U"}
        THEN IF hex.st # "ok" THEN hex ELSE Ok(Literal(hex.code, fl), hex.i)
        ELSE IF c = "N"
        THEN IF named.st # "ok" THEN named ELSE Ok(Literal(named.code, fl), named.i)
        ELSE IF c = "0"
        THEN Ok(Literal(BaseValue(SubSeq(p, i + 1, oct0 - 1), 8), fl), oct0)
        ELSE IF c \in Digits
        THEN IF three
             THEN IF BaseValue(SubSeq(p, i + 1, i + 3), 8) > 255 THEN ReError
                  ELSE Ok(Literal(BaseValue(SubSeq(p, i + 1, i + 3), 8), fl), i + 4)
             ELSE IF group > ps.ng THEN ReError
             ELSE IF ~CheckGroup(ps, group) \/ ~CanRefer(ps, group) THEN ReError
             ELSE Ok([op |-> "groupref", n |-> group, ic |-> Ic(fl)],
                     IF two THEN i + 3 ELSE i + 2)
        ELSE IF c \in AsciiLetters THEN ReError
        ELSE Ok(Literal(Ord(c), fl), i + 2)

\* _class_escape: the escape at p[i] = "\", inside a character set
ClassEscape(p, i) ==
    LET c == CharAt(p, i + 1)
        Ok(item, j) == [st |-> "ok", item |-> item, i |-> j]
        hex == HexEscape(p, i, IF c = "x" THEN 2 ELSE IF c = "u" THEN 4 ELSE 8)
        named == NamedEscape(p, i)
        oct == WhileEnd(p, i + 2, 2, OctDigits)
    IN  IF c = "" THEN ReError
        ELSE IF c \in {"a", "b", "f", "n", "r", "t", "v", "\\"}
        THEN Ok([k |-> "literal", code |-> EscapeCode(c)], i + 2)
        ELSE IF c \in {"d", "D", "s", "S", "w", "W"}
        THEN Ok([k |-> "category", cat |-> c], i + 2)
        ELSE IF c \in {"x", "u", "U"}
        THEN IF hex.st # "ok" THEN hex
             ELSE Ok([k |-> "literal", code |-> hex.code], hex.i)
        ELSE IF c = "N"
        THEN IF named.st # "ok" THEN named
             ELSE Ok([k |-> "literal", code |-> named.code], named.i)
        ELSE IF c \in OctDigits
        THEN IF BaseValue(SubSeq(p, i + 1, oct - 1), 8) > 255 THEN ReError
             ELSE Ok([k |-> "literal", code |-> BaseValue(SubSeq(p, i + 1, oct - 1), 8)],
                     oct)
        ELSE IF c \in AsciiLetters \cup Digits THEN ReError
        ELSE Ok([k |-> "literal", code |-> Ord(c)], i + 2)

\* one member of a character set, at position i: an escape or a character
SetItem(p, i) ==
    IF p[i] = "\\" THEN ClassEscape(p, i)
    ELSE [st |-> "ok", item |-> [k |-> "literal", code |-> Ord(p[i])], i |-> i + 1]

\* the items of a character set from position i, up to its closing "]"
RECURSIVE ParseSet(_, _, _)
ParseSet(p, i, set) ==
    LET this == CharAt(p, i)
        \* code1 "-" code2, that being the character after the "-"
        Range(code1, that, code2) ==
            IF that = "" THEN ReError
            ELSE IF that = "]"
            THEN [st |-> "ok",
                  set |-> set \o <<code1.item, [k |-> "literal", code |-> Ord("-")]>>,
                  i |-> code1.i + 2]
            ELSE IF code2.st # "ok" THEN code2
            ELSE IF code1.item.k # "literal" \/ code2.item.k # "literal" THEN ReError
            ELSE IF code2.item.code < code1.item.code THEN ReError
            ELSE ParseSet(p, code2.i,
                          Append(set, [k |-> "range", lo |-> code1.item.code,
                                       hi |-> code2.item.code]))
        Member(code1) ==
            IF code1.st # "ok" THEN code1
            ELSE IF CharAt(p, code1.i) = "-"
            THEN Range(code1, CharAt(p, code1.i + 1), SetItem(p, code1.i + 1))
            ELSE ParseSet(p, code1.i, Append(set, code1.item))
    IN  IF this = "" THEN ReError
        ELSE IF this = "]" /\ set # <<>> THEN [st |-> "ok", set |-> set, i |-> i + 1]
        ELSE Member(SetItem(p, i))

\* _uniq: the items without those that come a second time
RECURSIVE _uniq(_)
_uniq(items) ==
    LET n == Len(items)
        Added(init) ==
            IF \E k \in 1..Len(init) : init[k].k = items[n].k /\ init[k] = items[n]
            THEN init ELSE Append(init, items[n])
    IN  IF n <= 1 THEN items ELSE Added(_uniq(SubSeq(items, 1, n - 1)))

\* _parse at "[": a character set
ParseIn(p, i, fl) ==
    LET negate == CharAt(p, i + 1) = "^"
        \* a set of one character that is not negated is that character
        In(set) ==
            IF Len(set) = 1 /\ set[1].k = "literal" /\ ~negate
            THEN Literal(set[1].code, fl)
            ELSE [op |-> "in", neg |-> negate, set |-> set, ic |-> Ic(fl)]
        Node(set) ==
            IF set.st # "ok" THEN set
            ELSE [st |-> "ok", i |-> set.i, node |-> In(_uniq(set.set))]
    IN  Node(ParseSet(p, IF negate THEN i + 2 ELSE i + 1, <<>>))

\* the end of the run of digits that starts at position i
DigitsEnd(p, i) ==
    CHOOSE j \in i..(Len(p) + 1) :
        CharAt(p, j) \notin Digits /\ \A k \in i..(j - 1) : p[k] \in Digits

\* The repeat that the text at position i stands for, i being at one of
\* "*", "+", "?", "{": its bounds (max = MAXREPEAT: no bound) and the position
\* after it; a "{" that does not start a repeat is the literal "{".  The
\* counts are converted after the "}" is read, and with it the token after
\* it: a "\" that ends the pattern has failed by then.  int() does not take
\* more than MaxStrDigits digits, and that failure is not caught.
RepeatAt(p, i) ==
    LET lo_end == DigitsEnd(p, i + 1)
        comma == CharAt(p, lo_end) = ","
        hi_end == IF comma THEN DigitsEnd(p, lo_end + 1) ELSE lo_end
        lo == SubSeq(p, i + 1, lo_end - 1)
        hi == IF comma THEN SubSeq(p, lo_end + 1, hi_end - 1) ELSE lo
        TooLong == Failure("ValueError",
                           "Exceeds the limit (4300 digits) for integer string conversion")
        TooLarge == Failure("OverflowError", "the repetition number is too large")
        Bounds(min, max) ==
            IF NumLess(max, min) THEN ReError
            ELSE [st |-> "ok", min |-> min, max |-> max, i |-> hi_end + 1]
    IN  IF p[i] = "?" THEN [st |-> "ok", min |-> Zero, max |-> <<1>>, i |-> i + 1]
        ELSE IF p[i] = "*" THEN [st |-> "ok", min |-> Zero, max |-> MAXREPEAT, i |-> i + 1]
        ELSE IF p[i] = "+" THEN [st |-> "ok", min |-> <<1>>, max |-> MAXREPEAT, i |-> i + 1]
        ELSE IF CharAt(p, i + 1) = "}" \/ CharAt(p, hi_end) # "}"
        THEN [st |-> "literal"]
        ELSE IF hi_end + 1 = Len(p) /\ p[Len(p)] = "\\" THEN ReError
        ELSE IF Len(lo) > MaxStrDigits THEN TooLong
        ELSE IF lo # <<>> /\ ~NumLess(NumOf(lo), MAXREPEAT) THEN TooLarge
        ELSE IF Len(hi) > MaxStrDigits THEN TooLong
        ELSE IF hi # <<>> /\ ~NumLess(NumOf(hi), MAXREPEAT) THEN TooLarge
        ELSE Bounds(IF lo # <<>> THEN NumOf(lo) ELSE Zero,
                    IF hi # <<>> THEN NumOf(hi) ELSE MAXREPEAT)

\* SubPattern.getwidth: <<lo, hi>>, the least and the greatest number of
\* characters a pattern takes, each of them up to MAXWIDTH;
\* widths[n] is the width of the closed group n, which the pattern of the
\* group keeps once it is computed
RECURSIVE Width(_, _)
RECURSIVE TotalWidth(_, _)
RECURSIVE BranchWidth(_, _)
BranchWidth(items, widths) ==
    LET Both(w, others) == <<NumMin(w[1], others[1]), IF NumLess(w[2], others[2]) THEN others[2] ELSE w[2]>>
    IN  IF Len(items) = 1 THEN Width(items[1], widths)
        ELSE Both(Width(items[1], widths), BranchWidth(Tail(items), widths))

\* lo and hi once the loop of getwidth has gone through the items, from the
\* first to the last: each item adds its width, but for a repeat without
\* bound of what can take a character, which sets hi to MAXWIDTH
TotalWidth(items, widths) ==
    IF items = <<>> THEN <<Zero, Zero>>
    ELSE LET node == items[Len(items)]
             op == node.op
             Sum(w, so_far) == <<NumAdd(so_far[1], w[1]), NumAdd(so_far[2], w[2])>>
             Times(w, so_far) ==
                 <<NumAdd(so_far[1], NumMul(w[1], node.min)),
                   IF node.max = MAXREPEAT /\ w[2] # Zero THEN MAXWIDTH
                   ELSE NumAdd(so_far[2], NumMul(w[2], node.max))>>
             UpTo(w) == <<Zero, w[2]>>
             before == SubSeq(items, 1, Len(items) - 1)
         IN  IF op = "repeat"
             THEN Times(Width(node.item, widths), TotalWidth(before, widths))
             ELSE Sum(IF op \in {"literal", "any", "in"} THEN <<<<1>>, <<1>>>>
                      ELSE IF op = "branch" THEN BranchWidth(node.items, widths)
                      ELSE IF op = "group" /\ node.n # 0 THEN widths[node.n]
                      ELSE IF op \in {"atomic", "group"} THEN Width(node.item, widths)
                      ELSE IF op = "groupref" THEN widths[node.n]
                      ELSE IF op = "groupref_exists"
                      THEN IF node.else
                           THEN BranchWidth(<<node.yes, node.no>>, widths)
                           ELSE UpTo(Width(node.yes, widths))
                      ELSE <<Zero, Zero>>,
                      TotalWidth(before, widths))

Width(items, widths) ==
    LET Capped(w) == <<NumMin(w[1], MAXWIDTH), NumMin(w[2], MAXWIDTH)>>
    IN  Capped(TotalWidth(items, widths))

\* _parse_flags from the flag letter at position i: the flags turned on
RECURSIVE AddFlags(_, _, _)
AddFlags(p, i, add) ==
    LET all == add \cup {p[i]}
        next == CharAt(p, i + 1)
    IN  IF p[i] = "L" THEN ReError
        ELSE IF p[i] \in {"a", "u"} /\ all \cap {"a", "u"} # {p[i]} THEN ReError
        ELSE IF next = "" THEN ReError
        ELSE IF next \in {")", "-", ":"} THEN [st |-> "ok", add |-> all, i |-> i + 1]
        ELSE IF next \notin {"i", "L", "m", "s", "x", "a", "t", "u"} THEN ReError
        ELSE AddFlags(p, i + 1, all)

\* _parse_flags from the flag letter at position i, after "-": the flags
\* turned off
RECURSIVE DelFlags(_, _, _)
DelFlags(p, i, del) ==
    LET next == CharAt(p, i + 1)
    IN  IF CharAt(p, i) \notin {"i", "L", "m", "s", "x", "a", "t", "u"} THEN ReError
        ELSE IF p[i] \in {"a", "u", "L"} THEN ReError
        ELSE IF next = ":" THEN [st |-> "ok", del |-> del \cup {p[i]}, i |-> i + 1]
        ELSE DelFlags(p, i + 1, del \cup {p[i]})

\* _parse_flags at position i, after "(?": the flags turned on and off and
\* the position of the ")" or ":" that ends them
ParseFlags(p, i) ==
    LET add == IF p[i] = "-" THEN [st |-> "ok", add |-> {}, i |-> i]
               ELSE AddFlags(p, i, {})
        del == IF p[add.i] = "-" THEN DelFlags(p, add.i + 1, {})
               ELSE [st |-> "ok", del |-> {}, i |-> add.i]
    IN  IF add.st # "ok" THEN add
        ELSE IF p[add.i] = ")"
        THEN [st |-> "ok", global |-> TRUE, add |-> add.add, del |-> {}, i |-> add.i]
        ELSE IF "t" \in add.add THEN ReError
        ELSE IF del.st # "ok" THEN del
        ELSE IF "t" \in del.del \/ add.add \cap del.del # {} THEN ReError
        ELSE [st |-> "ok", global |-> FALSE, add |-> add.add, del |-> del.del,
              i |-> del.i]

\* str.isidentifier() of a name of ASCII characters
IsIdentifier(name) ==
    /\ name # <<>>
    /\ name[1] \in AsciiLetters \cup {"_"}
    /\ \A k \in 1..Len(name) : name[k] \in AsciiLetters \cup Digits \cup {"_"}

\* state.groupdict.get(name): 0 for None
GroupNamed(ps, name) ==
    IF \E k \in 1..Len(ps.names) : ps.names[k].name = name
    THEN ps.names[CHOOSE k \in 1..Len(ps.names) : ps.names[k].name = name].gid
    ELSE 0

\* The state ps of a parse (class State): the number ng of groups opened so
\* far, widths[n] the width of group n once it is closed (<<>> while it is
\* open), the names of the named groups, lb the lookbehindgroups (0: None),
\* refs the group numbers that conditionals refer to, flags the global flags.
\* _parse_sub and _parse: ps is the state, fl the flags in force; top: this
\* is the whole pattern; first: this is its first alternative
RECURSIVE ParseSub(_, _, _, _, _, _)
RECURSIVE ParseSeq(_, _, _, _, _, _)

\* _parse at "(", for what is closed by its own ")": a capturing group (with
\* a name or without), (?:...), (?flags:...), (?>...), a lookahead or a
\* lookbehind.  sub_fl is the flags in force inside; kind is one of
\* "capture", "plain", "flags", "atomic", "=", "!", "<=", "<!"; body_at is
\* where the contents start.
ParseBody(p, body_at, ps, fl, subpattern, kind, name, sub_fl, first) ==
    LET capture == kind = "capture"
        behind == kind \in {"<=", "<!"}
        gid == ps.ng + 1
        ps1 == IF capture
               THEN [ps EXCEPT !.ng = gid, !.widths = Append(@, <<>>),
                               !.names = IF name = <<>> THEN @
                                         ELSE Append(@, [name |-> name, gid |-> gid])]
               ELSE IF behind /\ ps.lb = 0 THEN [ps EXCEPT !.lb = ps.ng + 1]
               ELSE ps
        \* after the contents
        Closed(body, width) ==
            LET ps2 == IF capture THEN [body.ps EXCEPT !.widths[gid] = width]
                       ELSE IF behind THEN [body.ps EXCEPT !.lb = ps.lb]
                       ELSE body.ps
                node == IF capture THEN [op |-> "group", n |-> gid, item |-> body.items]
                        ELSE IF kind \in {"plain", "flags"}
                        THEN [op |-> "group", n |-> 0, item |-> body.items,
                              flags |-> (kind = "flags")]
                        ELSE IF kind = "atomic" THEN [op |-> "atomic", item |-> body.items]
                        ELSE [op |-> "assert", neg |-> (kind \in {"!", "<!"}),
                              behind |-> behind,
                              width |-> IF behind THEN width ELSE <<>>,
                              item |-> body.items]
            IN  IF body.st # "ok" THEN body
                ELSE IF CharAt(p, body.i) # ")" THEN ReError
                ELSE ParseSeq(p, body.i + 1, ps2, fl, first, Append(subpattern, node))
        Close(body) == Closed(body, Width(body.items, body.ps.widths))
    IN  IF capture /\ name # <<>> /\ GroupNamed(ps, name) # 0 THEN ReError
        ELSE Close(ParseSub(p, body_at, ps1, sub_fl, FALSE, <<>>))

\* _parse at "(?(": a conditional on a group, by number or by name
ParseConditional(p, i, ps, fl, subpattern, first) ==
    LET name_end == Until(p, i + 3, ")")
        condname == SubSeq(p, i + 3, name_end - 1)
        named == IsIdentifier(condname)
        number == Strip(condname)
        group == NumOf(IntDigits(Unsigned(number)))
        condgroup == IF named THEN GroupNamed(ps, condname) ELSE NumValue(group)
        ps1 == IF named THEN ps ELSE [ps EXCEPT !.refs = @ \cup {condgroup}]
        No(item_yes, else, item_no) ==
            IF item_no.st # "ok" THEN item_no
            ELSE IF CharAt(p, item_no.i) # ")" THEN ReError
            ELSE ParseSeq(p, item_no.i + 1, item_no.ps, fl, first,
                          Append(subpattern,
                                 [op |-> "groupref_exists", n |-> condgroup,
                                  yes |-> item_yes.items, else |-> else,
                                  no |-> item_no.items]))
        Yes(item_yes) ==
            IF item_yes.st # "ok" THEN item_yes
            ELSE No(item_yes, CharAt(p, item_yes.i) = "|",
                    IF CharAt(p, item_yes.i) = "|"
                    THEN ParseSeq(p, item_yes.i + 1, item_yes.ps, fl, FALSE, <<>>)
                    ELSE [item_yes EXCEPT !.items = <<>>])
    IN  IF name_end <= i + 3 THEN ReError
        ELSE IF ~named /\ ~IntLiteral(number) THEN ReError
        ELSE IF ~named /\ (Head(number) = "-" \/ ~NumLess(group, MAXGROUPS))
        THEN ReError
        ELSE IF condgroup = 0 THEN ReError
        ELSE IF ~CanRefer(ps, condgroup) THEN ReError
        ELSE Yes(ParseSeq(p, name_end + 1, ps1, fl, FALSE, <<>>))

\* _parse at "(": a group or an extension
ParseGroup(p, i, ps, fl, first, subpattern) ==
    LET ext == CharAt(p, i + 1) = "?"
        char == CharAt(p, i + 2)
        char2 == CharAt(p, i + 3)
        name_end == Until(p, i + 4, IF char2 = "<" THEN ">" ELSE ")")
        name == SubSeq(p, i + 4, name_end - 1)
        gid == GroupNamed(ps, name)
        comment_end == Until(p, i + 3, ")")
        \* the flags of (?flags) or (?flags:...); _combine_flags gives those
        \* in force inside the latter
        flags == ParseFlags(p, i + 2)
        \* what follows: the contents of a group, or more items
        Body(body_at, kind, nm, sub_fl) ==
            [do |-> "body", at |-> body_at, kind |-> kind, name |-> nm, fl |-> sub_fl]
        Continue(j, ps1, fl1, items) ==
            [do |-> "seq", at |-> j, ps |-> ps1, fl |-> fl1, items |-> items]
        Fail(r) == [do |-> "fail", res |-> r]
        Do(plan) ==
            IF plan.do = "body"
            THEN ParseBody(p, plan.at, ps, fl, subpattern, plan.kind, plan.name,
                           plan.fl, first)
            ELSE IF plan.do = "seq"
            THEN ParseSeq(p, plan.at, plan.ps, plan.fl, first, plan.items)
            ELSE IF plan.do = "conditional"
            THEN ParseConditional(p, i, ps, fl, subpattern, first)
            ELSE plan.res
    IN  Do(IF ~ext THEN Body(i + 1, "capture", <<>>, fl)
           ELSE IF char = "" THEN Fail(ReError)
           ELSE IF char = "P"
           THEN IF char2 \notin {"<", "="} THEN Fail(ReError)
                ELSE IF name_end <= i + 4 \/ ~IsIdentifier(name) THEN Fail(ReError)
                ELSE IF char2 = "<" THEN Body(name_end + 1, "capture", name, fl)
                ELSE IF gid = 0 \/ ~CheckGroup(ps, gid) \/ ~CanRefer(ps, gid)
                THEN Fail(ReError)
                ELSE Continue(name_end + 1, ps, fl,
                         Append(subpattern,
                                [op |-> "groupref", n |-> gid, ic |-> Ic(fl)]))
           ELSE IF char = ":" THEN Body(i + 3, "plain", <<>>, fl)
           ELSE IF char = "#"
           THEN IF comment_end <= 0 THEN Fail(ReError)
                ELSE Continue(comment_end + 1, ps, fl, subpattern)
           ELSE IF char \in {"=", "!"} THEN Body(i + 3, char, <<>>, fl)
           ELSE IF char = "<"
           THEN IF char2 \notin {"=", "!"} THEN Fail(ReError)
                ELSE Body(i + 4, IF char2 = "=" THEN "<=" ELSE "<!", <<>>, fl)
           ELSE IF char = "(" THEN [do |-> "conditional"]
           ELSE IF char = ">" THEN Body(i + 3, "atomic", <<>>, fl)
           ELSE IF char \in {"i", "L", "m", "s", "x", "a", "t", "u", "-"}
           THEN IF flags.st # "ok" THEN Fail(flags)
                ELSE IF flags.global
                THEN IF ~first \/ subpattern # <<>> THEN Fail(ReError)
                     ELSE Continue(flags.i + 1, [ps EXCEPT !.flags = @ \cup flags.add],
                              fl \cup flags.add, subpattern)
                ELSE Body(flags.i + 1, "flags", <<>>,
                          ((IF flags.add \cap {"a", "u"} # {} THEN fl \ {"a", "u"}
                            ELSE fl) \cup flags.add) \ flags.del)
           ELSE Fail(ReError))

\* _parse at a repeat character: repeat the last item of subpattern, or
\* the contents of a group that neither captures nor changes the flags
ParseRepeat(p, i, ps, fl, first, subpattern) ==
    LET n == Len(subpattern)
        last == subpattern[n]
        item == IF last.op = "group" /\ last.n = 0 /\ ~last.flags THEN last.item
                ELSE <<last>>
        Repeat(rep, kind) ==
            IF rep.st = "literal"
            THEN ParseSeq(p, i + 1, ps, fl, first,
                          Append(subpattern, Literal(Ord("{"), fl)))
            ELSE IF rep.st # "ok" THEN rep
            ELSE IF n = 0 THEN ReError
            ELSE IF last.op = "at" \/ last.op = "repeat" THEN ReError
            ELSE ParseSeq(p, IF kind = "max" THEN rep.i ELSE rep.i + 1, ps, fl, first,
                          Append(SubSeq(subpattern, 1, n - 1),
                                 [op |-> "repeat", kind |-> kind, min |-> rep.min,
                                  max |-> rep.max, item |-> item]))
        Kind(rep) ==
            IF rep.st # "ok" THEN "max"
            ELSE IF CharAt(p, rep.i) = "?" THEN "min"
            ELSE IF CharAt(p, rep.i) = "+" THEN "possessive"
            ELSE "max"
        Counted(rep) == Repeat(rep, Kind(rep))
    IN  Counted(RepeatAt(p, i))

\* _parse: the items from position i up to "|", ")" or the end of the
\* pattern; at the end the groups that neither capture nor change the
\* flags are unpacked: their contents take their place
ParseSeq(p, i, ps, fl, first, subpattern) ==
    LET this == CharAt(p, i)
        RECURSIVE Unpacked(_)
        Unpacked(items) ==
            IF items = <<>> THEN items
            ELSE (IF items[1].op = "group" /\ items[1].n = 0 /\ ~items[1].flags
                  THEN items[1].item ELSE <<items[1]>>)
                 \o Unpacked(Tail(items))
        Next(j, node) == ParseSeq(p, j, ps, fl, first, Append(subpattern, node))
        Item(r) == IF r.st # "ok" THEN r ELSE Next(r.i, r.node)
        line_end == Until(p, i + 1, "\n")
    IN  IF this \in {"", "|", ")"}
        THEN [st |-> "ok", items |-> Unpacked(subpattern), i |-> i, ps |-> ps]
        ELSE IF "x" \in fl /\ this \in {" ", "\t", "\n", "\r", "\f"}
        THEN ParseSeq(p, i + 1, ps, fl, first, subpattern)
        ELSE IF "x" \in fl /\ this = "#"
        THEN IF line_end = -1 THEN ReError
             ELSE ParseSeq(p, IF line_end = 0 THEN Len(p) + 1 ELSE line_end + 1,
                           ps, fl, first, subpattern)
        ELSE IF this = "\\"
        THEN Item(Escape(p, i, ps, fl))
        ELSE IF this = "[" THEN Item(ParseIn(p, i, fl))
        ELSE IF this \in {"*", "+", "?", "{"} THEN ParseRepeat(p, i, ps, fl, first, subpattern)
        ELSE IF this = "." THEN Next(i + 1, [op |-> "any", all |-> "s" \in fl])
        ELSE IF this = "(" THEN ParseGroup(p, i, ps, fl, first, subpattern)
        ELSE IF this = "^"
        THEN Next(i + 1, [op |-> "at",
                         at |-> IF "m" \in fl THEN "beginning_line" ELSE "beginning"])
        ELSE IF this = "$"
        THEN Next(i + 1, [op |-> "at", at |-> IF "m" \in fl THEN "end_line" ELSE "end"])
        ELSE Next(i + 1, Literal(Ord(this), fl))

\* _parse_sub: the alternatives from position i, separated by "|".  The
\* items that all alternatives start with are moved out of the branch, as
\* long as no alternative is empty: items are the same when they are the
\* same character, set, anchor or backreference (any other item holds a
\* pattern of its own, and no two patterns are the same object).  What is
\* left is a character set when each alternative is one character or one
\* set that is not negated, and a branch otherwise.
ParseSub(p, i, ps, fl, top, items) ==
    LET Shared(alts) ==
            /\ \A k \in 1..Len(alts) : alts[k] # <<>>
            /\ alts[1][1].op \in {"literal", "any", "at", "in", "groupref"}
            /\ \A k \in 2..Len(alts) :
                  alts[k][1].op = alts[1][1].op /\ alts[k][1] = alts[1][1]
        IsSet(alts) ==
            \A k \in 1..Len(alts) :
                /\ Len(alts[k]) = 1
                /\ \/ alts[k][1].op = "literal"
                   \/ alts[k][1].op = "in" /\ ~alts[k][1].neg
        RECURSIVE Members(_)
        Members(alts) ==
            IF alts = <<>> THEN <<>>
            ELSE (IF alts[1][1].op = "in" THEN alts[1][1].set
                  ELSE <<[k |-> "literal", code |-> alts[1][1].code]>>)
                 \o Members(Tail(alts))
        RECURSIVE Branch(_, _)
        Branch(alts, prefix) ==
            IF Shared(alts)
            THEN Branch([k \in 1..Len(alts) |-> Tail(alts[k])], Append(prefix, alts[1][1]))
            ELSE IF IsSet(alts)
            THEN Append(prefix, [op |-> "in", neg |-> FALSE, set |-> _uniq(Members(alts)),
                                 ic |-> alts[1][1].ic])
            ELSE Append(prefix, [op |-> "branch", items |-> alts])
        More(item) ==
            IF item.st # "ok" THEN item
            ELSE IF CharAt(p, item.i) = "|"
            THEN ParseSub(p, item.i + 1, item.ps, fl, top, Append(items, item.items))
            ELSE [st |-> "ok",
                  items |-> IF items = <<>> THEN item.items
                            ELSE Branch(Append(items, item.items), <<>>),
                  i |-> item.i, ps |-> item.ps]
    IN  More(ParseSeq(p, i, ps, IF top THEN ps.flags ELSE fl, top /\ items = <<>>, <<>>))

\* _compile: whether the code generator rejects some item, at any depth: a
\* repeat when the template flag is set, a lookbehind that looks further
\* behind than MAXCODE or that is not of one width
RECURSIVE Rejected(_, _)
Rejected(items, template) ==
    \E k \in 1..Len(items) :
        LET node == items[k]
            op == node.op
        IN  \/ op = "repeat" /\ template
            \/ /\ op = "assert" /\ node.behind
               /\ (NumLess(MAXCODE, node.width[1]) \/ node.width[1] # node.width[2])
            \/ op = "branch"
                 /\ \E b \in 1..Len(node.items) : Rejected(node.items[b], template)
            \/ op \in {"repeat", "group", "atomic", "assert"}
                 /\ Rejected(node.item, template)
            \/ op = "groupref_exists"
                 /\ (Rejected(node.yes, template) \/ Rejected(node.no, template))

\* re.compile(pattern): the pattern, its number of groups and the least
\* number of characters that it takes, up to MAXCODE (the min of its INFO
\* block, _compile_info), or the failure.
\* After the parse, in this order: fix_flags, the ")" that closes nothing, the
\* conditionals on groups that the pattern does not have, the code generator.
Compile(p) ==
    LET Checked(sub) ==
            IF sub.st # "ok" THEN sub
            ELSE IF {"a", "u"} \subseteq sub.ps.flags
            THEN Failure("ValueError", "ASCII and UNICODE flags are incompatible")
            ELSE IF sub.i <= Len(p) THEN ReError
            ELSE IF \E g \in sub.ps.refs : g > sub.ps.ng THEN ReError
            ELSE IF Rejected(sub.items, "t" \in sub.ps.flags) THEN ReError
            ELSE [st |-> "ok", items |-> sub.items, groups |-> sub.ps.ng,
                  width |-> NumMin(Width(sub.items, sub.ps.widths)[1], MAXCODE)]
    IN  Checked(ParseSub(p, 1,
                         [ng |-> 0, widths |-> <<>>, names |-> <<>>, lb |-> 0,
                          refs |-> {}, flags |-> {}],
                         {}, TRUE, <<>>))

\* a word character, and with it the categories of a character (in InSet)
IsWord(ch) == ch \in AsciiLetters \cup Digits \cup {"_"}

\* the lower-case form of an ASCII code
Lower(code) == IF 65 <= code /\ code <= 90 THEN code + 32 ELSE code

\* The codes that a character stands for in a pattern: its own, and when
\* case is ignored the codes c with lower(c) = lower(ch) or the two alike by
\* the table of re/_casefix.py.  For the ASCII characters and Unicode rules
\* these are, beside the two cases of a letter, U+0130 and U+0131 for "i",
\* U+017F for "s" and U+212A for "k".
Codes(ch, ic) ==
    LET x == Lower(Ord(ch))
    IN  IF ic = "no" THEN {Ord(ch)}
        ELSE {x}
             \cup (IF 97 <= x /\ x <= 122 THEN {x - 32} ELSE {})
             \cup (IF ic = "ascii" THEN {}
                   ELSE IF x = 105 THEN {304, 305}
                   ELSE IF x = 115 THEN {383}
                   ELSE IF x = 107 THEN {8490}
                   ELSE {})

\* whether a character set holds ch
InSet(ch, node) ==
    LET InCategory(cat) ==
            CASE cat = "d" -> ch \in Digits
              [] cat = "D" -> ch \notin Digits
              [] cat = "s" -> IsSpace(ch)
              [] cat = "S" -> ~IsSpace(ch)
              [] cat = "w" -> IsWord(ch)
              [] cat = "W" -> ~IsWord(ch)
    IN
    node.neg #
        (\E n \in 1..Len(node.set) :
            LET item == node.set[n]
            IN  CASE item.k = "literal" -> item.code \in Codes(ch, node.ic)
                  [] item.k = "range" ->
                        \E c \in Codes(ch, node.ic) : item.lo <= c /\ c <= item.hi
                  [] item.k = "category" -> InCategory(item.cat))

\* whether an anchor or boundary holds before s[i]
AtHolds(at, s, i) ==
    LET before == i > 1 /\ IsWord(s[i - 1])
        after == i <= Len(s) /\ IsWord(s[i])
    IN  CASE at \in {"beginning", "beginning_string"} -> i = 1
          [] at = "beginning_line" -> i = 1 \/ s[i - 1] = "\n"
          [] at = "end" -> i = Len(s) + 1 \/ (i = Len(s) /\ s[i] = "\n")
          [] at = "end_line" -> i = Len(s) + 1 \/ s[i] = "\n"
          [] at = "end_string" -> i = Len(s) + 1
          [] at = "boundary" -> s # <<>> /\ before # after
          [] at = "non_boundary" -> s # <<>> /\ before = after

\* whether the character s[i] is there and is the one that a node of one
\* character stands for: a "literal", a set or "any"
Takes(node, s, i) ==
    /\ i <= Len(s)
    /\ CASE node.op = "literal" -> node.code \in Codes(s[i], node.ic)
         [] node.op = "in" -> InSet(s[i], node)
         [] node.op = "any" -> node.all \/ s[i] # "\n"

\* _simple: the one node of one character that the items of a repeat come
\* to, groups that do not capture set aside; a record without op when the
\* items are anything else
RECURSIVE _simple(_)
_simple(item) ==
    IF Len(item) # 1 THEN [r |-> "none"]
    ELSE IF item[1].op \in {"literal", "in", "any"} THEN item[1]
    ELSE IF item[1].op = "group" /\ item[1].n = 0 THEN _simple(item[1].item)
    ELSE [r |-> "none"]

\* The marks of the engine (state->mark up to state->lastmark): marks[2n - 1]
\* is where group n starts and marks[2n] where it ends, 0 for a mark that is
\* not set.
\* an attempt that has failed: the marks stay as it leaves them
NoMatch(marks) == [m |-> FALSE, marks |-> marks]

\* The marks after the failed attempt r that started with the marks saved.
\* Inside a repeat the marks were pushed and are popped (MARK_PUSH,
\* MARK_POP); elsewhere only the number of marks is set back
\* (LASTMARK_SAVE, LASTMARK_RESTORE), and a mark that the attempt has moved
\* stays where it is.
Restored(r, saved, reps) ==
    IF reps > 0 THEN saved ELSE SubSeq(r.marks, 1, Len(saved))

\* The engine: match the nodes of todo, in order, from s[i].  reps is the
\* number of repeats that are open (state->repeat): those that the nodes of
\* todo are in the items of, REPEAT_ONE and possessive repeats not counted.
\* The first way to match that the backtracking finds is the result.  Two
\* nodes are made on the way: "mark" sets the mark k, "until" is a repeat
\* that still has min turns to make and max turns at most, the last turn
\* having started at last.
RECURSIVE Run(_, _, _, _, _)
RECURSIVE RunBranch(_, _, _, _, _, _, _, _)
RECURSIVE RunPossessive(_, _, _, _, _, _, _, _)

\* BRANCH: the alternatives from the k-th on, with the marks cur; saved are
\* the marks the branch started with
RunBranch(items, k, rest, s, i, cur, saved, reps) ==
    LET Tried(r) ==
            IF r.m THEN r
            ELSE RunBranch(items, k + 1, rest, s, i, Restored(r, saved, reps), saved, reps)
    IN  IF k > Len(items) THEN NoMatch(cur)
        ELSE Tried(Run(items[k] \o rest, s, i, cur, reps))

\* REPEAT_ONE, MIN_REPEAT_ONE, POSSESSIVE_REPEAT_ONE: a repeat of one node
\* of one character, unit
RunOne(node, unit, rest, s, i, marks, reps) ==
    LET \* a count, or 10^9 for a larger one: no string here is that long
        CountOf(x) == IF Len(x) > 9 THEN 1000000000 ELSE NumValue(x)
        lo == CountOf(node.min)
        hi == CountOf(node.max)
        \* the greatest count of characters from s[i] that unit takes
        most == CHOOSE c \in 0..(Len(s) + 1 - i) :
                    /\ c <= hi
                    /\ \A j \in 0..(c - 1) : Takes(unit, s, i + j)
                    /\ c = hi \/ ~Takes(unit, s, i + c)
        RECURSIVE Back(_, _)
        \* the rest after c characters, then after fewer
        Back(c, cur) ==
            LET Tried(r) == IF r.m THEN r ELSE Back(c - 1, Restored(r, marks, reps))
            IN  IF c < lo THEN NoMatch(cur) ELSE Tried(Run(rest, s, i + c, cur, reps))
        RECURSIVE Forth(_, _)
        \* the rest after c characters, then after more
        Forth(c, cur) ==
            LET Tried(r) ==
                    IF r.m THEN r
                    ELSE IF c < hi /\ Takes(unit, s, i + c)
                    THEN Forth(c + 1, Restored(r, marks, reps))
                    ELSE NoMatch(Restored(r, marks, reps))
            IN  Tried(Run(rest, s, i + c, cur, reps))
    IN  IF node.kind = "min"
        THEN IF \A j \in 0..(lo - 1) : Takes(unit, s, i + j) THEN Forth(lo, marks)
             ELSE NoMatch(marks)
        ELSE IF most < lo THEN NoMatch(marks)
        ELSE IF node.kind = "possessive" THEN Run(rest, s, i + most, marks, reps)
        ELSE Back(most, marks)

\* MAX_UNTIL and MIN_UNTIL: the repeat node at the end of one turn of its
\* items.  One more turn of a greedy repeat pushes the marks and pops them
\* when it fails; the rest after a lazy repeat is tried as an alternative of a
\* branch is.  The rest is outside the repeat.
RunUntil(node, rest, s, i, marks, reps) ==
    LET again == node.item
                   \o <<[node EXCEPT !.min = IF @ = Zero THEN @ ELSE NumPred(@),
                                     !.max = IF @ = MAXREPEAT THEN @ ELSE NumPred(@),
                                     !.last = IF node.min # Zero THEN @ ELSE i]>>
                   \o rest
        may == node.max # Zero /\ i # node.last
        Greedy(r) == IF r.m THEN r ELSE Run(rest, s, i, marks, reps - 1)
        Lazy(r) ==
            IF r.m THEN r
            ELSE IF may THEN Run(again, s, i, Restored(r, marks, reps - 1), reps)
            ELSE NoMatch(Restored(r, marks, reps - 1))
    IN  IF node.min # Zero THEN Run(again, s, i, marks, reps)
        ELSE IF node.kind = "max"
        THEN IF may THEN Greedy(Run(again, s, i, marks, reps))
             ELSE Run(rest, s, i, marks, reps - 1)
        ELSE Lazy(Run(rest, s, i, marks, reps - 1))

\* POSSESSIVE_REPEAT: the turns of a possessive repeat of item, each matched
\* on its own; min turns have to be made and max at most, the last turn
\* having started at last.  A turn that fails after the first min ends the
\* repeat, with the marks as they were before it.
RunPossessive(item, min, max, s, i, last, marks, reps) ==
    LET Needed(r) ==
            IF r.m THEN RunPossessive(item, NumPred(min), IF max = MAXREPEAT THEN max ELSE NumPred(max),
                                      s, r.i, last, r.marks, reps)
            ELSE r
        More(r) ==
            IF r.m THEN RunPossessive(item, min, IF max = MAXREPEAT THEN max ELSE NumPred(max),
                                      s, r.i, i, r.marks, reps)
            ELSE [m |-> TRUE, i |-> i, marks |-> marks]
    IN  IF min # Zero THEN Needed(Run(item, s, i, marks, reps))
        ELSE IF max # Zero /\ i # last THEN More(Run(item, s, i, marks, reps))
        ELSE [m |-> TRUE, i |-> i, marks |-> marks]

Run(todo, s, i, marks, reps) ==
    IF todo = <<>> THEN [m |-> TRUE, i |-> i, marks |-> marks]
    ELSE
    LET node == Head(todo)
        rest == Tail(todo)
        op == node.op
        \* MARK: setting a mark past the last one sets those between to 0
        SetMark(k) ==
            IF k <= Len(marks) THEN [marks EXCEPT ![k] = i]
            ELSE marks \o [j \in 1..(k - Len(marks) - 1) |-> 0] \o <<i>>
        \* whether group n has both its marks, the end not before the start,
        \* and the end is not past the last mark
        Marked(n) ==
            /\ 2 * n <= Len(marks)
            /\ marks[2 * n - 1] # 0 /\ marks[2 * n] # 0
            /\ marks[2 * n] >= marks[2 * n - 1]
        \* the rest, after the outcome r of items that are matched on their own
        Then(r) == IF r.m THEN Run(rest, s, r.i, r.marks, reps) ELSE r
        \* the rest, after the outcome r of the items of an assertion
        Asserted(r) ==
            IF r.m = node.neg THEN NoMatch(r.marks)
            ELSE Run(rest, s, i, IF node.neg THEN Restored(r, marks, reps) ELSE r.marks,
                     reps)
        \* a repeat, of the one node unit if its items are that
        Repeat(unit) ==
            IF "op" \in DOMAIN unit THEN RunOne(node, unit, rest, s, i, marks, reps)
            ELSE IF node.kind = "possessive"
            THEN Then(RunPossessive(node.item, node.min, node.max, s, i, 0, marks, reps))
            ELSE RunUntil([op |-> "until", kind |-> node.kind, min |-> node.min,
                           max |-> node.max, item |-> node.item, last |-> 0],
                          rest, s, i, marks, reps + 1)
        \* a backreference to the text of group n
        Same(from, len) ==
            /\ i + len <= Len(s) + 1
            /\ \A k \in 0..(len - 1) :
                  IF node.ic = "no" THEN s[from + k] = s[i + k]
                  ELSE Lower(Ord(s[from + k])) = Lower(Ord(s[i + k]))
        \* an assertion is matched from i, or from as many characters before
        \* i as a lookbehind is wide; no key is 10^9 characters long
        at == IF ~node.behind THEN i
              ELSE IF Len(node.width[1]) > 9 THEN 0
              ELSE i - NumValue(node.width[1])
    IN  CASE op \in {"literal", "in", "any"} ->
                IF Takes(node, s, i) THEN Run(rest, s, i + 1, marks, reps)
                ELSE NoMatch(marks)
          [] op = "at" ->
                IF AtHolds(node.at, s, i) THEN Run(rest, s, i, marks, reps)
                ELSE NoMatch(marks)
          [] op = "group" /\ node.n = 0 -> Run(node.item \o rest, s, i, marks, reps)
          [] op = "group" /\ node.n # 0 ->
                Run(node.item \o <<[op |-> "mark", k |-> 2 * node.n]>> \o rest,
                    s, i, SetMark(2 * node.n - 1), reps)
          [] op = "mark" -> Run(rest, s, i, SetMark(node.k), reps)
          [] op = "branch" -> RunBranch(node.items, 1, rest, s, i, marks, marks, reps)
          [] op = "repeat" -> Repeat(_simple(node.item))
          [] op = "until" -> RunUntil(node, rest, s, i, marks, reps)
          [] op = "atomic" -> Then(Run(node.item, s, i, marks, reps))
          [] op = "groupref" ->
                IF /\ Marked(node.n)
                   /\ Same(marks[2 * node.n - 1], marks[2 * node.n] - marks[2 * node.n - 1])
                THEN Run(rest, s, i + marks[2 * node.n] - marks[2 * node.n - 1], marks, reps)
                ELSE NoMatch(marks)
          [] op = "groupref_exists" ->
                Run((IF Marked(node.n) THEN node.yes ELSE node.no) \o rest,
                    s, i, marks, reps)
          \* a lookbehind that would start before the string fails when it is
          \* to hold, and holds when it is not to
          [] op = "assert" ->
                IF at >= 1 THEN Asserted(Run(node.item, s, at, marks, reps))
                ELSE IF node.neg THEN Run(rest, s, i, marks, reps)
                ELSE NoMatch(marks)

\* matcher.search(key): the first position from which the pattern matches,
\* start being the first to try.  A key shorter than the least width of the
\* pattern is not tried, and no position that leaves less than that width
\* but the first.  When a group of the match has its end before its start,
\* there is no match to return: search raises SystemError (wrong).
RECURSIVE SearchFrom(_, _, _)
SearchFrom(matcher, s, start) ==
    LET \* the least width, or 10^9 for a larger one: no key is that long
        lo == IF Len(matcher.width) > 9 THEN 1000000000 ELSE NumValue(matcher.width)
        Found(r) ==
            IF ~r.m THEN SearchFrom(matcher, s, start + 1)
            ELSE IF \E n \in 1..matcher.groups :
                       /\ 2 * n <= Len(r.marks)
                       /\ r.marks[2 * n - 1] # 0 /\ r.marks[2 * n] # 0
                       /\ r.marks[2 * n - 1] > r.marks[2 * n]
            THEN [m |-> FALSE, wrong |-> TRUE]
            ELSE [m |-> TRUE, wrong |-> FALSE, start |-> start, i |-> r.i,
                  marks |-> r.marks]
    IN  IF Len(s) < lo \/ start > Len(s) + 1 \/ (start > 1 /\ start > Len(s) + 2 - lo)
        THEN [m |-> FALSE, wrong |-> FALSE]
        ELSE Found(Run(matcher.items, s, start, <<>>, 0))

\* m.group(n) of a match in s: the text of the group, None when the group
\* took no part in the match
GroupOf(r, s, n) ==
    IF 2 * n > Len(r.marks) \/ r.marks[2 * n - 1] = 0 \/ r.marks[2 * n] = 0 THEN PyNone
    ELSE PyStr(SubSeq(s, r.marks[2 * n - 1], r.marks[2 * n] - 1))

\* root.replace(".", r"\.")
RECURSIVE EscapeDots(_)
EscapeDots(s) ==
    IF s = <<>> THEN <<>>
    ELSE (IF Head(s) = "." THEN <<"\\", ".">> ELSE <<Head(s)>>) \o EscapeDots(Tail(s))

\* DictOf.parse: "^" + root.replace(".", r"\.") + r"([^.]+)"
MatcherPattern(root) ==
    <<"^">> \o EscapeDots(root) \o <<"(", "[", "^", ".", "]", "+", ")">>

\* DictOf.parse: matcher = re.compile(...) for the root of a key path
Matcher(root) == Compile(MatcherPattern(root))

\* DictOf.parse: m = matcher.search(key)
Search(matcher, key) == SearchFrom(matcher, key, 1)

\* DictOf.parse: subkey = m.group(1), for a key that the matcher matches
Subkey(matcher, key) == GroupOf(Search(matcher, key), key, 1)

-----------------------------------------------------------------------------
(* The run of parse_config: one frame per active Parser.parse call.        *)
(*   SpecParser.parse:     [cls, self, key_path, i, parsed]    i: the item *)
(*                         of self.spec the loop is at                     *)
(*   DictOf.parse:         [cls, self, key_path, matcher, i, subkey,       *)
(*                         values, seen_subkeys]   matcher and subkey:     *)
(*                         NoResult until they are assigned; i: the item   *)
(*                         of raw_config the loop is at                    *)
(*   CallableParser.parse: [cls, self, key_path]                           *)
(***************************************************************************)

NoResult == [r |-> "none"]

\* the frame of parser.parse(key_path, raw_config) as it starts
Enter(parser, key_path) ==
    IF parser.cls = "SpecParser"
    THEN [cls |-> "SpecParser", self |-> parser, key_path |-> key_path,
          i |-> 1, parsed |-> <<>>]
    ELSE IF parser.cls = "DictOf"
    THEN [cls |-> "DictOf", self |-> parser, key_path |-> key_path,
          matcher |-> NoResult, i |-> 1, subkey |-> NoResult, values |-> <<>>,
          seen_subkeys |-> {}]
    ELSE [cls |-> "CallableParser", self |-> parser, key_path |-> key_path]

Top == stack[Len(stack)]
Callers == SubSeq(stack, 1, Len(stack) - 1)

\* a variant of DictOf.parse without seen_subkeys.add(subkey)
Resume_forgets_subkey(frame, v) ==
    IF frame.cls = "SpecParser"
    THEN [frame EXCEPT !.parsed = DictSet(@, frame.self.spec[frame.i].k, v),
                       !.i = @ + 1]
    ELSE [frame EXCEPT !.values = DictSet(@, frame.subkey.s, v),
                       !.i = @ + 1]

\* a variant of both loops without the assignment of the parsed value
Resume_skips_assignment(frame, v) ==
    IF frame.cls = "SpecParser"
    THEN [frame EXCEPT !.i = @ + 1]
    ELSE [frame EXCEPT !.seen_subkeys = @ \cup {frame.subkey.s},
                       !.i = @ + 1]

\* the caller's frame once the call it was waiting for has returned v:
\* SpecParser.parse does parsed[key] = v and goes on to the next item;
\* DictOf.parse does values[subkey] = v, seen_subkeys.add(subkey)
Resume(frame, v) ==
    IF frame.cls = "SpecParser"
    THEN [frame EXCEPT !.parsed = DictSet(@, frame.self.spec[frame.i].k, v),
                       !.i = @ + 1]
    ELSE [frame EXCEPT !.values = DictSet(@, frame.subkey.s, v),
                       !.seen_subkeys = @ \cup {frame.subkey.s},
                       !.i = @ + 1]

\* the innermost call returns v
Return(v) ==
    IF Len(stack) = 1
    THEN /\ stack' = <<>>
         /\ result' = Returned(v)
         /\ pc' = "done"
    ELSE /\ stack' = Append(SubSeq(stack, 1, Len(stack) - 2),
                            Resume(stack[Len(stack) - 1], v))
         /\ UNCHANGED <<result, pc>>

\* a variant in which the caller swallows the exception and goes on with None
Raise_keeps_going(e) == Return(PyNone)

\* the innermost call raises e: no parse method catches, so every active
\* call is abandoned and parse_config raises e
Raise(e) ==
    /\ stack' = <<>>
    /\ result' = Raised(e)
    /\ pc' = "done"

ConfigurationError(key, error) ==
    [exc |-> "ConfigurationError", key |-> key, error |-> error]

\* The caller evaluates the spec expression; a DictOf(...) whose argument is
\* no spec fails here, before parse_config is entered.
BuildSpec ==
    /\ pc = "construct"
    /\ LET built == Construct(spec)
       IN  IF built.r = "raise"
           THEN /\ result' = built
                /\ pc' = "done"
                /\ trace' = Append(trace, [e |-> "raise", exc |-> built.err.exc])
                /\ UNCHANGED spec
           ELSE /\ spec' = built.val
                /\ pc' = "parse_config"
                /\ UNCHANGED <<result, trace>>
    /\ UNCHANGED <<config, stack, fn, text, out>>

\* parse_config: parser = Parser.from_spec(spec); parser.parse("", config)
ParseConfig ==
    /\ pc = "parse_config"
    /\ LET parser == from_spec(spec)
       IN  IF parser.r = "raise"
           THEN /\ result' = parser
                /\ pc' = "done"
                /\ trace' = Append(trace, [e |-> "raise", exc |-> parser.err.exc])
                /\ UNCHANGED stack
           ELSE /\ stack' = <<Enter(parser.val, <<>>)>>
                /\ pc' = "parse"
                /\ UNCHANGED <<result, trace>>
    /\ UNCHANGED <<spec, config, fn, text, out>>

\* SpecParser.parse, one turn of the loop, up to the call parser.parse(...)
SpecParserItem ==
    /\ pc = "parse"
    /\ Top.cls = "SpecParser"
    /\ Top.i <= Len(Top.self.spec)
    /\ LET key == Top.self.spec[Top.i].k
           parser == from_spec(Top.self.spec[Top.i].v)
       IN  IF HasDot(key)
           THEN /\ Raise(AssertionError("dots are not allowed in keys"))
                /\ trace' = Append(trace, [e |-> "raise", exc |-> "AssertionError"])
           ELSE IF parser.r = "raise"
           THEN /\ Raise(parser.err)
                /\ trace' = Append(trace, [e |-> "raise", exc |-> parser.err.exc])
           ELSE /\ stack' = Append(stack, Enter(parser.val, SubKeyPath(Top.key_path, key)))
                /\ UNCHANGED <<result, pc, trace>>
    /\ UNCHANGED <<spec, config, fn, text, out>>

\* SpecParser.parse: the loop is over, return parsed
SpecParserReturn ==
    /\ pc = "parse"
    /\ Top.cls = "SpecParser"
    /\ Top.i > Len(Top.self.spec)
    /\ Return(Namespace(Top.parsed))
    /\ UNCHANGED <<spec, config, trace, fn, text, out>>

\* CallableParser.parse: except Exception wraps what the callable raises in
\* a ConfigurationError; a BaseException that is no Exception is not caught
CallableParserParse ==
    /\ pc = "parse"
    /\ Top.cls = "CallableParser"
    /\ LET raw_value == RawValue(config, Top.key_path)
           o == Apply(Top.self.callable, raw_value)
       IN  /\ trace' = trace \o
                  << [e |-> "get", key |-> Top.key_path],
                     [e |-> "call", key |-> Top.key_path, text |-> raw_value,
                      res |-> Plain(o)] >>
           /\ IF o.r = "raise"
              THEN Raise(IF o.err.exc = "SystemExit" THEN o.err
                         ELSE ConfigurationError(Top.key_path, o.err))
              ELSE Return(o.val)
    /\ UNCHANGED <<spec, config, fn, text, out>>

\* DictOf.parse, up to the loop: matcher = re.compile(...).  A key path
\* that makes no well-formed pattern ends the parse with the exception of
\* re.compile: re.error, or one that re lets through.
DictOfCompile ==
    /\ pc = "parse"
    /\ Top.cls = "DictOf"
    /\ Top.matcher = NoResult
    /\ LET Compiled(matcher) ==
               IF matcher.st = "ok"
               THEN /\ stack' = Append(Callers, [Top EXCEPT !.matcher = matcher])
                    /\ UNCHANGED <<result, pc>>
               ELSE Raise(CASE matcher.st = "error" -> re_error
                            [] matcher.st = "ValueError" -> ValueError(matcher.msg, <<>>)
                            [] matcher.st = "OverflowError" -> OverflowError(matcher.msg))
       IN  Compiled(Matcher(Root(Top.key_path)))
    /\ UNCHANGED <<spec, config, trace, fn, text, out>>

\* DictOf.parse, one turn of the loop over raw_config, up to the call
\* self.subparser.parse(full_path, raw_config).  A match in which group 1
\* took no part has subkey None, and root + subkey raises TypeError; a
\* search that ends with a group whose span is wrong raises SystemError.
DictOfKey ==
    /\ pc = "parse"
    /\ Top.cls = "DictOf"
    /\ Top.matcher # NoResult
    /\ Top.i <= Len(config)
    /\ LET root == Root(Top.key_path)
           key == config[Top.i].k
           scan == [e |-> "scan", at |-> Top.key_path, key |-> key]
           Matched(subkey) ==
               IF subkey # PyNone /\ subkey.s \in Top.seen_subkeys
               THEN /\ stack' = Append(Callers,
                                       [Top EXCEPT !.subkey = subkey, !.i = @ + 1])
                    /\ trace' = Append(trace, scan)
                    /\ UNCHANGED <<result, pc>>
               ELSE IF subkey = PyNone
               THEN /\ Raise(TypeError("can only concatenate str (not \"NoneType\") to str"))
                    /\ trace' = Append(trace, scan)
               ELSE /\ stack' = Append(Append(Callers, [Top EXCEPT !.subkey = subkey]),
                                       Enter(Top.self.subparser, root \o subkey.s))
                    /\ trace' = trace \o
                           << scan,
                              [e |-> "subparse", at |-> Top.key_path,
                               subkey |-> subkey.s, key |-> root \o subkey.s] >>
                    /\ UNCHANGED <<result, pc>>
           Searched(m) ==
               IF m.wrong
               THEN /\ Raise([exc |-> "SystemError",
                               msg |-> "The span of capturing group is wrong, please report a bug for the re module."])
                    /\ trace' = Append(trace, scan)
               ELSE IF ~m.m
               THEN /\ stack' = Append(Callers, [Top EXCEPT !.i = @ + 1])
                    /\ trace' = Append(trace, scan)
                    /\ UNCHANGED <<result, pc>>
               ELSE Matched(GroupOf(m, key, 1))
       IN  Searched(Search(Top.matcher, key))
    /\ UNCHANGED <<spec, config, fn, text, out>>

\* DictOf.parse: the loop is over, return values
DictOfReturn ==
    /\ pc = "parse"
    /\ Top.cls = "DictOf"
    /\ Top.matcher # NoResult
    /\ Top.i > Len(config)
    /\ Return(Namespace(Top.values))
    /\ UNCHANGED <<spec, config, trace, fn, text, out>>

\* parse_config called a second time with the same spec object and a raw
\* dict that differs by one empty-valued key; the history keeps the raw dict
\* and the result of the first call
ParseAgain(K) ==
    /\ pc = "done"
    /\ \A i \in 1..Len(trace) : trace[i].e # "end"
    /\ LET \* the raw dicts that differ from raw_config by one key whose value
           \* is "": one such item removed, or one added for a key of K at
           \* any position
           EmptyVariants(raw_config) ==
               LET n == Len(raw_config)
                   keys == {raw_config[i].k : i \in 1..n}
               IN  {SubSeq(raw_config, 1, i - 1) \o SubSeq(raw_config, i + 1, n) :
                       i \in {j \in 1..n : raw_config[j].v = <<>>}}
                   \cup {SubSeq(raw_config, 1, i) \o <<[k |-> k, v |-> <<>>]>>
                            \o SubSeq(raw_config, i + 1, n) :
                            i \in 0..n, k \in K \ keys}
       IN  config' \in EmptyVariants(config)
    /\ trace' = Append(trace, [e |-> "end", config |-> config, res |-> result])
    /\ result' = NoResult
    /\ pc' = "parse_config"
    /\ UNCHANGED <<spec, stack, fn, text, out>>

\* a coercer called directly with a text
CallCoercer ==
    /\ pc = "idle"
    /\ out' = Apply(fn, text)
    /\ pc' = "called"
    /\ UNCHANGED <<spec, config, stack, result, trace, fn, text>>

-----------------------------------------------------------------------------
(* The inputs the runs are started on *)

\* all sequences over S of length at most n
SeqsUpTo(S, n) == UNION {[1..m -> S] : m \in 0..n}

\* the options of the OneOf and of the getitem coercer: {"x": 7}
TheOptions == << [k |-> <<"x">>, v |-> PyInt(7)] >>

BaseCoercers ==
    { [c |-> "String"], [c |-> "Integer"],
      [c |-> "OneOf", options |-> TheOptions],
      [c |-> "getitem", options |-> TheOptions] }

Defaults == {PyNone, PyInt(0)}

TupleOf(item_parser) == [c |-> "TupleOf", item_parser |-> item_parser]
Optional(item_parser, default) ==
    [c |-> "Optional", item_parser |-> item_parser, default |-> default]
Fallback(primary_parser, fallback_parser) ==
    [c |-> "Fallback", primary_parser |-> primary_parser,
     fallback_parser |-> fallback_parser]

\* one combinator over the base coercers
Coercers1 ==
    BaseCoercers
    \cup {TupleOf(c) : c \in BaseCoercers}
    \cup {Optional(c, d) : c \in BaseCoercers, d \in Defaults}
    \cup {Fallback(p, f) : p \in BaseCoercers, f \in BaseCoercers}

\* a combinator over those
Coercers ==
    Coercers1
    \cup {TupleOf(c) : c \in Coercers1}
    \cup {Optional(c, d) : c \in Coercers1, d \in Defaults}
    \cup {Fallback(p, f) : p \in Coercers1, f \in BaseCoercers}
    \cup {Fallback(p, f) : p \in BaseCoercers, f \in Coercers1}

Texts == SeqsUpTo({"1", "2", "x", ",", " ", "\t", "-", "_"}, MaxTextLen)

\* field names and raw keys
a == <<"a">>
b == <<"b">>
a_b == <<"a", ".", "b">>

Item(k, v) == [k |-> k, v |-> v]

Leaves ==
    { Callable([c |-> "Integer"]),
      Callable(Optional([c |-> "Integer"], PyInt(0))),
      Callable([c |-> "getitem", options |-> TheOptions]) }
Terminals == Leaves \cup {Other}

\* the dicts of at most two fields, the first with a value from S1 and the
\* second with a value from S2; a field name may hold a "."
Dicts(S1, S2) ==
    {Dict(<<>>)}
    \cup {Dict(<<Item(a, x)>>) : x \in S1}
    \cup {Dict(<<Item(a, x), Item(b, y)>>) : x \in S1, y \in S2}
    \cup {Dict(<<Item(a_b, x)>>) : x \in S1 \cap Terminals}
    \cup {Dict(<<Item(a, x), Item(a_b, y)>>) : x \in S1 \cap Terminals, y \in S2 \cap Terminals}

Specs1 ==
    Terminals \cup {DictOfCall(x) : x \in Terminals} \cup Dicts(Terminals, Terminals)

\* what stands beside a nested spec in a dict
Siblings == {Callable([c |-> "Integer"]), Other}

\* field names that are read as pattern syntax once they are in the key
\* path of a DictOf: "(", "a|b", "a+", "(a)", one that makes re.compile
\* fail with another exception than re.error: "\U80000000", and one that
\* makes matcher.search fail on the keys "a.b" and "a.a.b": "(?:\W??(a)|)++"
PatternNames ==
    { <<"(">>, <<"a", "|", "b">>, <<"a", "+">>, <<"(", "a", ")">>,
      <<"(", "?", ":", "\\", "W", "?", "?", "(", "a", ")", "|", ")", "+", "+">>,
      <<"\\", "U", "8", "0", "0", "0", "0", "0", "0", "0">> }

\* and a field that holds a DictOf of a dict of leaves, or a DictOf of a leaf
\* under a name of PatternNames; and, before a sibling and below a DictOf,
\* a callable that fails with another Exception than ValueError and KeyError
\* (operator.neg: TypeError) and one that fails with a BaseException that is
\* no Exception (sys.exit: SystemExit)
SpecExprs ==
    LET OtherLeaves == {Callable([c |-> "operator.neg"]), Callable([c |-> "sys.exit"])}
    IN  Specs1 \cup {DictOfCall(x) : x \in Specs1}
           \cup Dicts(Specs1, Siblings) \cup Dicts(Siblings, Specs1)
           \cup {Dict(<<Item(a, DictOfCall(d))>>) : d \in Dicts(Terminals, Terminals)}
           \cup {Dict(<<Item(k, DictOfCall(x))>>) : k \in PatternNames, x \in Leaves}
           \cup {Dict(<<Item(a, x), Item(b, y)>>) : x \in OtherLeaves, y \in Siblings}
           \cup {Dict(<<Item(a, DictOfCall(x))>>) : x \in OtherLeaves}

RawItems ==
    {Item(k, v) : k \in { a, b, <<"a", ".", "a">>, a_b, <<"a", ".", "a", ".", "b">>,
                          <<"$", ".", "a">> },
                  v \in { <<>>, <<"1">>, <<"x">> }}

\* the dicts of at most MaxRawLen items: no key twice, every insertion order
Configs ==
    {d \in SeqsUpTo(RawItems, MaxRawLen) :
        \A i, j \in 1..Len(d) : i # j => d[i].k # d[j].k}

\* Objects with more than one capability, as application classes can define
\* them: a DictOf subclass with __call__, a class deriving from DictOf and
\* dict, and a class deriving from DictOf and dict with __call__
ParserNodes ==
    LET int == CallableParser([c |-> "Integer"])
        get == [c |-> "getitem", options |-> TheOptions]
        items == <<Item(a, Callable([c |-> "Integer"]))>>
    IN  { DictOf(int),
          [t |-> "Parser", cls |-> "DictOf", subparser |-> int, call |-> get],
          [t |-> "Parser", cls |-> "DictOf", subparser |-> int, items |-> items],
          [t |-> "Parser", cls |-> "DictOf", subparser |-> int, items |-> items,
           call |-> get] }
ResolveNodes == Terminals \cup ParserNodes

\* the specs whose nodes have every combination of the three capabilities
\* that from_spec tests for; among them a dict subclass with __call__
ResolveSpecs ==
    ResolveNodes
    \cup {Dict(<<Item(a, x)>>) : x \in ResolveNodes}
    \cup {[t |-> "dict", items |-> <<Item(a, x)>>, call |-> [c |-> "Integer"]] :
             x \in ResolveNodes}
    \cup {Dict(<<Item(a, x), Item(b, y)>>) : x \in ResolveNodes, y \in ResolveNodes}

\* the specs made of dicts and leaves only (no DictOf), two levels deep
StaticSpecs ==
    Dicts(Terminals, Terminals)
    \cup {Dict(<<Item(a, d)>>) : d \in Dicts(Leaves, Leaves)}
    \cup {Dict(<<Item(a, d), Item(b, x)>>) : d \in Dicts(Leaves, Leaves), x \in Siblings}
    \cup Terminals

\* the raw keys that those specs look up, and one that none of them does
StaticKeys == { <<>>, a, b, <<"a", ".", "a">>, a_b, <<"b", ".", "a">> }

-----------------------------------------------------------------------------
(* Specifications *)

\* a run of parse_config(config, spec)
Init ==
    /\ spec \in SpecExprs
    /\ config \in Configs
    /\ pc = "construct"
    /\ stack = <<>>
    /\ result = NoResult
    /\ trace = <<>>
    /\ fn = [c |-> "String"]
    /\ text = <<>>
    /\ out = NoResult

Next ==
    \/ BuildSpec
    \/ ParseConfig
    \/ SpecParserItem
    \/ SpecParserReturn
    \/ CallableParserParse
    \/ DictOfCompile
    \/ DictOfKey
    \/ DictOfReturn

Spec == Init /\ [][Next]_vars

\* a coercer applied to a text
CoercerInit ==
    /\ fn \in Coercers
    /\ text \in Texts
    /\ pc = "idle"
    /\ out = NoResult
    /\ spec = Other
    /\ config = <<>>
    /\ stack = <<>>
    /\ result = NoResult
    /\ trace = <<>>

CoercerNext == CallCoercer

CoercerSpec == CoercerInit /\ [][CoercerNext]_vars

\* a run of parse_config(config, spec) over the specs of ResolveSpecs
ResolveInit ==
    /\ spec \in ResolveSpecs
    /\ config \in Configs
    /\ pc = "construct"
    /\ stack = <<>>
    /\ result = NoResult
    /\ trace = <<>>
    /\ fn = [c |-> "String"]
    /\ text = <<>>
    /\ out = NoResult

ResolveSpec == ResolveInit /\ [][Next]_vars

\* two runs of parse_config on a spec without DictOf, the second on a raw
\* dict with one empty-valued key more or less
StaticInit ==
    /\ spec \in StaticSpecs
    /\ config \in {d \in Configs : \A i \in 1..Len(d) : d[i].k \in StaticKeys}
    /\ pc = "construct"
    /\ stack = <<>>
    /\ result = NoResult
    /\ trace = <<>>
    /\ fn = [c |-> "String"]
    /\ text = <<>>
    /\ out = NoResult

StaticNext ==
    \/ BuildSpec
    \/ ParseConfig
    \/ SpecParserItem
    \/ SpecParserReturn
    \/ CallableParserParse
    \/ ParseAgain(StaticKeys)

StaticSpec == StaticInit /\ [][StaticNext]_vars

-----------------------------------------------------------------------------
(* Claims about the combinators, checked under CoercerSpec *)

Called == pc = "called"
IsFallback == fn.c = "Fallback"
\* what the two parsers of a Fallback do on their own with the same text
PrimaryAlone == Apply(fn.primary_parser, text)
FallbackAlone == Apply(fn.fallback_parser, text)
\* the calls made below the outermost one
InnerCalls == Tail(out.calls)

\* C4 as stated: Fallback(P, F)(x) is P(x) when P(x) succeeds; when P(x)
\* fails, with any kind of failure, F is tried on the same text and the
\* outcome is F's: F(x) when it succeeds, F's failure when both fail.
C4_FallbackOnAnyFailure ==
    (Called /\ IsFallback) =>
        IF PrimaryAlone.r = "return"
        THEN Plain(out) = Plain(PrimaryAlone)
        ELSE /\ Plain(out) = Plain(FallbackAlone)
             /\ InnerCalls = PrimaryAlone.calls \o FallbackAlone.calls

\* C4 amended: Fallback(P, F)(x) is P(x) when P(x) succeeds; when P(x) fails
\* with a ValueError, F is tried on the same text x and the outcome is F's
\* (its value, or its failure and not P's); when P(x) fails with any other
\* kind of failure, F is not tried and P's failure propagates.
C4_FallbackOnValueError ==
    (Called /\ IsFallback) =>
        IF PrimaryAlone.r = "return"
        THEN /\ Plain(out) = Plain(PrimaryAlone)
             /\ InnerCalls = PrimaryAlone.calls
        ELSE IF PrimaryAlone.err.exc = "ValueError"
        THEN /\ Plain(out) = Plain(FallbackAlone)
             /\ InnerCalls = PrimaryAlone.calls \o FallbackAlone.calls
             /\ FallbackAlone.calls[1] = [c |-> fn.fallback_parser, text |-> text]
        ELSE /\ Plain(out) = Plain(PrimaryAlone)
             /\ InnerCalls = PrimaryAlone.calls

\* both parsers fail with a ValueError, on different grounds, and the
\* failure that comes out is the fallback's
C4_Witness ==
    /\ Called /\ IsFallback
    /\ PrimaryAlone.r = "raise" /\ FallbackAlone.r = "raise"
    /\ PrimaryAlone.err.exc = "ValueError"
    /\ PrimaryAlone.err # FallbackAlone.err
    /\ out.r = "raise" /\ out.err = FallbackAlone.err

\* C5: Optional(P, default=D) applied to the empty string returns D without
\* invoking P; applied to a non-empty text it returns what P returns or
\* fails as P fails, so it never fails on its own.
C5_OptionalDefault ==
    (Called /\ fn.c = "Optional") =>
        IF text = <<>>
        THEN /\ Plain(out) = Returned(fn.default)
             /\ InnerCalls = <<>>
        ELSE /\ Plain(out) = Plain(Apply(fn.item_parser, text))
             /\ InnerCalls = Apply(fn.item_parser, text).calls

\* an Optional around a parser that rejects the empty string, applied to it
C5_Witness ==
    /\ Called /\ fn.c = "Optional" /\ text = <<>>
    /\ Apply(fn.item_parser, <<>>).r = "raise"
    /\ out.r = "return" /\ out.val = fn.default

\* C10: TupleOf(item)(text) either fails or returns a sequence with at least
\* one item.
C10_TupleOfNeverEmpty ==
    (Called /\ fn.c = "TupleOf" /\ out.r = "return") => Len(out.val.elems) >= 1

-----------------------------------------------------------------------------
(* Claims about parse_config, checked under Spec *)

\* names joined by "."
RECURSIVE JoinDots(_)
JoinDots(names) ==
    IF names = <<>> THEN <<>>
    ELSE IF Len(names) = 1 THEN names[1]
    ELSE names[1] \o <<".">> \o JoinDots(Tail(names))

\* The name each calling frame is at, outermost first: the field name of a
\* SpecParser, and for a DictOf the subkey it discovered in the raw key it
\* is looking at.
PathNames ==
    [d \in 1..(Len(stack) - 1) |->
        IF stack[d].cls = "SpecParser"
        THEN stack[d].self.spec[stack[d].i].k
        ELSE stack[d].subkey.s]

EventsOf(kinds) == {i \in 1..Len(trace) : trace[i].e \in kinds}
FailedCalls == {i \in EventsOf({"call"}) : trace[i].res.r = "raise"}
IsConfigurationError == result.r = "raise" /\ result.err.exc = "ConfigurationError"
IsConstructionError == result.r = "raise" /\ result.err.exc = "AssertionError"

\* the exceptions of the model that derive from BaseException and not from
\* Exception
NotAnException == {"SystemExit"}

\* C1 as stated: whenever a leaf coercer fails during parse_config, with a
\* failure of any kind, the parse ends in a ConfigurationError whose key is
\* the field names and discovered subkeys from the root to that leaf joined
\* by "." (no leading or trailing dot) and whose error is the coercer's
\* failure.
C1_AnyLeafFailureCarriesKeyPath ==
    [][ LET n == Len(trace')
        IN  (n > Len(trace) /\ trace'[n].e = "call" /\ trace'[n].res.r = "raise")
            => /\ pc' = "done"
               /\ result' = Raised(ConfigurationError(JoinDots(PathNames),
                                                      trace'[n].res.err))
               /\ result'.err.key # <<>> =>
                    /\ Head(result'.err.key) # "."
                    /\ result'.err.key[Len(result'.err.key)] # "."
      ]_vars

\* C1 amended: whenever a leaf coercer fails during parse_config with an
\* Exception, of any class, the parse ends in a ConfigurationError whose key
\* is the field names and discovered subkeys from the root to that leaf
\* joined by "." (no leading or trailing dot) and whose error is the
\* coercer's failure; when it fails with a BaseException that is no
\* Exception, the parse ends in that failure itself, with no key path.
C1_LeafFailureCarriesKeyPath ==
    [][ LET n == Len(trace')
        IN  (n > Len(trace) /\ trace'[n].e = "call" /\ trace'[n].res.r = "raise")
            => /\ pc' = "done"
               /\ IF trace'[n].res.err.exc \in NotAnException
                  THEN result' = Raised(trace'[n].res.err)
                  ELSE /\ result' = Raised(ConfigurationError(JoinDots(PathNames),
                                                              trace'[n].res.err))
                       /\ result'.err.key # <<>> =>
                            /\ Head(result'.err.key) # "."
                            /\ result'.err.key[Len(result'.err.key)] # "."
      ]_vars

\* a leaf two levels down, below a DictOf, fails with a TypeError and the
\* error names a.b
C1_Witness ==
    /\ IsConfigurationError
    /\ result.err.key = a_b
    /\ result.err.error.exc = "TypeError"

\* C2: once the first leaf fails, no further coercer is invoked (nothing at
\* all is looked up afterwards), the reported error is that failure as the
\* leaf's parser raised it, and no namespace is returned.
C2_FailFast ==
    \A i \in FailedCalls :
        /\ i = Len(trace)
        /\ pc = "done"
        /\ stack = <<>>
        /\ result = Raised(IF trace[i].res.err.exc \in NotAnException
                           THEN trace[i].res.err
                           ELSE ConfigurationError(trace[i].key, trace[i].res.err))

\* the first of two fields failed and the second was never looked up
C2_Witness ==
    /\ pc = "done"
    /\ spec.t = "dict" /\ Len(spec.items) = 2
    /\ spec.items[2].v.t = "callable"
    /\ FailedCalls # {}
    /\ Cardinality(EventsOf({"call"})) = 1
    /\ result.err.key = a

\* C3 as stated: a construction error is raised before any raw data is
\* examined: no raw key scan, raw lookup or coercer call precedes it.
C3_ConstructionErrorBeforeRawData ==
    IsConstructionError => EventsOf({"scan", "get", "call"}) = {}

\* a DictOf(...) call, not yet evaluated, whose argument is no spec
RECURSIVE BadDictOfCall(_)
BadDictOfCall(e) ==
    IF e.t = "DictOf(...)" THEN e.arg.t = "other" \/ BadDictOfCall(e.arg)
    ELSE IF e.t = "dict" THEN \E i \in 1..Len(e.items) : BadDictOfCall(e.items[i].v)
    ELSE FALSE

\* C3 amended: a construction error is raised when resolution reaches the
\* defective node, nothing is parsed on behalf of a defective node and
\* nothing happens after the error.  A DictOf resolves its subordinate spec
\* when it is constructed and parse_config resolves the root before it
\* parses, so for those no raw data has been examined; a structural mapping
\* resolves each field (and checks its name) only when the parse reaches it,
\* in declaration order, after the earlier fields have been looked up and
\* coerced.
C3_ConstructionErrorWhenReached ==
    /\ (spec.t = "other" \/ BadDictOfCall(spec)) =>
          /\ stack = <<>>
          /\ EventsOf({"scan", "get", "call"}) = {}
          /\ pc = "done" => IsConstructionError
    /\ \A d \in 1..(Len(stack) - 1) :
          stack[d].cls = "SpecParser" =>
              /\ ~HasDot(stack[d].self.spec[stack[d].i].k)
              /\ stack[d].self.spec[stack[d].i].v.t # "other"
    /\ IsConstructionError =>
          /\ pc = "done" /\ stack = <<>>
          /\ trace[Len(trace)].e = "raise"
          /\ Cardinality(EventsOf({"raise"})) = 1

\* a construction error raised after a field was looked up and coerced
C3_Witness ==
    /\ IsConstructionError
    /\ EventsOf({"call"}) # {}

\* the next path segment of a raw key after a prefix
NextPathSegment(key, prefix) ==
    LET rest == SubSeq(key, Len(prefix) + 1, Len(key))
        stop == IF \E i \in 1..Len(rest) : rest[i] = "."
                THEN (CHOOSE i \in 1..Len(rest) :
                         rest[i] = "." /\ \A j \in 1..(i - 1) : rest[j] # ".") - 1
                ELSE Len(rest)
    IN  SubSeq(rest, 1, stop)

\* the prefix of a DictOf at key path K: K + ".", nothing at the root
PrefixAt(d) == IF d = 1 THEN <<>> ELSE stack[d].key_path \o <<".">>

\* C6: when DictOf.parse at key path K has gone through the raw source, the
\* key set of the namespace it returns is exactly the set of next path
\* segments of the raw keys that begin with the prefix; it is empty when no
\* raw key matches.
C6_DynamicDiscovery ==
    \A d \in 1..Len(stack) :
        (stack[d].cls = "DictOf" /\ stack[d].i > Len(config)) =>
            DictKeys(stack[d].values) =
                {NextPathSegment(config[i].k, PrefixAt(d)) :
                    i \in {j \in 1..Len(config) : StartsWith(config[j].k, PrefixAt(d))}}

\* the subkeys a DictOf frame has discovered so far: what its pattern takes
\* out of the raw keys its loop has reached
Reached(d) ==
    IF d < Len(stack) THEN 1..stack[d].i ELSE 1..(stack[d].i - 1)
Discovered(d) ==
    LET Taken(m, key) == IF m.m THEN {GroupOf(m, key, 1).s} ELSE {}
    IN  UNION {Taken(Search(stack[d].matcher, config[i].k), config[i].k) :
                  i \in Reached(d)}
SubparsesAt(key_path, subkey) ==
    {i \in EventsOf({"subparse"}) : trace[i].at = key_path /\ trace[i].subkey = subkey}

\* C7: during one DictOf.parse call the subordinate parser is invoked exactly
\* once for each distinct discovered subkey, at path prefix + subkey, however
\* many raw keys share that subkey (keys nested deeper under it included).
C7_DynamicDedup ==
    \A d \in 1..Len(stack) :
        stack[d].cls = "DictOf" =>
            LET OncePerSubkey(discovered) ==
                    /\ \A subkey \in discovered :
                          /\ Cardinality(SubparsesAt(stack[d].key_path, subkey)) = 1
                          /\ \A i \in SubparsesAt(stack[d].key_path, subkey) :
                                trace[i].key = PrefixAt(d) \o subkey
                    /\ \A i \in EventsOf({"subparse"}) :
                          trace[i].at = stack[d].key_path
                              => trace[i].subkey \in discovered
            IN  OncePerSubkey(Discovered(d))

\* a DictOf has gone through two raw keys that yield the same subkey, one of
\* them nested deeper
C7_Witness ==
    \E d \in 1..Len(stack) :
        /\ stack[d].cls = "DictOf"
        /\ stack[d].i > Len(config)
        /\ Len(config) = 2
        /\ Len(config[1].k) # Len(config[2].k)
        /\ Search(stack[d].matcher, config[1].k).m
        /\ Search(stack[d].matcher, config[2].k).m
        /\ Subkey(stack[d].matcher, config[1].k)
             = Subkey(stack[d].matcher, config[2].k)

\* C8: each invocation of a leaf coercer receives the raw string stored at
\* the leaf's key path, or the empty string when that key is absent; never
\* the value of another key.
C8_LeafReceivesRawOrEmpty ==
    \A i \in EventsOf({"call"}) :
        /\ trace[i - 1].e = "get" /\ trace[i - 1].key = trace[i].key
        /\ IF \E j \in 1..Len(config) : config[j].k = trace[i].key
           THEN \E j \in 1..Len(config) :
                    config[j].k = trace[i].key /\ trace[i].text = config[j].v
           ELSE trace[i].text = <<>>

\* a leaf under a DictOf whose subkey was discovered only from a deeper raw
\* key, so that its own key is absent, was given the empty string
C8_Witness ==
    \E i \in EventsOf({"call"}) :
        /\ trace[i].text = <<>>
        /\ \A j \in 1..Len(config) : config[j].k # trace[i].key
        /\ \E j \in EventsOf({"subparse"}) : trace[j].key = trace[i].key
        /\ \E j \in 1..Len(config) : config[j].v # <<>>

\* the key path of a child: parent + "." + name, the bare name at the root
ChildPath(parent, name, at_root) ==
    IF at_root THEN name ELSE parent \o <<".">> \o name

\* The value v is what the spec node s yields at key path `path`: for a
\* structural node a namespace with exactly the declared fields, in
\* declaration order, each holding what its own node yields at the child
\* path; for a leaf the value some call of the coercer at that path returned;
\* for a DictOf a namespace whose every entry is what the subordinate yields.
RECURSIVE Yields(_, _, _, _)
Structural(s) == s.t = "dict" \/ (s.t = "Parser" /\ s.cls = "SpecParser")
FieldsOf(s) == IF s.t = "dict" THEN s.items ELSE s.spec
Yields(s, path, at_root, v) ==
    IF Structural(s)
    THEN /\ v.ty = "ConfigNamespace"
         /\ Len(v.kv) = Len(FieldsOf(s))
         /\ \A i \in 1..Len(v.kv) :
               /\ v.kv[i].k = FieldsOf(s)[i].k
               /\ Yields(FieldsOf(s)[i].v, ChildPath(path, v.kv[i].k, at_root),
                         FALSE, v.kv[i].v)
    ELSE IF s.t = "Parser" /\ s.cls = "DictOf"
    THEN /\ v.ty = "ConfigNamespace"
         /\ \A i \in 1..Len(v.kv) :
               Yields(s.subparser, ChildPath(path, v.kv[i].k, at_root), FALSE, v.kv[i].v)
    ELSE \E i \in EventsOf({"call"}) :
            trace[i].key = path /\ trace[i].res = Returned(v)

\* C9: whenever a structural parse succeeds, the returned namespace holds
\* every declared field and no other, each with the result of that field's
\* parser invoked at parent + "." + name (the bare name at the root),
\* recursively; a SpecParser call that is under way holds the fields before
\* the one it is at.
C9_StructuralFieldsPresent ==
    /\ (pc = "done" /\ result.r = "return") => Yields(spec, <<>>, TRUE, result.val)
    /\ \A d \in 1..Len(stack) :
          stack[d].cls = "SpecParser" =>
              /\ Len(stack[d].parsed) = stack[d].i - 1
              /\ Yields(SpecParser(SubSeq(stack[d].self.spec, 1, stack[d].i - 1)),
                        stack[d].key_path, d = 1, Namespace(stack[d].parsed))

\* a nested structural spec parsed with one raw key missing
C9_Witness ==
    /\ pc = "done" /\ result.r = "return"
    /\ spec.t = "dict" /\ Len(spec.items) = 2
    /\ spec.items[1].v.t = "dict" /\ Len(spec.items[1].v.items) = 2
    /\ Len(config) = 2
    /\ \E i \in EventsOf({"call"}) :
          \A j \in 1..Len(config) : config[j].k # trace[i].key

-----------------------------------------------------------------------------
(* Claims about the resolution of spec nodes, checked under ResolveSpec *)

\* the node that the next step resolves: the root spec in parse_config, the
\* value of the current field in SpecParser.parse
Resolving ==
    \/ pc = "parse_config"
    \/ /\ pc = "parse"
       /\ Top.cls = "SpecParser"
       /\ Top.i <= Len(Top.self.spec)
       /\ ~HasDot(Top.self.spec[Top.i].k)
ResolvedNode == IF pc = "parse_config" THEN spec ELSE Top.self.spec[Top.i].v

ImplementsParser(s) == s.t = "Parser"
IsMapping(s) == s.t = "dict" \/ "items" \in DOMAIN s
IsInvocable(s) == s.t = "callable" \/ "call" \in DOMAIN s

\* C11: resolving a spec node picks the realization in a fixed priority: a
\* node that implements the parser capability is used unchanged, even if it
\* is also a mapping or a callable; otherwise a mapping becomes a structural
\* parser over its fields; otherwise a callable becomes a leaf parser around
\* it; any other node ends the run with an AssertionError, which is not a
\* ConfigurationError.
C11_ResolutionPriority ==
    [][ Resolving =>
          LET s == ResolvedNode
              p == stack'[Len(stack')].self
          IN  IF ImplementsParser(s)
              THEN Len(stack') = Len(stack) + 1 /\ p = s
              ELSE IF IsMapping(s)
              THEN /\ Len(stack') = Len(stack) + 1
                   /\ p.cls = "SpecParser"
                   /\ p.spec = s.items
              ELSE IF IsInvocable(s)
              THEN /\ Len(stack') = Len(stack) + 1
                   /\ p.cls = "CallableParser"
                   /\ p.callable = (IF s.t = "callable" THEN s.callable ELSE s.call)
              ELSE /\ pc' = "done"
                   /\ stack' = <<>>
                   /\ result' = Raised(AssertionError("invalid specification"))
                   /\ result'.err.exc # "ConfigurationError"
      ]_vars

\* a dict that is also callable was resolved to a structural parser, and its
\* field, a parser that is also a dict and callable, is being used as it is
C11_Witness ==
    /\ spec.t = "dict" /\ IsInvocable(spec)
    /\ Len(stack) = 2
    /\ stack[1].cls = "SpecParser"
    /\ stack[1].self.spec = spec.items
    /\ stack[2].self = spec.items[1].v
    /\ IsMapping(stack[2].self) /\ IsInvocable(stack[2].self)

-----------------------------------------------------------------------------
(* Claims about absent and empty raw values, checked under StaticSpec *)

\* where the history records the end of the first parse_config call
Ended == \E i \in 1..Len(trace) : trace[i].e = "end"
EndOfFirst == CHOOSE i \in 1..Len(trace) : trace[i].e = "end"

\* C12: for a spec made of structural mappings and leaf coercers only, a raw
\* key that is absent and the same key present with "" as value are
\* indistinguishable: parsing a raw source with one empty-valued key added or
\* removed gives the same result, value or error, after the same lookups and
\* the same coercer calls.
C12_EmptyValueIsAbsent ==
    (pc = "done" /\ Ended) =>
        /\ result = trace[EndOfFirst].res
        /\ SubSeq(trace, EndOfFirst + 1, Len(trace))
              = SubSeq(trace, 1, EndOfFirst - 1)

\* the second call returned a value after a leaf looked up a key that is
\* present with "" as value and that the raw dict of the first call lacked
C12_Witness ==
    /\ pc = "done" /\ Ended
    /\ result.r = "return"
    /\ \E i \in (EndOfFirst + 1)..Len(trace) :
          /\ trace[i].e = "call"
          /\ DictHas(config, trace[i].key)
          /\ DictGet(config, trace[i].key, <<"x">>) = <<>>
          /\ ~DictHas(trace[EndOfFirst].config, trace[i].key)

====
